----------------------------- MODULE Normalizer -----------------------------
(***************************************************************************)
(* QuantileUtilityNormalizer (src/utils/scoring/normalization.py) for one  *)
(* metric, and MetricConfig.expand_ranges_for_metrics, which Population    *)
(* calls once per generation: count, look for saturated ends, expand them, *)
(* or refit when the readings have drifted.                                *)
(*                                                                         *)
(* Readings are small integers; anchors are exact, in units of 1/Scale.    *)
(* Other metrics have anchors of their own and only share the counters.    *)
(***************************************************************************)
EXTENDS Integers, Sequences, SequencesExt, FiniteSetsExt

CONSTANTS
    Values,        \* the readings of the metric
    Fits,          \* what update_ranges may calibrate from: sequences of readings
    Generations,   \* what one generation may read: sequences of readings
    Window,        \* calibration_window
    Quorum,        \* SATURATION_QUORUM
    MinSamples,    \* min_samples_for_drift
    LowQ, HighQ,   \* lower_quantile and upper_quantile, in percent
    MaxRounds      \* bound on the generations

VARIABLES
    higher,      \* the metric's direction: HIGHER_IS_BETTER, or LOWER_IS_BETTER
    anchors,     \* <<q_low, q_high>>
    history,     \* _history
    samples,     \* _total_samples_since_calibration
    outs,        \* _out_of_support_counts
    calibrated,  \* _is_calibrated
    rounds,      \* generations so far
    answer       \* what the last call did: "none", "fit", "expanded", "kept"

vars == <<higher, anchors, history, samples, outs, calibrated, rounds, answer>>

Scale == 10000
Recent(s, n) == SubSeq(s, Max({1, Len(s) - n + 1}), Len(s))
Count(s, Test(_)) == Cardinality({i \in DOMAIN s : Test(s[i])})
-----------------------------------------------------------------------------
\* The k-th smallest entry, from 0, and np.percentile with its interpolation.
Ranked(s, k) ==
    CHOOSE v \in Values : /\ Cardinality({i \in DOMAIN s : s[i] < v}) <= k
                          /\ Cardinality({i \in DOMAIN s : s[i] <= v}) > k

Percentile(s, q) ==
    LET at == q * (Len(s) - 1)
        k  == at \div 100
        a  == Ranked(s, k)
        b  == Ranked(s, Min({k + 1, Len(s) - 1}))
    IN  a * Scale + (at % 100) * (b - a) * (Scale \div 100)

\* Latencies and their kin cannot be zero: NEVER_ZERO_METRICS.
Physical(s) == IF higher THEN s ELSE SelectSeq(s, LAMBDA v : v > 0)

\* iqr_filter's bounds, with k = 2.5, also when the quartiles are equal; below four
\* values it has none.
Quartile1(s) == Percentile(s, 25)
Quartile3(s) == Percentile(s, 75)
LowerBound(s) == Quartile1(s) - ((Quartile3(s) - Quartile1(s)) * 5) \div 2
UpperBound(s) == Quartile3(s) + ((Quartile3(s) - Quartile1(s)) * 5) \div 2

\* Only the bad tail is trimmed, unless fewer than three values stay.
TrimBadTail(s) ==
    LET kept == IF higher THEN SelectSeq(s, LAMBDA v : v * Scale >= LowerBound(s))
                          ELSE SelectSeq(s, LAMBDA v : v * Scale <= UpperBound(s))
    IN IF Len(s) < 4 \/ Len(kept) < 3 THEN s ELSE kept

\* GOOD_END_HEADROOM_FRACTION of the span or of the best value, and no less than the
\* smallest unit.
Headroom(span, good) == Max({(5 * span) \div 100, (5 * good) \div 100, 1})

\* _fit_metric_anchor: the bad end is a quantile of the trimmed values, the good end
\* lies beyond the best one.  Without spread, a neutral window.
FitMetricAnchor(s) ==
    LET good == Scale * IF higher THEN Max(Range(s)) ELSE Min(Range(s))
        bad  == Percentile(TrimBadTail(s), IF higher THEN LowQ ELSE HighQ)
        span == IF higher THEN good - bad ELSE bad - good
    IN  CASE span = 0 /\ good = 0 -> <<0, 1>>
          [] span = 0 /\ good # 0 -> <<(good * 9) \div 10, (good * 11) \div 10>>
          [] span # 0 /\ higher   -> <<bad, good + Headroom(span, good)>>
          [] OTHER                -> <<good - Headroom(span, good), bad>>

\* fit: no anchor, and no history, from values that are all filtered out.
Fit(s) ==
    LET readable == Physical(s)
    IN  /\ IF readable = <<>> THEN UNCHANGED <<anchors, history>>
           ELSE /\ anchors' = FitMetricAnchor(readable)
                /\ history' = Recent(readable, Window)
        /\ samples' = 0 /\ outs' = 0 /\ calibrated' = TRUE

\* score_metric, as how far a clamped value is from the bad and from the good end.
Clamped(v) == Max({anchors[1], Min({anchors[2], v * Scale})})
Spread == anchors[2] - anchors[1]
Utility100(v) == 100 * IF higher THEN Clamped(v) - anchors[1] ELSE anchors[2] - Clamped(v)

AtTop(v) == Utility100(v) >= 99 * Spread
AtBottom(v) == ~AtTop(v) /\ Utility100(v) <= Spread

\* detect_metric_saturation, with one bound for each end that a quorum has reached.
Saturated(s) ==
    (IF Count(s, AtTop) >= Quorum THEN <<"upper">> ELSE <<>>)
        \o (IF Count(s, AtBottom) >= Quorum THEN <<"lower">> ELSE <<>>)

\* A bound in utility space is the other end of the raw one for a latency.
RawUpper(bound) == (bound = "upper") <=> higher

Moved(a, bound, lowest, highest, rng) ==
    IF RawUpper(bound) THEN <<a[1], highest + rng \div 5>>
    ELSE <<Max({0, lowest - rng \div 5}), a[2]>>

\* expand_metric_anchor: a fifth of the range of the history beyond its quantile.  It
\* answers TRUE also when the end stays where it was.
ExpandMetricAnchor(e, bound, hist) ==
    LET readable == Physical(hist)
        lowest   == Percentile(readable, LowQ)
        highest  == Percentile(readable, HighQ)
        rng      == IF lowest = highest THEN highest \div 5 ELSE highest - lowest
        moved    == Moved(e.anchors, bound, lowest, highest, rng)
    IN  IF Len(readable) < 2 \/ moved[1] = moved[2] THEN e
        ELSE [anchors |-> moved, expanded |-> TRUE]

NeedsRecalibration(n, out) == n >= MinSamples /\ out * 5 > n
OutOfSupport(v) == v * Scale < anchors[1] \/ v * Scale > anchors[2]
-----------------------------------------------------------------------------
Init ==
    /\ higher \in BOOLEAN
    /\ anchors = <<0, 0>> /\ history = <<>> /\ samples = 0 /\ outs = 0
    /\ calibrated = FALSE /\ rounds = 0 /\ answer = "none"

\* update_ranges, once.
UpdateRanges ==
    /\ ~calibrated
    /\ \E s \in Fits : Physical(s) # <<>> /\ Fit(s)
    /\ answer' = "fit"
    /\ UNCHANGED <<higher, rounds>>

OutsAfter(s) == outs + Count(s, OutOfSupport)

\* Each saturated end is expanded in turn.
Widened(s, hist) ==
    FoldSeq(LAMBDA bound, e : ExpandMetricAnchor(e, bound, hist),
            [anchors |-> anchors, expanded |-> FALSE], Reverse(Saturated(s)))

\* expand_ranges_for_metrics: update each reading, expand what is saturated; only if
\* nothing is, look for drift.
ExpandRanges(s) ==
    LET hist  == Recent(history \o s, Window)
        n     == samples + Len(s)
        out   == OutsAfter(s)
        wider == Widened(s, hist)
    IN  \/ /\ Saturated(s) # <<>>
           /\ anchors' = IF wider.expanded THEN wider.anchors ELSE anchors
           /\ answer' = IF wider.expanded THEN "expanded" ELSE "kept"
           /\ history' = hist /\ samples' = n /\ outs' = out
           /\ UNCHANGED calibrated
        \/ /\ Saturated(s) = <<>> /\ NeedsRecalibration(n, out)
           /\ Fit(s \o hist)
           /\ answer' = "fit"
        \/ /\ Saturated(s) = <<>> /\ ~NeedsRecalibration(n, out)
           /\ answer' = "kept"
           /\ history' = hist /\ samples' = n /\ outs' = out
           /\ UNCHANGED <<anchors, calibrated>>

Generation ==
    /\ calibrated /\ rounds < MaxRounds
    /\ rounds' = rounds + 1
    /\ \E s \in Generations : ExpandRanges(s)
    /\ UNCHANGED higher

Next == UpdateRanges \/ Generation

Spec == Init /\ [][Next]_vars
-----------------------------------------------------------------------------
\* "Expand normalization ranges to accommodate metrics that exceed current bounds": an
\* end that was expanded is never pulled in.  (metrics.py:446)
ExpansionWidens ==
    [][answer' = "expanded" => anchors'[1] <= anchors[1] /\ anchors'[2] >= anchors[2]]_vars
=============================================================================
