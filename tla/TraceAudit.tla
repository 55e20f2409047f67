----------------------------- MODULE TraceAudit -----------------------------
(***************************************************************************)
(* The trace of a PBT session and what is read out of it: PBTTuner.step    *)
(* writes one record per generation when train_generation has returned,    *)
(* pbt_invariants audits the records, data_loader turns them into rows of  *)
(* (configuration, metrics).                                               *)
(*                                                                         *)
(* One knob stands for all; 0 is the auto-size sentinel the server reads   *)
(* back as a number.  A score is the throughput times the ruler of the     *)
(* normalizer, so chosen that a measurement is viable on both rulers or on *)
(* neither; a throughput of 0 is a failed evaluation.  measured and origin *)
(* remember what the records do not say.                                   *)
(***************************************************************************)
EXTENDS Integers, Sequences, FiniteSets, SequencesExt, FiniteSetsExt, TLC

CONSTANTS Size,           \* population_size
          ReadyInterval,  \* ready_interval
          Rounds,         \* BOUND: generations
          MaxBadRounds    \* BOUND: generations in which evaluations go wrong

ASSUME TraceAssumption ==
    Size \in Nat \ {0} /\ ReadyInterval \in Nat /\ Rounds \in Nat /\ MaxBadRounds \in Nat

VARIABLES phase,      \* "evaluating", "rescuing", "scoring", "evolving", "recording", "stopped"
          config,     \* knob_config
          steps,      \* step_count
          throughput, \* metrics.throughput, NoMetrics when metrics is None
          actual,     \* last_actual_config, NoConfig when None
          ruler,      \* what a unit of throughput scores
          events,     \* the exploitations of this generation: <<elite, poor>>
          measured,   \* history variable: what the server ran in the last evaluation
          origin,     \* history variable: whose configuration config was copied from
          history,    \* generation_history
          badRounds

workerVars == <<config, steps, throughput, actual>>
traceVars == <<phase, workerVars, ruler, events, measured, origin, history, badRounds>>

Workers == 1 .. Size
NoMetrics == -1
NoConfig == -1
Values == 0 .. 2
ReadBack(v) == IF v = 0 THEN 2 ELSE v
\* What a unit of throughput scores before and after calibration, and a score that lives.
Rulers == <<2, 5>>
DeadConfigThreshold == 6
Original == [generation |-> 0, elite |-> 0, copied |-> NoConfig]

TraceInit ==
    /\ phase = "evaluating"
    /\ config = [w \in Workers |-> (w + 1) % 3] /\ steps = [w \in Workers |-> 0]
    /\ throughput = [w \in Workers |-> NoMetrics]
    /\ actual = [w \in Workers |-> NoConfig]
    /\ ruler = Rulers[1] /\ events = {} /\ history = <<>> /\ badRounds = 0
    /\ measured = [w \in Workers |-> NoConfig]
    /\ origin = [w \in Workers |-> Original]
-----------------------------------------------------------------------------
(* A generation.                                                           *)

\* Measurements, and what can go wrong: a configuration that is barely alive, a
\* read-back that captures nothing, a crash after the read-back or before it.
Good == [throughput : {4, 5}, readback : {"captured"}]
Faults == {[throughput |-> 1, readback |-> "captured"],
           [throughput |-> 4, readback |-> "empty"],
           [throughput |-> 0, readback |-> "captured"],
           [throughput |-> 0, readback |-> "raised"]}

\* _verify_and_capture_config and evaluate_worker: knob_config.update(db_config), and
\* last_actual_config only of an evaluation that returned.
Capture(w, o) ==
    CASE o.readback = "captured" -> [config |-> ReadBack(config[w]), actual |-> ReadBack(config[w])]
      [] o.readback = "empty"    -> [config |-> config[w], actual |-> NoConfig]
      [] o.readback = "raised"   -> [config |-> config[w], actual |-> actual[w]]

Evaluate(outcome) ==
    LET wrong == IF \E w \in Workers : outcome[w] \in Faults THEN 1 ELSE 0
    IN  /\ phase = "evaluating" /\ badRounds + wrong <= MaxBadRounds
        /\ phase' = "rescuing"
        /\ badRounds' = badRounds + wrong
        /\ config' = [w \in Workers |-> Capture(w, outcome[w]).config]
        /\ actual' = [w \in Workers |-> Capture(w, outcome[w]).actual]
        /\ throughput' = [w \in Workers |-> outcome[w].throughput]
        /\ steps' = [w \in Workers |-> steps[w] + 1]
        /\ measured' = [w \in Workers |-> ReadBack(config[w])]
        /\ UNCHANGED <<ruler, events, origin, history>>

\* The reliability gate gives a failed evaluation 0, and a worker without metrics has 0.
Score(w) == IF throughput[w] > 0 THEN ruler * throughput[w] ELSE 0
Viable(w) == Score(w) >= DeadConfigThreshold
Dead == {w \in Workers : throughput[w] = 0}

\* Mutant: the metrics of the dead stay.
Rescue_KeepMetrics(value) ==
    /\ config' = [w \in Workers |-> IF w \in Dead THEN value ELSE config[w]]
    /\ origin' = [w \in Workers |-> IF w \in Dead THEN Original ELSE origin[w]]
    /\ UNCHANGED throughput

\* Worker.resample_config of the dead: no metrics, step_count and actual as they were.
Rescue(value) ==
    /\ config' = [w \in Workers |-> IF w \in Dead THEN value ELSE config[w]]
    /\ origin' = [w \in Workers |-> IF w \in Dead THEN Original ELSE origin[w]]
    /\ throughput' = [w \in Workers |-> IF w \in Dead THEN NoMetrics ELSE throughput[w]]

RescueDeadWorkers ==
    /\ phase = "rescuing"
    /\ phase' = "scoring"
    /\ IF \E w \in Workers : Viable(w) THEN UNCHANGED <<config, origin, throughput>>
       ELSE \E value \in Values : Rescue(value)
    /\ UNCHANGED <<steps, actual, ruler, events, measured, history, badRounds>>

\* The ranges are fitted, once here, and every score is taken again.
FinalizeScores ==
    /\ phase = "scoring"
    /\ phase' = "evolving"
    /\ \/ UNCHANGED ruler
       \/ ruler = Rulers[1] /\ Len(history) > 0 /\ ruler' = Rulers[2]
    /\ UNCHANGED <<workerVars, events, measured, origin, history, badRounds>>

Below(v, w) == throughput[v] < throughput[w] \/ (throughput[v] = throughput[w] /\ v < w)
Above(v, w) == throughput[v] > throughput[w] \/ (throughput[v] = throughput[w] /\ v < w)

Elites == {w \in Workers : Viable(w) /\ \A v \in Workers : Viable(v) => ~Above(v, w)}
Lowest == {w \in Workers : \A v \in Workers : ~Below(v, w)}
Ready(w) == steps[w] >= ReadyInterval
Poor == {w \in Workers : ~Viable(w) \/ (Ready(w) /\ w \in Lowest)} \ Elites

\* A worker perturbs what it copied by one step.
Near(v) == {n \in Values : n - v \in {-1, 1}}

\* Mutant: a worker that exploits stays ready.
Adopted_StayReady(w) == steps[w]

\* clone_from.
Adopted(w) == 0

\* execute_exploit_explore, with a quantile of one worker.
Evolve ==
    /\ phase = "evolving"
    /\ phase' = "recording"
    /\ \E elite \in IF Elites = {} THEN {0} ELSE Elites :
         LET poor == IF elite = 0 THEN {} ELSE Poor
         IN  /\ events' = {<<elite, w>> : w \in poor}
             /\ \E child \in [poor -> IF elite = 0 THEN Values ELSE Near(config[elite])] :
                   config' = [w \in Workers |-> IF w \in poor THEN child[w] ELSE config[w]]
             /\ steps' = [w \in Workers |-> IF w \in poor THEN Adopted(w) ELSE steps[w]]
             /\ origin' = [w \in Workers |->
                             IF w \in poor THEN [generation |-> Len(history) + 1, elite |-> elite,
                                                 copied |-> config[elite]]
                             ELSE origin[w]]
    /\ UNCHANGED <<throughput, actual, ruler, measured, history, badRounds>>

\* build_generation_record, from the workers as they are now.
Record ==
    [config |-> config, throughput |-> throughput, actual |-> actual,
     score |-> [w \in Workers |-> Score(w)],
     exploitations |-> events, ruler |-> ruler, measured |-> measured, origin |-> origin]

Step ==
    /\ phase = "recording"
    /\ history' = Append(history, Record)
    /\ events' = {}
    /\ phase' = IF Len(history') < Rounds THEN "evaluating" ELSE "stopped"
    /\ UNCHANGED <<workerVars, ruler, measured, origin, badRounds>>

TraceNext ==
    \/ \E outcome \in [Workers -> Good \cup Faults] : Evaluate(outcome)
    \/ RescueDeadWorkers
    \/ FinalizeScores
    \/ Evolve
    \/ Step

TraceSpec == TraceInit /\ [][TraceNext]_traceVars
-----------------------------------------------------------------------------
(* SessionTrace: what the audit reads of the records h.                    *)

InTrace(h, g) == g \in DOMAIN h

\* A metric of a worker without metrics is absent, that of a failed one is 0.
Metric(h, g, w) == IF InTrace(h, g) THEN h[g].throughput[w] ELSE NoMetrics
Intended(h, g, w) == IF InTrace(h, g) THEN h[g].config[w] ELSE NoConfig
Actual(h, g, w) == IF InTrace(h, g) THEN h[g].actual[w] ELSE NoConfig

\* Mutant: the pair is taken for (poor, elite), the order of truncation_selection.
Exploitations_Swapped(h) ==
    UNION {{[generation |-> g, elite |-> p[2], poor |-> p[1]] : p \in h[g].exploitations} : g \in DOMAIN h}

\* exploitations, with the index of their record.
Exploitations(h) ==
    UNION {{[generation |-> g, elite |-> p[1], poor |-> p[2]] : p \in h[g].exploitations} : g \in DOMAIN h}

\* Neighbours of the increasing sequence of generations G.
Neighbours(G) == {n \in G \X G : n[1] < n[2] /\ \A c \in G : c <= n[1] \/ c >= n[2]}

\* The median of x over S compared with a bound.
Ordered(S, x(_)) == SortSeq(SetToSeq(S), LAMBDA a, b : x(a) < x(b))
MedianTwice(S, x(_)) ==
    LET s == Ordered(S, x)
        n == Len(s)
    IN  x(s[(n + 1) \div 2]) + x(s[n \div 2 + 1])
-----------------------------------------------------------------------------
(* The checks of pbt_invariants; each TRUE when there is nothing to assess.*)

ExploitCadence(h) ==
    \A n \in Neighbours({g \in DOMAIN h : h[g].exploitations # {}}) : n[2] - n[1] >= ReadyInterval

DonorDiversity(h) ==
    Cardinality(Exploitations(h)) < 2 \/ Cardinality({e.elite : e \in Exploitations(h)}) > 1

\* The child is measured in the generation after, the donor in this one.
DonorMetric(h, e) == Metric(h, e.generation, e.elite)

ChildMetric(h, e) == Metric(h, e.generation + 1, e.poor)

Comparable(h) ==
    {e \in Exploitations(h) : DonorMetric(h, e) \notin {NoMetrics, 0} /\ ChildMetric(h, e) # NoMetrics}

Recovery(h, e) == (100 * ChildMetric(h, e)) \div DonorMetric(h, e)

ExploitRecovery(h) == \A e \in Comparable(h) : Recovery(h, e) >= 85

\* With one knob a changed configuration is all of the space.
Moved(h) ==
    {e \in Exploitations(h) :
        /\ InTrace(h, e.generation + 1)
        /\ Intended(h, e.generation, e.elite) # Intended(h, e.generation + 1, e.poor)}
PerturbationLocality(h) == Moved(h) = {}

\* The knob's relative move in percent; off the sentinel 0 it is unbounded.
Move(h, e) ==
    LET a == Intended(h, e.generation, e.elite)
        b == Intended(h, e.generation + 1, e.poor)
    IN  IF a = 0 THEN 10000 ELSE (100 * Max({a - b, b - a})) \div a

PerturbationMagnitude(h) ==
    Moved(h) = {} \/ LET move(e) == Move(h, e) IN MedianTwice(Moved(h), move) <= 100

\* Generations in which some worker has metrics, and what their means are of.
Metered(h) == {g \in DOMAIN h : \E w \in Workers : h[g].throughput[w] # NoMetrics}
Meters(h, g) == {w \in Workers : h[g].throughput[w] # NoMetrics}
SumOver(S, f) == MapThenSumSet(LAMBDA w : f[w], S)
SumMetric(h, g) == SumOver(Meters(h, g), h[g].throughput)
SumScore(h, g) == SumOver(Workers, h[g].score)

\* More than 10 points of the mean score for less than a twentieth of the mean metric:
\* (mean - before) / before, multiplied out.
Shocks(h) ==
    {n \in Neighbours(Metered(h)) :
        LET before == SumMetric(h, n[1]) * Cardinality(Meters(h, n[2]))
            metric == SumMetric(h, n[2]) * Cardinality(Meters(h, n[1])) - before
            score  == SumScore(h, n[2]) - SumScore(h, n[1])
        IN  /\ score > 10 * Size \/ -score > 10 * Size
            /\ 20 * metric < before /\ -20 * metric < before}
ScoreMetricCoupling(h) == Shocks(h) = {}

\* Workers that exploited at neither end: what was read back is what they carry on.
Untouched(h, n, w) ==
    \A e \in Exploitations(h) : e.poor = w => e.generation \notin {n[1], n[2]}
Ratchets(h) ==
    {r \in Neighbours(DOMAIN h) \X Workers :
        LET was == Intended(h, r[1][1], r[2])
            read == Actual(h, r[1][1], r[2])
        IN  /\ Untouched(h, r[1], r[2])
            /\ read # NoConfig
            /\ was # read /\ Intended(h, r[1][2], r[2]) = read}
ReadbackFidelity(h) == Ratchets(h) = {}

SearchEfficiency(h) ==
    LET all == {h[g].config[w] : g \in DOMAIN h, w \in Workers}
    IN  h # <<>> /\ 100 * Cardinality(all) >= 25 * Len(h) * Size

\* Pairs of one generation that differ by more than the tie band, and those whose
\* scores are the other way round.
RankPairs(h) ==
    {p \in (DOMAIN h) \X Workers \X Workers :
        LET g == p[1]
            v == p[2]
            w == p[3]
        IN  v < w /\ {v, w} \subseteq Meters(h, g) /\ h[g].throughput[v] # h[g].throughput[w]}
Inversions(h) ==
    {p \in RankPairs(h) : (h[p[1]].throughput[p[2]] > h[p[1]].throughput[p[3]])
                              # (h[p[1]].score[p[2]] > h[p[1]].score[p[3]])}
ScoreRankAgreement(h) ==
    RankPairs(h) # {} /\ 100 * Cardinality(Inversions(h)) <= 15 * Cardinality(RankPairs(h))

ExploitsOf(h, w) == {e.generation : e \in {e \in Exploitations(h) : e.poor = w}}
\* The generations between a worker's own exploits that are fewer than the interval.
ShortGaps(h, w) == {n \in Neighbours(ExploitsOf(h, w)) : n[2] - n[1] < ReadyInterval}
ExploitCadencePerWorker(h) == \A w \in Workers : ShortGaps(h, w) = {}

ExploitRecoveryMedian(h) ==
    Comparable(h) = {}
        \/ LET recovery(e) == Recovery(h, e) IN MedianTwice(Comparable(h), recovery) >= 150

\* check_normalizer_support is left out: the anchors of the session are not modelled.
SharedChecks(h) ==
    [donor_diversity |-> DonorDiversity(h), score_metric_coupling |-> ScoreMetricCoupling(h),
     readback_fidelity |-> ReadbackFidelity(h), search_efficiency |-> SearchEfficiency(h),
     score_rank_agreement |-> ScoreRankAgreement(h)]
CheckAll(h) ==
    SharedChecks(h) @@ [exploit_cadence |-> ExploitCadence(h), exploit_recovery |-> ExploitRecovery(h),
                        perturbation_locality |-> PerturbationLocality(h)]
CheckCorrected(h) ==
    SharedChecks(h) @@ [exploit_cadence_per_worker |-> ExploitCadencePerWorker(h),
                        exploit_recovery_median |-> ExploitRecoveryMedian(h),
                        perturbation_magnitude |-> PerturbationMagnitude(h)]

Violations(findings) == {c \in DOMAIN findings : ~findings[c]}
GatingViolations(findings) == Violations(findings) \ {"score_rank_agreement"}

\* What main counts, and what makes --strict exit with 1.
Broken(h, corrected) ==
    IF corrected THEN GatingViolations(CheckCorrected(h)) ELSE Violations(CheckAll(h))
-----------------------------------------------------------------------------
(* load_pbt_results.                                                       *)

\* A worker without metrics is a row too: its score is 0.0, not null, and it has no
\* failure_type.
Rows(h) == {r \in (DOMAIN h) \X Workers : h[r[1]].throughput[r[2]] # 0}
-----------------------------------------------------------------------------
(* Properties, of the records so far.                                      *)

Recorded == phase \in {"evaluating", "stopped"}

\* check_score_metric_coupling divides by the mean metric of the generation before: it
\* is never 0, although every evaluation of a generation may fail.
AuditIsDefined ==
    Recorded => \A g \in Metered(history) : SumMetric(history, g) > 0

\* A recovery ratio is about the copy: the donor was measured with the configuration
\* that was copied, the child with what it made of it.
RecoveryComparesChild ==
    Recorded =>
        \A e \in Comparable(history) :
            LET copy == history[e.generation].origin[e.poor]
            IN  /\ copy.generation = e.generation /\ copy.elite = e.elite
                /\ history[e.generation].measured[e.elite] = ReadBack(copy.copied)
                /\ ChildMetric(history, e) > 0 =>
                       \E v \in Near(copy.copied) :
                           history[e.generation + 1].measured[e.poor] = ReadBack(v)

\* A worker exploits early only because it was about to die.
EarlyMeansDying ==
    Recorded => \A w \in Workers : \A n \in ShortGaps(history, w) : Metric(history, n[2], w) <= 1

\* The mean score jumps alone only with the ruler.
ShockMeansRuler ==
    Recorded => \A n \in Shocks(history) : history[n[1]].ruler # history[n[2]].ruler

\* A knob is taken for ratcheted only on a read-back of an earlier generation.
RatchetMeansStale ==
    Recorded => \A r \in Ratchets(history) : Metric(history, r[1][1], r[2]) = NoMetrics

\* An alarm of the corrected audit has a cause.
AlarmsHaveCauses == EarlyMeansDying /\ ShockMeansRuler /\ RatchetMeansStale

\* The audit can be run on any trace the tuner writes, what it reports has a cause, and
\* what it calls a recovery is one.
AuditIsSound == AuditIsDefined /\ AlarmsHaveCauses /\ RecoveryComparesChild

\* What is corrected in the cadence and in the recovery only forgives: a trace that the
\* original forms of both pass does not fail the gate for them (check_corrected).
CorrectedForgives ==
    Recorded =>
        (Broken(history, FALSE) \subseteq {"perturbation_locality"} =>
            Broken(history, TRUE) \subseteq {"perturbation_magnitude"})
-----------------------------------------------------------------------------
(* What the documentation says and the code does not do.                   *)

\* worker_configs[].config "is the configuration the worker evaluated that round"
\* (session-json-schema.md:303), so the rows of the loader pair a configuration with its
\* own metrics.
RowsAreMeasured ==
    Recorded => \A r \in Rows(history) :
                    /\ Metric(history, r[1], r[2]) # NoMetrics
                    /\ ReadBack(history[r[1]].config[r[2]]) = history[r[1]].measured[r[2]]

\* "Empty dict when unavailable (...) or on failure" (session_assembly.py:111).
ActualIsOfThisRound ==
    Recorded => \A g \in DOMAIN history, w \in Workers :
                    Actual(history, g, w) \in {NoConfig, history[g].measured[w]}
=============================================================================
