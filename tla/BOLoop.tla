------------------------------- MODULE BOLoop -------------------------------
(***************************************************************************)
(* The ask / evaluate / tell loop of Bayesian optimization                 *)
(* (src/tuners/bo/tuner.py, bo/objective.py): PilotSize pilots scored with *)
(* the fallback anchors, one calibration, then adaptive trials until the   *)
(* budget, early stopping or the optimizer ends the session.               *)
(*                                                                         *)
(* A score depends on the anchors of the normalizer, which are fitted      *)
(* several times.  worth[i] is what trial i scores on the present anchors; *)
(* a fit chooses it anew.  The loop holds scores in three places: the      *)
(* iteration log, the run history of SMAC, and the best so far.            *)
(***************************************************************************)
EXTENDS Integers, Sequences, SequencesExt, FiniteSetsExt

CONSTANTS
    Iterations,    \* bo_config.n_iterations
    PilotSize,     \* min(range_update_interval, n_iterations)
    MinMetrics,    \* update_ranges: "Need at least 3"
    MinSamples,    \* min_samples_for_drift
    MaxScore,      \* scores are 0 .. MaxScore, 0 that of a closed gate
    Patience       \* early_stopping_patience, 0 when early stopping is off

ASSUME BOAssumption ==
    /\ Iterations \in Nat \ {0} /\ PilotSize \in 1 .. Iterations
    /\ MinMetrics \in Nat /\ MinSamples \in Nat /\ MaxScore \in Nat \ {0} /\ Patience \in Nat

VARIABLES
    phase,          \* "bootstrap", "optimize", "done", or "raised"
    log,            \* iteration_log: the result of each trial and its score
    told,           \* facade.runhistory: per trial the score behind the cost of
                    \* the configuration asked for and of the one that ran
    worth,          \* the score of each trial on the present anchors
    fitted,         \* _is_calibrated: the anchors are not the fallback ones
    samples,        \* _total_samples_since_calibration
    outs,           \* _out_of_support_counts
    best,           \* _bo_best_score
    stale           \* _stale_counter

boVars == <<phase, log, told, worth, fitted, samples, outs, best, stale>>

Scores == 0 .. MaxScore

\* What a trial gives: metrics, metrics tagged with a failure_type (gate 0), or an
\* exception of evaluate_config.
Results == {"measured", "failed", "raised"}

\* "metrics is not None": a failed evaluation has metrics too.
HasMetrics(e) == e.result # "raised"

ScoresFor(result) == IF result = "measured" THEN Scores ELSE {0}

\* A fit may order the trials of a log differently.
Refit(l) == {f \in [DOMAIN l -> Scores] : \A i \in DOMAIN l : f[i] \in ScoresFor(l[i].result)}

BOInit ==
    /\ phase = "bootstrap"
    /\ log = <<>> /\ told = <<>> /\ worth = <<>>
    /\ fitted = FALSE /\ samples = 0 /\ outs = 0
    /\ best = 0 /\ stale = 0
-----------------------------------------------------------------------------
\* _relabel_smac_history, for the trials of l that have metrics: the entry of
\* record.config, the configuration that ran.
Relabelled(t, l, w) ==
    [i \in DOMAIN t |->
        IF ~HasMetrics(l[i]) THEN t[i]
        ELSE [t[i] EXCEPT !.ran = w[i], !.asked = IF t[i].repaired THEN @ ELSE w[i]]]

\* Mutant: only the entries of the bootstrap phase, as at the calibration.
Rescored_PilotsOnly(l, w) ==
    [i \in DOMAIN l |->
        IF HasMetrics(l[i]) /\ i <= PilotSize THEN [l[i] EXCEPT !.score = w[i]] ELSE l[i]]

\* The entries of iteration_log are rescored along with it.
Rescored(l, w) ==
    [i \in DOMAIN l |-> IF HasMetrics(l[i]) THEN [l[i] EXCEPT !.score = w[i]] ELSE l[i]]

LogBest(l) == Max({0} \cup {l[i].score : i \in DOMAIN l})

\* A pilot is told once, with the configuration that ran.
BootstrapStep ==
    /\ phase = "bootstrap" /\ Len(log) < PilotSize
    /\ \E r \in Results : \E s \in ScoresFor(r) :
          /\ log' = Append(log, [result |-> r, score |-> s])
          /\ told' = Append(told, [asked |-> s, ran |-> s, repaired |-> FALSE])
          /\ worth' = Append(worth, s)
    /\ UNCHANGED <<phase, fitted, samples, outs, best, stale>>

Successful == {i \in DOMAIN log : HasMetrics(log[i])}

\* Fewer than MinMetrics pilots leave the fallback anchors; the scores are taken
\* again all the same, and the phase counts as calibrated.
CalibrateAndRelabel ==
    /\ phase = "bootstrap" /\ Len(log) = PilotSize
    /\ IF Successful = {}
       THEN phase' = "raised" /\ UNCHANGED <<log, told, worth, fitted, best>>
       ELSE /\ IF Cardinality(Successful) < MinMetrics
               THEN UNCHANGED <<worth, fitted>>
               ELSE worth' \in Refit(log) /\ fitted' = TRUE
            /\ log' = Rescored(log, worth')
            /\ told' = Relabelled(told, log, worth')
            /\ best' = LogBest(log')
            /\ phase' = IF PilotSize = Iterations THEN "done" ELSE "optimize"
    /\ samples' = 0 /\ outs' = 0 /\ stale' = 0
-----------------------------------------------------------------------------
\* normalizer.update: the first metrics of an uncalibrated normalizer are fitted
\* at once, and nobody is told.
FitsOnFirst(r) == r # "raised" /\ ~fitted

\* needs_recalibration after update has counted this sample: more than a fifth of
\* the samples since the fit were out of support.
Drifted(out) ==
    /\ samples + 1 >= MinSamples
    /\ (outs + IF out THEN 1 ELSE 0) * 5 > samples + 1

Expands(r, out) == r # "raised" /\ fitted /\ Drifted(out)

StaleAfter(s) == IF s > best THEN 0 ELSE stale + IF Patience > 0 THEN 1 ELSE 0

\* Early stopping and the budget, in should_stop.
PhaseAfter(s) ==
    IF (Patience > 0 /\ StaleAfter(s) >= Patience) \/ Len(log) + 1 >= Iterations
    THEN "done" ELSE "optimize"

\* The bookkeeping at the end of _optimize_step; score is that of this trial.
Finish(s) ==
    /\ best' = Max({best, s})
    /\ stale' = StaleAfter(s)
    /\ phase' = PhaseAfter(s)

\* expand_ranges_for_metrics returned FALSE, or there was nothing to expand for:
\* nobody is rescored.
Kept(r, out) ==
    /\ IF FitsOnFirst(r)
       THEN worth' \in Refit(log') /\ fitted' = TRUE /\ samples' = 0 /\ outs' = 0
       ELSE /\ worth' = Append(worth, Last(log').score)
            /\ samples' = IF r = "raised" THEN samples ELSE samples + 1
            /\ outs' = IF out THEN outs + 1 ELSE outs
            /\ UNCHANGED fitted

\* A trial is told under the configuration that ran, if the repair or the server
\* changed it, and under the one asked for; then the ranges may expand.
TellAndExpand(r, s, out, repaired) ==
    LET l == Append(log, [result |-> r, score |-> s])
        t == Append(told, [asked |-> s, ran |-> s, repaired |-> repaired])
    IN IF Expands(r, out)
       THEN \E w \in Refit(l) :
               /\ worth' = w /\ samples' = 0 /\ outs' = 0 /\ UNCHANGED fitted
               /\ log' = Rescored(l, w) /\ told' = Relabelled(t, l, w)
       ELSE log' = l /\ told' = t /\ Kept(r, out)

\* Failure metrics are zeros, out of support.
OptimizeStep ==
    /\ phase = "optimize"
    /\ \E r \in Results, out \in BOOLEAN, repaired \in BOOLEAN : \E s \in ScoresFor(r) :
          /\ r = "failed" => out
          /\ r = "raised" => ~out /\ ~repaired
          /\ TellAndExpand(r, s, out, repaired)
          /\ Finish(Last(log').score)

\* facade.ask() raises StopIteration.
AskIsExhausted ==
    /\ phase = "optimize" /\ phase' = "done"
    /\ UNCHANGED <<log, told, worth, fitted, samples, outs, best, stale>>

BONext == BootstrapStep \/ CalibrateAndRelabel \/ OptimizeStep \/ AskIsExhausted

BOSpec == BOInit /\ [][BONext]_boVars
-----------------------------------------------------------------------------
BOTypeOK ==
    /\ phase \in {"bootstrap", "optimize", "done", "raised"}
    /\ Len(log) \in 0 .. Iterations
    /\ \A i \in DOMAIN log : log[i].result \in Results /\ log[i].score \in ScoresFor(log[i].result)
    /\ DOMAIN told = DOMAIN log /\ \A i \in DOMAIN told : told[i].asked \in Scores /\ told[i].ran \in Scores
    /\ DOMAIN worth = DOMAIN log /\ \A i \in DOMAIN worth : worth[i] \in Scores
    /\ fitted \in BOOLEAN /\ samples \in 0 .. Iterations /\ outs \in 0 .. samples
    /\ best \in Scores /\ stale \in 0 .. Patience

WellCalibrated == Cardinality({i \in 1 .. PilotSize : HasMetrics(log[i])}) >= MinMetrics

\* With enough pilots, whatever happens later, the log and the costs of the
\* configurations that ran are scores on one ruler, the present one: what collect_best
\* returns is the best there is.  (_calibrate_and_relabel, _optimize_step)
ScoresAreCurrent ==
    phase \in {"optimize", "done"} /\ WellCalibrated =>
        \A i \in DOMAIN log : log[i].score = worth[i] /\ told[i].ran = worth[i]

\* "so the surrogate model retrains on a consistent landscape" (bo/tuner.py:743): also
\* the costs told under the configurations asked for.
LandscapeIsConsistent ==
    phase = "optimize" /\ WellCalibrated => \A i \in DOMAIN told : told[i].asked = worth[i]

\* "early stopping - no improvement for N consecutive iterations" (bo/tuner.py:517):
\* none of the last Patience trials is better than all before it.
StopsWhenStagnant ==
    phase = "done" /\ WellCalibrated /\ Patience > 0 /\ stale >= Patience =>
        LET n == Len(log) - Patience
        IN  \A i \in n + 1 .. Len(log) : \E j \in 1 .. n : worth[j] >= worth[i]
=============================================================================
