---------------------------- MODULE Population ----------------------------
(***************************************************************************)
(* Population-based training: the generations that                         *)
(* Population.train_generation runs in the main thread of the PBT tuner.   *)
(* A generation is a fixed order of phases: evaluate every worker, rescue  *)
(* dead ones, calibrate the normalizer, finalize the scores, compare with  *)
(* the best so far, record, exploit and explore; the tuner then writes the *)
(* generation to the session trace and asks whether to stop.               *)
(*                                                                         *)
(* A knob configuration is the number of configurations its worker has     *)
(* adopted: perturbing or resampling one gives a new one.  Scores are      *)
(* integers on a small scale; a rescore may change them arbitrarily, but   *)
(* a failed evaluation scores 0 on every ruler (the reliability gate).     *)
(***************************************************************************)
EXTENDS Integers, FiniteSets

CONSTANTS PopulationSize,   \* population_size
          CohortSize,         \* max(1, int(population_size * exploit_quantile))
          ReadyInterval,      \* ready_interval
          DeadThreshold,      \* dead_config_threshold
          MaxScore,           \* the scale of the scores, 100 in the source
          CrashScores,        \* dead_config_score and crash_score
          MinSamples,         \* healthy samples before calibration
          MaxGenerations,     \* num_generations
          Patience            \* early_stopping_patience

\* PBTConfig.__post_init__.
ASSUME ConfigAssumption ==
    /\ PopulationSize \in Nat /\ PopulationSize >= 2
    /\ CohortSize \in Nat \ {0}
    /\ CohortSize = 1 \/ 2 * CohortSize < PopulationSize
    /\ ReadyInterval \in Nat \ {0}
    /\ DeadThreshold \in Nat \ {0} /\ MaxScore \in Nat /\ DeadThreshold < MaxScore
    /\ CrashScores \subseteq 1..(DeadThreshold - 1)
    /\ MinSamples \in Nat \ {0}
    /\ MaxGenerations \in Nat \ {0}
    /\ Patience \in Nat \ {0}

VARIABLES phase,                \* where the main thread is in a generation
          current_generation,
          config,               \* config[w]: knob_config
          parent_id,            \* parent_id[w], 0 for None
          step_count,           \* step_count[w]
          metrics,              \* metrics[w], NoMetrics for None
          score,                \* performance_score[w]
          samples,              \* healthy measurements in performance_history
          calibrated,           \* _ranges_calibrated
          just_calibrated,      \* _just_calibrated
          best,                 \* best_overall_score, _metrics and _config
          strictly_improved,    \* last_generation_strictly_improved
          stagnation,           \* generations_without_improvement
          converged,            \* history[-1].converged
          pairs,                \* pairs[w]: the elite w exploited, 0 for none
          evaluations           \* evaluations[w] of config[w], a history variable

workerVars == <<config, parent_id, step_count, evaluations>>
measureVars == <<metrics, score, samples>>
rulerVars == <<calibrated, just_calibrated>>
bestVars == <<best, strictly_improved, stagnation>>
recordVars == <<converged, pairs>>
vars == <<phase, current_generation, workerVars, measureVars, rulerVars,
          bestVars, recordVars>>

Workers == 1..PopulationSize
Scores == 0..MaxScore
Metrics == [worker : 0..PopulationSize, config : Nat, failed : BOOLEAN]
NoMetrics == [worker |-> 0, config |-> 0, failed |-> FALSE]
Phases == {"evaluating", "rescuing", "calibrating", "finalizing", "comparing",
           "recording", "evolving", "reporting", "stopped", "failed"}

TypeOK ==
    /\ phase \in Phases
    /\ current_generation \in 0..MaxGenerations
    /\ config \in [Workers -> Nat]
    /\ parent_id \in [Workers -> 0..PopulationSize]
    /\ step_count \in [Workers -> Nat]
    /\ metrics \in [Workers -> Metrics]
    /\ score \in [Workers -> Scores]
    /\ samples \in Nat
    /\ calibrated \in BOOLEAN /\ just_calibrated \in BOOLEAN
    /\ best \in [score : Scores, metrics : Metrics, config : Nat]
    /\ strictly_improved \in BOOLEAN
    /\ stagnation \in Nat
    /\ converged \in BOOLEAN
    /\ pairs \in [Workers -> 0..PopulationSize]
    /\ evaluations \in [Workers -> Nat]

Init ==
    /\ phase = "evaluating"
    /\ current_generation = 0
    /\ config = [w \in Workers |-> 0]
    /\ parent_id = [w \in Workers |-> 0]
    /\ step_count = [w \in Workers |-> 0]
    /\ metrics = [w \in Workers |-> NoMetrics]
    /\ score = [w \in Workers |-> 0]
    /\ samples = 0
    /\ calibrated = FALSE /\ just_calibrated = FALSE
    /\ best = [score |-> 0, metrics |-> NoMetrics, config |-> 0]
    /\ strictly_improved = FALSE
    /\ stagnation = 0
    /\ converged = FALSE
    /\ pairs = [w \in Workers |-> 0]
    /\ evaluations = [w \in Workers |-> 0]
-----------------------------------------------------------------------------
Measured(w) == metrics[w] # NoMetrics
Failed(w) == Measured(w) /\ metrics[w].failed
Healthy(w) == Measured(w) /\ ~metrics[w].failed
Viable(w) == score[w] >= DeadThreshold
IsReady(w) == step_count[w] >= ReadyInterval

\* What evaluate_worker returns: a healthy measurement, one the reliability
\* gate tagged (score 0), or the fallback metrics of a failure.
Outcomes ==
    [failed : {FALSE}, score : Scores] \cup [failed : {TRUE}, score : CrashScores \cup {0}]

\* evaluate_generation: update_metrics for every worker whose future returned,
\* all of them unless one raised (S is what was collected until then).
Evaluate(S, outcome) ==
    /\ phase = "evaluating"
    /\ phase' = IF S = Workers THEN "rescuing" ELSE "failed"
    /\ metrics' = [w \in Workers |->
                     IF w \in S THEN [worker |-> w, config |-> config[w],
                                      failed |-> outcome[w].failed]
                     ELSE metrics[w]]
    /\ score' = [w \in Workers |-> IF w \in S THEN outcome[w].score ELSE score[w]]
    /\ step_count' = [w \in Workers |-> IF w \in S THEN step_count[w] + 1 ELSE step_count[w]]
    /\ evaluations' = [w \in Workers |->
                         IF w \in S THEN evaluations[w] + 1 ELSE evaluations[w]]
    /\ samples' = samples + Cardinality({w \in S : ~outcome[w].failed})
    /\ pairs' = [w \in Workers |-> 0]
    /\ UNCHANGED <<current_generation, config, parent_id, rulerVars, bestVars, converged>>
-----------------------------------------------------------------------------
(* rescue_dead_workers.                                                     *)

Dead == {w \in Workers : Failed(w) /\ ~Viable(w)}

Alive_AnyHealthy == {w \in Workers : Healthy(w)}
Alive == {w \in Workers : Healthy(w) /\ Viable(w)}

Resample_KeepingMetrics(D) ==
    /\ config' = [w \in Workers |-> IF w \in D THEN config[w] + 1 ELSE config[w]]
    /\ parent_id' = [w \in Workers |-> IF w \in D THEN 0 ELSE parent_id[w]]
    /\ evaluations' = [w \in Workers |-> IF w \in D THEN 0 ELSE evaluations[w]]
    /\ score' = [w \in Workers |-> IF w \in D THEN 0 ELSE score[w]]
    /\ UNCHANGED metrics

\* A fresh configuration that no metrics describe; step_count is left alone.
Resample(D) ==
    /\ config' = [w \in Workers |-> IF w \in D THEN config[w] + 1 ELSE config[w]]
    /\ parent_id' = [w \in Workers |-> IF w \in D THEN 0 ELSE parent_id[w]]
    /\ evaluations' = [w \in Workers |-> IF w \in D THEN 0 ELSE evaluations[w]]
    /\ score' = [w \in Workers |-> IF w \in D THEN 0 ELSE score[w]]
    /\ metrics' = [w \in Workers |-> IF w \in D THEN NoMetrics ELSE metrics[w]]

\* With an alive worker the dead ones are left to execute_exploit_explore.
RescueDeadWorkers ==
    /\ phase = "rescuing"
    /\ phase' = "calibrating"
    /\ IF Alive = {} THEN Resample(Dead)
       ELSE UNCHANGED <<config, parent_id, evaluations, score, metrics>>
    /\ UNCHANGED <<current_generation, step_count, samples, rulerVars, bestVars, recordVars>>
-----------------------------------------------------------------------------
(* update_metric_ranges_if_needed and _finalize_scores.                     *)

UpdateMetricRanges ==
    /\ phase = "calibrating"
    /\ phase' = "finalizing"
    /\ IF ~calibrated /\ samples >= MinSamples
       THEN calibrated' = TRUE /\ just_calibrated' = TRUE
       ELSE UNCHANGED rulerVars
    /\ UNCHANGED <<current_generation, workerVars, measureVars, bestVars, recordVars>>

Scored == {w \in Workers : Measured(w)}

\* "All workers have malformed metrics": nothing is compared.
NothingScored ==
    /\ phase = "finalizing"
    /\ Scored = {}
    /\ phase' = "recording"
    /\ UNCHANGED <<current_generation, workerVars, measureVars, rulerVars, bestVars, recordVars>>

KeepRuler_NoComparison ==
    /\ phase = "finalizing"
    /\ Scored # {}
    /\ ~just_calibrated
    /\ phase' = "recording"
    /\ UNCHANGED <<current_generation, workerVars, measureVars, rulerVars, bestVars, recordVars>>

\* Neither the ranges nor the weights changed: the scores stand.
KeepRuler ==
    /\ phase = "finalizing"
    /\ Scored # {}
    /\ ~just_calibrated
    /\ phase' = "comparing"
    /\ UNCHANGED <<current_generation, workerVars, measureVars, rulerVars, bestVars, recordVars>>

\* The ruler changed: the current workers and the historical best get the
\* scores "ruler" and "top" of the new one.
Rescore(ruler, top) ==
    /\ phase = "finalizing"
    /\ Scored # {}
    /\ calibrated
    /\ phase' = "comparing"
    /\ just_calibrated' = FALSE
    /\ score' = [w \in Workers |-> IF Healthy(w) THEN ruler[w]
                                   ELSE IF Failed(w) THEN 0 ELSE score[w]]
    /\ best' = [best EXCEPT !.score = IF best.metrics = NoMetrics THEN @
                                      ELSE IF best.metrics.failed THEN 0 ELSE top]
    /\ UNCHANGED <<current_generation, workerVars, metrics, samples, calibrated,
                   strictly_improved, stagnation, recordVars>>

\* max(scored_workers, key=performance_score): the first of the best.
BestCurrent(w) ==
    /\ w \in Scored
    /\ \A v \in Scored : score[v] < score[w] \/ (score[v] = score[w] /\ w <= v)

RecordBest(w) ==
    best' = IF score[w] >= best.score
            THEN [score |-> score[w], metrics |-> metrics[w], config |-> config[w]]
            ELSE best

DetermineOverallBest_TieImproves(w) ==
    /\ phase = "comparing"
    /\ BestCurrent(w)
    /\ phase' = "recording"
    /\ RecordBest(w)
    /\ strictly_improved' = (score[w] >= best.score)
    /\ stagnation' = IF score[w] >= best.score THEN 0 ELSE stagnation + 1
    /\ UNCHANGED <<current_generation, workerVars, measureVars, rulerVars, recordVars>>

\* _determine_overall_best: the record follows a tie, the counter does not.
DetermineOverallBest(w) ==
    /\ phase = "comparing"
    /\ BestCurrent(w)
    /\ phase' = "recording"
    /\ RecordBest(w)
    /\ strictly_improved' = (score[w] > best.score)
    /\ stagnation' = IF score[w] > best.score THEN 0 ELSE stagnation + 1
    /\ UNCHANGED <<current_generation, workerVars, measureVars, rulerVars, recordVars>>

\* record_generation.  Scores of the scale differ by more than the threshold
\* check_convergence puts on their deviation, so valid scores must agree.
Valid == {w \in Workers : Healthy(w) /\ Viable(w)}
RecordGeneration ==
    /\ phase = "recording"
    /\ phase' = "evolving"
    /\ converged' = (/\ calibrated
                     /\ Cardinality(Valid) >= 2
                     /\ \A v, w \in Valid : score[v] = score[w])
    /\ UNCHANGED <<current_generation, workerVars, measureVars, rulerVars, bestVars,
                   pairs>>
-----------------------------------------------------------------------------
(* truncation_selection: both sorts are stable, ties go to the lower index. *)

NonDead == {w \in Workers : Viable(w)}

Elites ==
    {w \in NonDead :
        Cardinality({v \in NonDead : score[v] > score[w] \/ (score[v] = score[w] /\ v < w)})
            < CohortSize}

BottomQuantile ==
    {w \in Workers :
        Cardinality({v \in Workers : score[v] < score[w] \/ (score[v] = score[w] /\ v < w)})
            < CohortSize}

Poor_EliteToo == {w \in Workers : ~Viable(w) \/ (IsReady(w) /\ w \in BottomQuantile)}
Poor_OnlyReady == {w \in Workers : IsReady(w) /\ (~Viable(w) \/ w \in BottomQuantile)} \ Elites
Poor == {w \in Workers : ~Viable(w) \/ (IsReady(w) /\ w \in BottomQuantile)} \ Elites

Adopt_StayReady(chosen) ==
    /\ config' = [w \in Workers |-> IF w \in DOMAIN chosen THEN config[w] + 1 ELSE config[w]]
    /\ parent_id' = [w \in Workers |-> IF w \in DOMAIN chosen THEN chosen[w] ELSE parent_id[w]]
    /\ evaluations' = [w \in Workers |-> IF w \in DOMAIN chosen THEN 0 ELSE evaluations[w]]
    /\ UNCHANGED step_count

\* clone_from and perturb of every poor worker.
Adopt(chosen) ==
    /\ config' = [w \in Workers |-> IF w \in DOMAIN chosen THEN config[w] + 1 ELSE config[w]]
    /\ parent_id' = [w \in Workers |-> IF w \in DOMAIN chosen THEN chosen[w] ELSE parent_id[w]]
    /\ evaluations' = [w \in Workers |-> IF w \in DOMAIN chosen THEN 0 ELSE evaluations[w]]
    /\ step_count' = [w \in Workers |-> IF w \in DOMAIN chosen THEN 0 ELSE step_count[w]]

\* The end of train_generation.
Evolve(chosen) ==
    /\ phase = "evolving"
    /\ phase' = "reporting"
    /\ Adopt(chosen)
    /\ pairs' = [w \in Workers |-> IF w \in DOMAIN chosen THEN chosen[w] ELSE 0]
    /\ current_generation' = current_generation + 1
    /\ UNCHANGED <<measureVars, rulerVars, bestVars, converged>>

\* rng.choice over the elites, for each poor worker; nobody without elites.
ExploitExplore ==
    IF NonDead = {} THEN Evolve([w \in {} |-> 0])
    ELSE \E chosen \in [Poor -> Elites] : Evolve(chosen)
-----------------------------------------------------------------------------
ShouldStop ==
    \/ current_generation >= MaxGenerations
    \/ stagnation >= Patience
    \/ converged

\* The round summary of BaseTuner.run and the head of its loop.
NextRound ==
    /\ phase = "reporting"
    /\ phase' = IF ShouldStop THEN "stopped" ELSE "evaluating"
    /\ UNCHANGED <<current_generation, workerVars, measureVars, rulerVars, bestVars, recordVars>>

Done == phase \in {"stopped", "failed"} /\ UNCHANGED vars

Next ==
    \/ \E S \in SUBSET Workers : \E outcome \in [S -> Outcomes] : Evaluate(S, outcome)
    \/ RescueDeadWorkers
    \/ UpdateMetricRanges
    \/ NothingScored
    \/ KeepRuler
    \/ \E ruler \in [{w \in Workers : Healthy(w)} -> Scores] :
           \E top \in Scores : Rescore(ruler, top)
    \/ \E w \in Workers : DetermineOverallBest(w)
    \/ RecordGeneration
    \/ ExploitExplore
    \/ NextRound
    \/ Done

Spec == Init /\ [][Next]_vars
-----------------------------------------------------------------------------
(* Properties.                                                              *)

\* Once a generation is recorded, no worker with metrics scores above the
\* overall best on the ruler both were last scored with, although the ruler
\* may have changed under the best of an earlier generation.
BestDominates ==
    phase \in {"recording", "evolving", "reporting", "stopped"} =>
        \A w \in Scored : score[w] <= best.score

\* The best configuration the session returns is the one its best metrics
\* were measured under, though workers change configuration in two places.
BestIsMeasured ==
    best.metrics # NoMetrics => best.config = best.metrics.config

\* A failed evaluation is reported as the overall best only when it scores 0,
\* which is all it ever scores once the normalizer is calibrated.
BestIsHealthy == best.metrics.failed => best.score = 0

\* What the session announces and returns as its best is the best of what it
\* measured, with the metrics and the score that belong to it.
BestIsSound == BestDominates /\ BestIsMeasured /\ BestIsHealthy

\* The elites copied from are healthy workers whose own measured configuration
\* is still theirs: no clone of a clone, no copy of a crash or of a resample.
DonorsMeasured ==
    phase = "reporting" =>
        \A w \in Workers : pairs[w] # 0 =>
            /\ Healthy(pairs[w])
            /\ Viable(pairs[w])
            /\ metrics[pairs[w]].config = config[pairs[w]]

\* A configuration whose evaluation failed is not evaluated again, unless the
\* rescore of its generation left no worker to clone.
CrashNotRepeated ==
    phase = "reporting" =>
        \A w \in Workers : Failed(w) /\ metrics[w].config = config[w] =>
            NonDead = {}

\* A generation evolves from what it has measured: copies come from measured
\* donors, and what crashed is replaced.  (execute_exploit_explore, rescue_dead_workers)
EvolutionIsSound == DonorsMeasured /\ CrashNotRepeated

\* The stagnation counter goes back only for a score above the best, both on
\* the same ruler: a tie does not hide that the population is stuck.
OnlyProgressResets ==
    [][stagnation' < stagnation => best'.score > best.score]_vars

\* A viable worker that exploited before exploits again only after
\* ready_interval evaluations of the configuration it adopted then.
Exploits(w) == phase = "evolving" /\ phase' = "reporting" /\ pairs'[w] # 0
CooldownServed ==
    [][\A w \in Workers :
          Exploits(w) /\ Viable(w) /\ parent_id[w] # 0
              => evaluations[w] >= ReadyInterval]_vars
-----------------------------------------------------------------------------
(* What the documentation says and the code does not do.                    *)

\* "step_count: evaluations completed since this worker last adopted a
\* configuration" (PBTWorker): so a viable worker exploits only when its
\* present configuration has been evaluated ready_interval times.
ReadinessMeasuresConfig ==
    phase = "evolving" =>
        \A w \in Poor : Viable(w) => evaluations[w] >= ReadyInterval

\* "Whether the most recent generation produced a STRICT, same-ruler
\* improvement of the overall best": then its best metrics are current ones.
AnnouncedBestIsNew ==
    phase = "reporting" /\ strictly_improved =>
        \E w \in Workers : metrics[w] = best.metrics

\* PBTTuner.step builds worker_results when train_generation has returned.
RecordedConfig(w) == config[w]

\* worker_configs[].config "is the configuration the worker evaluated that
\* round": the one its metrics of the record were measured under.
TraceConfigWasEvaluated ==
    phase = "reporting" =>
        \A w \in Workers : Measured(w) => RecordedConfig(w) = metrics[w].config
=============================================================================
