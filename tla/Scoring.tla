------------------------------ MODULE Scoring ------------------------------
(***************************************************************************)
(* The ruler of a PBT session: the features of the workload, refined after *)
(* every generation (WorkloadFeatureRefiner), the weights the scorer       *)
(* derives from them (CompositeScorer), and the anchors of the normalizer, *)
(* composed as Population._finalize_scores composes them.  A ruler is a    *)
(* scorer's context with the anchors its normalizer has.                   *)
(*                                                                         *)
(* Features are in thousandths: the two that are refined, and the share of *)
(* writes; the other features never change in a session.  A weight is the  *)
(* logit its softmax is taken of.  The scores themselves are in Population.*)
(***************************************************************************)
EXTENDS Normalizer, FiniteSets

CONSTANTS Workers,
          Workloads,      \* what the session may tune for
          Policies,       \* subset of {"fixed_v1", "feature_driven_v2"}
          Observations,   \* aggregated metrics: [cv: thousandths, amp: p99 over p50]
          MinCalibration, \* healthy samples before update_ranges
          LogEvery        \* log_every

ASSUME ScoringAssumption ==
    /\ IsFiniteSet(Workers) /\ MinCalibration \in Nat \ {0} /\ MaxRounds \in Nat

VARIABLES phase,           \* where train_generation is
          workload, policy,
          features,        \* metric_config.workload_features
          priors,          \* _static_feature_priors
          pending,         \* _pending_feature_deltas is not empty
          engine,          \* _scoring_engine
          outcome,         \* per worker: its metrics, as far as they matter here
          ruler,           \* per worker: what its performance_score was computed with
          best,            \* what best_overall_score was computed with
          observed,        \* healthy samples in the performance histories
          just_calibrated, \* _just_calibrated
          shown            \* history variable: the weights of the last table

normalizer == <<anchors, history, samples, outs, calibrated, answer>>
session == <<higher, workload, policy>>
refiner == <<features, priors, pending>>
scores == <<outcome, ruler, best>>
scoringVars == <<session, normalizer, rounds, phase, refiner, engine, scores, observed,
                 just_calibrated, shown>>
-----------------------------------------------------------------------------
(* The static features.                                                    *)

NoFeatures == [write |-> 0, tail |-> 0, concurrency |-> 0]

\* The share of the queries, by weight, that have the token.
Share(queries, token) ==
    LET weight(S) == FoldSet(LAMBDA i, n : n + queries[i].weight, 0, S)
    IN  (1000 * weight({i \in DOMAIN queries : token \in queries[i].tokens}))
            \div weight(DOMAIN queries)

\* _analyze_queries
Structure(queries) ==
    IF queries = <<>> THEN [write |-> 500, tail |-> 500]
    ELSE [write |-> Min({1000, Share(queries, "update") + Share(queries, "insert")
                                  + Share(queries, "delete")}),
          tail  |-> Min({1000, 450 + Share(queries, "join") \div 4
                                   + Share(queries, "order_by") \div 5
                                   + Share(queries, "having") \div 10})]

Concurrency(threads) == Min({1000, (1000 * Max({1, threads})) \div 16})

SysbenchWrites(script) ==
    CASE script = "oltp_read_only" -> 0 [] script = "oltp_write_only" -> 900 [] OTHER -> 250

\* WorkloadFeatureExtractor: TPC-H is one stream, whatever its threads.
StaticFeatures(w) ==
    CASE w.kind = "sysbench" -> [write |-> SysbenchWrites(w.script), tail |-> 550,
                                 concurrency |-> Concurrency(w.threads)]
      [] w.kind = "tpch"     -> [concurrency |-> 120] @@ Structure(w.queries)
      [] w.kind = "template" -> [concurrency |-> Concurrency(w.threads)] @@ Structure(w.queries)
-----------------------------------------------------------------------------
(* The scorer.                                                             *)

\* FIXED_V1, in percent; the configuration of the session overrides it.
FixedWeights == [latency |-> 50, throughput |-> 30, memory_utilization |-> 5, error_rate |-> 15]

\* V2_BASE_WEIGHTS, in tenths.
V2BaseWeights ==
    [latency_p95 |-> 12, latency_p99 |-> 10, latency_variance |-> 0, tail_amplification |-> -5,
     throughput |-> 12, throughput_variance |-> 0, error_rate |-> 3, memory_pressure |-> -3,
     scan_efficiency |-> -10, buffer_miss_rate |-> -3]

\* V2_COEFFICIENTS, in tenths, of the features kept here.
Coefficients(write, tail, concurrency) ==
    [write |-> write, tail |-> tail, concurrency |-> concurrency]
V2Coefficients ==
    [latency_p95 |-> Coefficients(8, 0, 6), latency_p99 |-> Coefficients(4, 12, 3),
     latency_variance |-> Coefficients(8, 4, 0), tail_amplification |-> Coefficients(0, 10, 0),
     throughput |-> Coefficients(-2, 0, -2), throughput_variance |-> Coefficients(5, 0, 3),
     error_rate |-> Coefficients(0, 0, 3), memory_pressure |-> Coefficients(0, 0, 5),
     scan_efficiency |-> Coefficients(0, 0, 0), buffer_miss_rate |-> Coefficients(0, 0, 0)]

\* compute_weights, before its softmax, which is strictly monotone in each logit.
Logit(metric, f) ==
    FoldSet(LAMBDA name, n : n + V2Coefficients[metric][name] * f[name],
            1000 * V2BaseWeights[metric], DOMAIN f)

\* _make_context_key; the workload type and the overrides are the session's.
Context(f) == [policy |-> policy, features |-> f]

\* _resolve_weights: "single-threaded" workloads have no throughput_variance.
Weights(context) ==
    LET f       == context.features
        dropped == IF f.concurrency < 150 THEN {"throughput_variance"} ELSE {}
    IN  IF context.policy = "fixed_v1" THEN FixedWeights
        ELSE [m \in DOMAIN V2BaseWeights \ dropped |-> Logit(m, f)]

Unlogged == [m \in {} |-> 0]

\* create_scoring_engine: the metric configuration has no normalizer before update_ranges,
\* and the scorer then has one of its own, which nobody fits.
CreateScoringEngine(f) ==
    [context |-> Context(f), shared |-> calibrated, logged |-> Unlogged, logNext |-> TRUE]

Ruler(e) == [context |-> e.context, anchors |-> IF e.shared THEN anchors ELSE <<0, 0>>]
NoRuler == [context |-> [policy |-> "none", features |-> NoFeatures], anchors |-> <<0, 0>>]

\* update_context; the log is scheduled after an update, and after a forced one that
\* changed nothing.
UpdateContext(e, force) ==
    IF Context(features) # e.context THEN [e EXCEPT !.context = Context(features), !.logNext = TRUE]
    ELSE [e EXCEPT !.logNext = @ \/ force]

\* Mutant: a rebuilt scorer does not know what was logged.
AdoptLoggingState_Fresh(e, previous) == e

AdoptLoggingState(e, previous) ==
    [e EXCEPT !.logged = previous.logged, !.logNext = previous.logNext]
-----------------------------------------------------------------------------
(* The refinement of the features.                                         *)

CvSignal(cv) == Min({1000, 5 * cv})
TailSignal(amp) == Min({1000, 100 * amp})

\* EMA with alpha 0.7, bounded below by 15 % of the static prior.
Blend(old, signal, prior) ==
    Max({(15 * prior) \div 100, Min({1000, (7 * old + 3 * signal) \div 10})})

Refined(obs, prior) ==
    [features EXCEPT !.concurrency = Blend(@, CvSignal(obs.cv), prior.concurrency),
                     !.tail        = Blend(@, TailSignal(obs.amp), prior.tail)]

Healthy(o) == {w \in Workers : o[w] \in {"weak", "viable"}}
Measured == {w \in Workers : outcome[w] # "none"}
Viable == {w \in Workers : outcome[w] = "viable"}

\* refine_from_generation: once, from the mean of the healthy workers.
RefineFromGeneration(o) ==
    \/ Healthy(o) = {} /\ UNCHANGED refiner
    \/ /\ Healthy(o) # {}
       /\ priors' = IF priors = NoFeatures THEN features ELSE priors
       /\ \E obs \in Observations : features' = Refined(obs, priors')
       /\ pending' = TRUE
-----------------------------------------------------------------------------
ScoringInit ==
    /\ Init
    /\ phase = "start" /\ workload \in Workloads /\ policy \in Policies
    /\ features = StaticFeatures(workload) /\ priors = NoFeatures /\ pending = FALSE
    /\ engine = CreateScoringEngine(features)
    /\ outcome = [w \in Workers |-> "none"] /\ ruler = [w \in Workers |-> NoRuler]
    /\ best = NoRuler /\ observed = 0 /\ just_calibrated = FALSE
    /\ shown = Unlogged

\* log_generation_weights, at the head of every round.
LogGenerationWeights ==
    /\ phase = "start" /\ phase' = "evaluate"
    /\ IF rounds = 0 \/ engine.logNext
       THEN /\ shown' = Weights(engine.context)
            /\ engine' = [engine EXCEPT !.logged = Weights(engine.context), !.logNext = FALSE]
       ELSE UNCHANGED <<shown, engine>>
    /\ UNCHANGED <<session, normalizer, rounds, refiner, scores, observed, just_calibrated>>

\* evaluate_generation: every worker is scored, healthy or not; the features move after
\* the last score.
EvaluateGeneration ==
    /\ phase = "evaluate" /\ phase' = "rescue"
    /\ \E o \in [Workers -> {"failed", "weak", "viable"}] :
          /\ outcome' = o
          /\ ruler' = [w \in Workers |-> IF w \in Healthy(o) THEN Ruler(engine) ELSE NoRuler]
          /\ observed' = Min({MinCalibration, observed + Cardinality(Healthy(o))})
          /\ RefineFromGeneration(o)
    /\ UNCHANGED <<session, normalizer, rounds, engine, best, just_calibrated, shown>>

\* rescue_dead_workers, when nobody is alive: the metrics of the failed are dropped.
RescueDeadWorkers ==
    /\ phase = "rescue" /\ phase' = "calibrate"
    /\ outcome' = [w \in Workers |-> IF Viable = {} /\ outcome[w] = "failed" THEN "none"
                                     ELSE outcome[w]]
    /\ UNCHANGED <<session, normalizer, rounds, refiner, engine, ruler, best, observed,
                   just_calibrated, shown>>

\* update_metric_ranges_if_needed
UpdateMetricRanges ==
    /\ phase = "calibrate" /\ phase' = "finalize"
    /\ IF ~calibrated /\ observed = MinCalibration
       THEN UpdateRanges /\ just_calibrated' = TRUE
       ELSE UNCHANGED <<higher, normalizer, rounds, just_calibrated>>
    /\ UNCHANGED <<workload, policy, refiner, engine, scores, observed, shown>>
-----------------------------------------------------------------------------
(* _finalize_scores.                                                       *)

\* "All workers have malformed metrics": nothing is looked at.
NothingScored ==
    /\ phase = "finalize" /\ Measured = {} /\ phase' = "evolve"
    /\ UNCHANGED <<session, normalizer, rounds, refiner, engine, scores, observed,
                   just_calibrated, shown>>

NotCalibrated ==
    /\ phase = "finalize" /\ Measured # {} /\ ~calibrated /\ phase' = "compare"
    /\ UNCHANGED <<session, normalizer, rounds, refiner, engine, scores, observed,
                   just_calibrated, shown>>

\* expand_ranges_for_metrics on the metrics of the viable workers, if any.
ExpandForViable ==
    \/ Viable = {} /\ answer' = "kept" /\ UNCHANGED <<anchors, history, samples, outs, calibrated>>
    \/ \E s \in Generations : Len(s) = Cardinality(Viable) /\ ExpandRanges(s)

\* maybe_update_weights
ShouldUpdate(force) == force \/ (pending /\ (rounds + 1) % LogEvery = 0)

\* Mutant: only the first calibration forces an update of the weights.
Forced_Calibration(expanded) == just_calibrated

Forced(expanded) == expanded \/ just_calibrated

\* Mutant: new weights alone are no reason to rescore.
RescoreNeeded_Ranges(expanded, updated) == expanded \/ just_calibrated

RescoreNeeded(expanded, updated) == expanded \/ updated \/ just_calibrated

FinalizeScores ==
    /\ phase = "finalize" /\ Measured # {} /\ calibrated
    /\ ExpandForViable
    /\ LET expanded == answer' # "kept"
           force    == Forced(expanded)
           updated  == ShouldUpdate(force) /\ Context(features) # engine.context
       IN  /\ phase' = IF RescoreNeeded(expanded, updated) THEN "reload" ELSE "compare"
           /\ engine' = IF ShouldUpdate(force) THEN UpdateContext(engine, force) ELSE engine
           /\ pending' = (pending /\ ~ShouldUpdate(force))
    /\ just_calibrated' = FALSE
    /\ UNCHANGED <<session, rounds, features, priors, scores, observed, shown>>

\* reload_scoring_engine
ReloadScoringEngine ==
    /\ phase = "reload" /\ phase' = "rescore"
    /\ engine' = AdoptLoggingState(CreateScoringEngine(features), engine)
    /\ UNCHANGED <<session, normalizer, rounds, refiner, scores, observed, just_calibrated,
                   shown>>

\* The workers with metrics, and the historical best.
Rescore ==
    /\ phase = "rescore" /\ phase' = "compare"
    /\ ruler' = [w \in Workers |-> IF w \in Healthy(outcome) THEN Ruler(engine) ELSE NoRuler]
    /\ best' = IF best = NoRuler THEN best ELSE Ruler(engine)
    /\ UNCHANGED <<session, normalizer, rounds, refiner, engine, outcome, observed,
                   just_calibrated, shown>>

\* _determine_overall_best
DetermineOverallBest ==
    /\ phase = "compare" /\ phase' = "evolve"
    /\ best' \in {best} \cup {ruler[w] : w \in Healthy(outcome)}
    /\ UNCHANGED <<session, normalizer, rounds, refiner, engine, outcome, ruler, observed,
                   just_calibrated, shown>>

NextRound ==
    /\ phase = "evolve" /\ rounds < MaxRounds /\ phase' = "start" /\ rounds' = rounds + 1
    /\ UNCHANGED <<session, normalizer, refiner, engine, scores, observed, just_calibrated,
                   shown>>

ScoringNext ==
    \/ LogGenerationWeights \/ EvaluateGeneration \/ RescueDeadWorkers \/ UpdateMetricRanges
    \/ NothingScored \/ NotCalibrated \/ FinalizeScores
    \/ ReloadScoringEngine \/ Rescore \/ DetermineOverallBest \/ NextRound

ScoringSpec == ScoringInit /\ [][ScoringNext]_scoringVars
-----------------------------------------------------------------------------
(* Properties.                                                             *)

\* When scores are compared - with the historical best, and with each other by exploit -
\* they are all on the ruler of the scorer in use, though the features move in every
\* generation, the weights in some, the anchors when they are saturated or drift, and
\* the scorer reads the anchors of a normalizer it shares.
OneRuler ==
    phase \in {"compare", "evolve"} =>
        /\ \A w \in Healthy(outcome) : ruler[w] = Ruler(engine)
        /\ best \in {NoRuler, Ruler(engine)}

\* "A rebuild driven by range recalibration does not change the weight vector"
\* (scorer.py:208): the scorer is built from features that have moved since its
\* predecessor was, and yet has its weights.
ReloadKeepsWeights ==
    [][phase = "reload" => Weights(engine'.context) = Weights(engine.context)]_scoringVars

\* Whoever reads the weight tables knows the weights: a round is evaluated with the
\* weights of the last table, and the next table's deltas are against that one.
TablesAreHonest ==
    /\ phase = "evaluate" => shown = Weights(engine.context)
    /\ phase = "start" /\ rounds > 0 => engine.logged = shown
-----------------------------------------------------------------------------
(* A statement TLC refutes.                                                *)

\* "Detect single-threaded workloads and remove throughput_variance" (scorer.py:300): a
\* steady workload of eight threads loses it as its feature decays.
ThreadsKeepVariance ==
    policy = "feature_driven_v2" /\ workload.threads > 2 =>
        "throughput_variance" \in DOMAIN Weights(engine.context)
=============================================================================
