---------------------------- MODULE Scoring_proof ----------------------------
(***************************************************************************)
(* Proofs about the two ends of a measurement: Scoring, for every set of   *)
(* workers, readings, observations and workloads, and whatever the anchors *)
(* and the features become; Benchmarks, for every set of profiles and      *)
(* tables, and any number of queries, threads, sessions and failures.      *)
(*                                                                         *)
(* CalibInv says when the normalizer is fitted and who is there to be      *)
(* scored then; RulerInv follows the ruler through a generation: from the  *)
(* evaluation to the calibration all scores are on that of the scorer, a   *)
(* calibration breaks this and sets just_calibrated, which makes           *)
(* _finalize_scores rescore.                                               *)
(*                                                                         *)
(* WorkInv keeps what an evaluation did (tally) beside what its driver     *)
(* counts: the loops of TPC-H, the threads and the queue of the template   *)
(* driver.  DataInv follows the data through a prepare that may be killed  *)
(* anywhere: the files of a marked scale factor are whole, and a stamp is  *)
(* true of every table.                                                    *)
(***************************************************************************)
EXTENDS Scoring, Benchmarks, FiniteSetTheorems, TLAPS

EngineShape ==
    engine = [context |-> engine.context, shared |-> engine.shared,
              logged |-> engine.logged, logNext |-> engine.logNext]

ShapeInv == EngineShape /\ engine.logNext \in BOOLEAN /\ rounds \in Nat

\* Before the fit there are too few samples, except in the round that brings the last.
CalibInv ==
    /\ observed \in 0 .. MinCalibration
    /\ just_calibrated \in BOOLEAN /\ (just_calibrated => calibrated)
    /\ (~calibrated /\ observed = MinCalibration) =>
           phase \in {"rescue", "calibrate"} /\ Healthy(outcome) # {}
    /\ just_calibrated => phase = "finalize" /\ Healthy(outcome) # {}

OnRuler(r) ==
    /\ \A w \in Healthy(outcome) : ruler[w] = r
    /\ best \in {NoRuler, r}

RulerInv ==
    /\ phase \in {"start", "evaluate"} => best \in {NoRuler, Ruler(engine)}
    /\ phase \in {"rescue", "calibrate", "compare", "evolve"} => OnRuler(Ruler(engine))
    /\ phase = "finalize" => just_calibrated \/ OnRuler(Ruler(engine))

ReloadInv == phase = "reload" => engine.context = Context(features)

LogInv ==
    (phase # "start" \/ rounds > 0) =>
        /\ engine.logged = shown
        /\ engine.logNext \/ shown = Weights(engine.context)

EvaluateLogInv == phase = "evaluate" => shown = Weights(engine.context)
-----------------------------------------------------------------------------
(* The scorer.                                                              *)

LEMMA MinOfTwo ==
  ASSUME NEW a \in Int, NEW b \in Int
  PROVE  Min({a, b}) = IF a <= b THEN a ELSE b
<1> DEFINE m == IF a <= b THEN a ELSE b
<1>1. m \in {a, b} /\ \A y \in {a, b} : m <= y
  OBVIOUS
<1>2. \A x \in {a, b} : (\A y \in {a, b} : x <= y) => x = m
  OBVIOUS
<1>3. Min({a, b}) = CHOOSE x \in {a, b} : \A y \in {a, b} : x <= y
  BY DEF Min
<1> HIDE DEF m
<1>4. (CHOOSE x \in {a, b} : \A y \in {a, b} : x <= y) = m
  BY <1>1, <1>2
<1> QED BY <1>3, <1>4 DEF m

\* update_context leaves a scorer of the current features, or the scorer it was given.
LEMMA UpdatedEngine ==
  ASSUME ShapeInv, NEW force \in BOOLEAN, engine' = UpdateContext(engine, force)
  PROVE  /\ EngineShape' /\ engine'.logNext \in BOOLEAN
         /\ engine'.context = Context(features)
         /\ engine'.shared = engine.shared /\ engine'.logged = engine.logged
         /\ engine'.logNext \/ (engine'.context = engine.context /\ engine'.logNext = engine.logNext)
<1>1. CASE Context(features) # engine.context
  <2>1. engine' = [engine EXCEPT !.context = Context(features), !.logNext = TRUE]
    BY <1>1 DEF UpdateContext
  <2>2. engine' = [context |-> Context(features), shared |-> engine.shared,
                   logged |-> engine.logged, logNext |-> TRUE]
    BY <2>1 DEF ShapeInv, EngineShape
  <2> QED BY <2>2 DEF EngineShape
<1>2. CASE Context(features) = engine.context
  <2>1. engine' = [engine EXCEPT !.logNext = @ \/ force]
    BY <1>2 DEF UpdateContext
  <2>2. engine' = [context |-> engine.context, shared |-> engine.shared,
                   logged |-> engine.logged, logNext |-> engine.logNext \/ force]
    BY <2>1 DEF ShapeInv, EngineShape
  <2>3. (engine.logNext \/ force) \in BOOLEAN
    OBVIOUS
  <2> QED BY <1>2, <2>2, <2>3 DEF EngineShape, ShapeInv
<1> QED BY <1>1, <1>2

LEMMA LoggedEngine ==
  ASSUME ShapeInv, NEW weights,
         engine' = [engine EXCEPT !.logged = weights, !.logNext = FALSE]
  PROVE  /\ EngineShape' /\ engine'.logNext = FALSE /\ engine'.logged = weights
         /\ engine'.context = engine.context /\ engine'.shared = engine.shared
<1>1. engine' = [context |-> engine.context, shared |-> engine.shared,
                 logged |-> weights, logNext |-> FALSE]
  BY DEF ShapeInv, EngineShape
<1> QED BY <1>1 DEF EngineShape

\* A rebuilt scorer is of the current features, and goes on with its predecessor's log.
LEMMA ReloadedEngine ==
  ASSUME ShapeInv, ReloadScoringEngine
  PROVE  /\ EngineShape' /\ engine'.context = Context(features)
         /\ engine'.logged = engine.logged /\ engine'.logNext = engine.logNext
<1>1. engine' = [context |-> Context(features), shared |-> calibrated,
                 logged |-> engine.logged, logNext |-> engine.logNext]
  BY DEF ReloadScoringEngine, AdoptLoggingState, CreateScoringEngine
<1> QED BY <1>1 DEF EngineShape

\* What _finalize_scores leaves when nothing is rescored, and when something is.
LEMMA FinalizedEngine ==
  ASSUME ShapeInv, CalibInv, FinalizeScores
  PROVE  /\ EngineShape' /\ engine'.logNext \in BOOLEAN
         /\ engine'.shared = engine.shared /\ engine'.logged = engine.logged
         /\ engine'.logNext \/ (engine'.context = engine.context /\ engine'.logNext = engine.logNext)
         /\ phase' = "reload" => engine'.context = Context(features)
         /\ phase' = "compare" => /\ ~just_calibrated /\ answer' = "kept"
                                  /\ engine'.context = engine.context
         /\ phase' \in {"reload", "compare"}
<1> DEFINE expanded == answer' # "kept"
           force    == Forced(expanded)
           updated  == ShouldUpdate(force) /\ Context(features) # engine.context
<1>1. /\ phase' = IF RescoreNeeded(expanded, updated) THEN "reload" ELSE "compare"
      /\ engine' = IF ShouldUpdate(force) THEN UpdateContext(engine, force) ELSE engine
  BY DEF FinalizeScores
<1>2. force \in BOOLEAN /\ (force <=> expanded \/ just_calibrated)
  BY DEF Forced, CalibInv
<1>3. force => ShouldUpdate(force)
  BY DEF ShouldUpdate
<1>4. RescoreNeeded(expanded, updated) <=> expanded \/ updated \/ just_calibrated
  BY DEF RescoreNeeded
<1> HIDE DEF expanded, force
<1>5. CASE ShouldUpdate(force)
  <2>1. engine' = UpdateContext(engine, force)
    BY <1>1, <1>5
  <2>2. /\ EngineShape' /\ engine'.logNext \in BOOLEAN
        /\ engine'.context = Context(features)
        /\ engine'.shared = engine.shared /\ engine'.logged = engine.logged
        /\ engine'.logNext \/ (engine'.context = engine.context /\ engine'.logNext = engine.logNext)
    BY <1>2, <2>1, UpdatedEngine
  <2> QED BY <1>1, <1>4, <1>5, <2>2 DEF expanded
<1>6. CASE ~ShouldUpdate(force)
  <2>1. engine' = engine /\ ~force
    BY <1>1, <1>3, <1>6
  <2> QED BY <1>1, <1>2, <1>4, <1>6, <2>1 DEF expanded, ShapeInv, EngineShape
<1> QED BY <1>5, <1>6
-----------------------------------------------------------------------------
(* Shapes.                                                                  *)

LEMMA InitShape == ScoringInit => ShapeInv /\ ReloadInv /\ LogInv /\ EvaluateLogInv
<1> SUFFICES ASSUME ScoringInit PROVE ShapeInv /\ ReloadInv /\ LogInv /\ EvaluateLogInv
  OBVIOUS
<1>1. engine = [context |-> Context(features), shared |-> calibrated,
                logged |-> Unlogged, logNext |-> TRUE]
  BY DEF ScoringInit, CreateScoringEngine
<1>2. rounds = 0 /\ phase = "start"
  BY DEF ScoringInit, Init
<1>3. EngineShape /\ engine.logNext = TRUE
  BY <1>1 DEF EngineShape
<1>4. ShapeInv
  BY <1>2, <1>3 DEF ShapeInv
<1>5. ReloadInv /\ LogInv /\ EvaluateLogInv
  BY <1>2 DEF ReloadInv, LogInv, EvaluateLogInv
<1> QED BY <1>4, <1>5

\* Actions that leave the scorer, its log and the number of rounds alone.
Quiet == UNCHANGED <<engine, shown, rounds>>

LEMMA QuietSteps ==
  ASSUME EvaluateGeneration \/ RescueDeadWorkers \/ UpdateMetricRanges \/ NothingScored
         \/ NotCalibrated \/ Rescore \/ DetermineOverallBest \/ UNCHANGED scoringVars
  PROVE  Quiet /\ UNCHANGED policy
<1>1. CASE UpdateMetricRanges
  <2>1. rounds' = rounds
    BY <1>1 DEF UpdateMetricRanges, UpdateRanges
  <2> QED BY <1>1, <2>1 DEF UpdateMetricRanges, Quiet
<1> QED
  BY <1>1 DEF EvaluateGeneration, RescueDeadWorkers, NothingScored, NotCalibrated,
              Rescore, DetermineOverallBest, scoringVars, Quiet, session

LEMMA NextShapeInv == ShapeInv /\ CalibInv /\ [ScoringNext]_scoringVars => ShapeInv'
<1> SUFFICES ASSUME ShapeInv, CalibInv, [ScoringNext]_scoringVars PROVE ShapeInv'
  OBVIOUS
<1>1. CASE Quiet
  BY <1>1 DEF Quiet, ShapeInv, EngineShape
<1>2. CASE LogGenerationWeights
  <2>1. CASE engine' = engine
    BY <1>2, <2>1 DEF LogGenerationWeights, ShapeInv, EngineShape
  <2>2. CASE engine' = [engine EXCEPT !.logged = Weights(engine.context), !.logNext = FALSE]
    BY <1>2, <2>2, LoggedEngine DEF LogGenerationWeights, ShapeInv
  <2> QED BY <1>2, <2>1, <2>2 DEF LogGenerationWeights
<1>3. CASE FinalizeScores
  BY <1>3, FinalizedEngine DEF FinalizeScores, ShapeInv
<1>4. CASE ReloadScoringEngine
  BY <1>4, ReloadedEngine DEF ReloadScoringEngine, ShapeInv
<1>5. CASE NextRound
  BY <1>5 DEF NextRound, ShapeInv, EngineShape
<1> QED BY <1>1, <1>2, <1>3, <1>4, <1>5, QuietSteps DEF ScoringNext
-----------------------------------------------------------------------------
(* The calibration.                                                         *)

LEMMA InitCalibInv == ScoringInit => CalibInv
<1> SUFFICES ASSUME ScoringInit PROVE CalibInv
  OBVIOUS
<1>1. observed = 0 /\ just_calibrated = FALSE
  BY DEF ScoringInit
<1>2. observed \in 0 .. MinCalibration /\ observed # MinCalibration
  BY <1>1, ScoringAssumption
<1>3. ~just_calibrated /\ just_calibrated \in BOOLEAN
  BY <1>1
<1> QED BY <1>2, <1>3 DEF CalibInv

LEMMA NewSamples ==
  ASSUME CalibInv, NEW o \in [Workers -> {"failed", "weak", "viable"}],
         observed' = Min({MinCalibration, observed + Cardinality(Healthy(o))})
  PROVE  /\ observed' \in 0 .. MinCalibration
         /\ (observed # MinCalibration /\ Healthy(o) = {}) => observed' # MinCalibration
<1>1. IsFiniteSet(Healthy(o))
  BY ScoringAssumption, FS_Subset DEF Healthy
<1>2. Cardinality(Healthy(o)) \in Nat
  BY <1>1, FS_CardinalityType
<1>3. Healthy(o) = {} => Cardinality(Healthy(o)) = 0
  BY FS_EmptySet
<1>4. observed \in 0 .. MinCalibration /\ MinCalibration \in Nat
  BY ScoringAssumption DEF CalibInv
<1>5. observed' = IF MinCalibration <= observed + Cardinality(Healthy(o))
                  THEN MinCalibration ELSE observed + Cardinality(Healthy(o))
  BY <1>2, <1>4, MinOfTwo
<1> QED BY <1>2, <1>3, <1>4, <1>5

\* Once fitted, the normalizer stays fitted.
LEMMA FitIsKept ==
  ASSUME NEW s, ExpandRanges(s)
  PROVE  calibrated' = calibrated \/ calibrated' = TRUE
  BY DEF ExpandRanges, Fit

LEMMA NextCalibInv == CalibInv /\ [ScoringNext]_scoringVars => CalibInv'
<1> SUFFICES ASSUME CalibInv, [ScoringNext]_scoringVars PROVE CalibInv'
  OBVIOUS
<1> USE DEF CalibInv
<1>1. CASE \/ LogGenerationWeights \/ NothingScored \/ NotCalibrated \/ ReloadScoringEngine
           \/ Rescore \/ DetermineOverallBest \/ NextRound \/ UNCHANGED scoringVars
  BY <1>1 DEF LogGenerationWeights, NothingScored, NotCalibrated, ReloadScoringEngine,
              Rescore, DetermineOverallBest, NextRound, scoringVars, normalizer, scores,
              Healthy, Measured
<1>2. CASE EvaluateGeneration
  <2>1. PICK o \in [Workers -> {"failed", "weak", "viable"}] :
           /\ outcome' = o
           /\ observed' = Min({MinCalibration, observed + Cardinality(Healthy(o))})
    BY <1>2 DEF EvaluateGeneration
  <2>2. /\ phase = "evaluate" /\ phase' = "rescue"
        /\ UNCHANGED <<calibrated, just_calibrated>>
    BY <1>2 DEF EvaluateGeneration, normalizer
  <2>3. Healthy(outcome)' = Healthy(o)
    BY <2>1 DEF Healthy
  <2> QED BY <2>1, <2>2, <2>3, NewSamples
<1>3. CASE RescueDeadWorkers
  <2>1. Healthy(outcome)' = Healthy(outcome)
    BY <1>3 DEF RescueDeadWorkers, Healthy
  <2> QED BY <1>3, <2>1 DEF RescueDeadWorkers, normalizer
<1>4. CASE UpdateMetricRanges
  <2>1. /\ phase = "calibrate" /\ phase' = "finalize"
        /\ UNCHANGED <<outcome, observed>> /\ Healthy(outcome)' = Healthy(outcome)
    BY <1>4 DEF UpdateMetricRanges, scores, Healthy
  <2>2. CASE ~calibrated /\ observed = MinCalibration
    <3>1. calibrated' = TRUE /\ just_calibrated' = TRUE
      BY <1>4, <2>2 DEF UpdateMetricRanges, UpdateRanges, Fit
    <3> QED BY <2>1, <2>2, <3>1
  <2>3. CASE ~(~calibrated /\ observed = MinCalibration)
    <3>1. UNCHANGED <<calibrated, just_calibrated>>
      BY <1>4, <2>3 DEF UpdateMetricRanges, normalizer
    <3> QED BY <2>1, <2>3, <3>1
  <2> QED BY <2>2, <2>3
<1>5. CASE FinalizeScores
  <2>1. calibrated' = TRUE \/ calibrated' = calibrated
    BY <1>5, FitIsKept DEF FinalizeScores, ExpandForViable
  <2> QED BY <1>5, <2>1 DEF FinalizeScores, scores
<1> QED BY <1>1, <1>2, <1>3, <1>4, <1>5 DEF ScoringNext
-----------------------------------------------------------------------------
(* The ruler.                                                               *)

LEMMA InitRulerInv == ScoringInit => RulerInv
<1> SUFFICES ASSUME ScoringInit PROVE RulerInv
  OBVIOUS
<1>1. phase = "start" /\ best = NoRuler
  BY DEF ScoringInit
<1> QED BY <1>1 DEF RulerInv

\* "kept" is only answered where the anchors stay.
LEMMA KeptAnchors ==
  ASSUME ExpandForViable, answer' = "kept"
  PROVE  anchors' = anchors
<1>1. CASE Viable = {} /\ UNCHANGED <<anchors, history, samples, outs, calibrated>>
  BY <1>1
<1>2. ASSUME NEW s \in Generations, ExpandRanges(s) PROVE anchors' = anchors
  BY <1>2 DEF ExpandRanges
<1> QED BY <1>1, <1>2 DEF ExpandForViable

\* The ruler of a scorer is its context and, if it shares the normalizer, the anchors.
LEMMA SameRuler ==
  ASSUME engine'.context = engine.context, engine'.shared = engine.shared,
         anchors' = anchors
  PROVE  Ruler(engine)' = Ruler(engine)
  BY DEF Ruler

LEMMA NextRulerInv ==
  ShapeInv /\ CalibInv /\ RulerInv /\ [ScoringNext]_scoringVars => RulerInv'
<1> SUFFICES ASSUME ShapeInv, CalibInv, RulerInv, [ScoringNext]_scoringVars PROVE RulerInv'
  OBVIOUS
<1>1. CASE LogGenerationWeights
  <2>1. engine'.context = engine.context /\ engine'.shared = engine.shared
    BY <1>1, LoggedEngine DEF LogGenerationWeights
  <2>2. phase = "start" /\ phase' = "evaluate" /\ UNCHANGED <<anchors, best>>
    BY <1>1 DEF LogGenerationWeights, normalizer, scores
  <2> QED BY <2>1, <2>2, SameRuler DEF RulerInv
<1>2. CASE EvaluateGeneration
  <2>1. PICK o \in [Workers -> {"failed", "weak", "viable"}] :
           /\ outcome' = o
           /\ ruler' = [w \in Workers |-> IF w \in Healthy(o) THEN Ruler(engine) ELSE NoRuler]
    BY <1>2 DEF EvaluateGeneration
  <2>2. /\ phase = "evaluate" /\ phase' = "rescue" /\ UNCHANGED <<engine, best, anchors>>
    BY <1>2 DEF EvaluateGeneration, normalizer
  <2>3. Ruler(engine)' = Ruler(engine)
    BY <2>2, SameRuler
  <2>4. Healthy(outcome)' = Healthy(o) /\ Healthy(o) \subseteq Workers
    BY <2>1 DEF Healthy
  <2>5. \A w \in Healthy(outcome)' : ruler'[w] = Ruler(engine)
    BY <2>1, <2>4
  <2> QED BY <2>2, <2>3, <2>5 DEF RulerInv, OnRuler
<1>3. CASE RescueDeadWorkers
  <2>1. Healthy(outcome)' = Healthy(outcome)
    BY <1>3 DEF RescueDeadWorkers, Healthy
  <2>2. /\ phase = "rescue" /\ phase' = "calibrate"
        /\ UNCHANGED <<engine, best, ruler, anchors>>
    BY <1>3 DEF RescueDeadWorkers, normalizer
  <2> QED BY <2>1, <2>2, SameRuler DEF RulerInv, OnRuler
<1>4. CASE UpdateMetricRanges
  <2>1. /\ phase = "calibrate" /\ phase' = "finalize" /\ UNCHANGED <<engine, best, ruler>>
        /\ Healthy(outcome)' = Healthy(outcome)
    BY <1>4 DEF UpdateMetricRanges, scores, Healthy
  <2>2. CASE ~calibrated /\ observed = MinCalibration
    BY <1>4, <2>1, <2>2 DEF UpdateMetricRanges, RulerInv
  <2>3. CASE ~(~calibrated /\ observed = MinCalibration)
    <3>1. anchors' = anchors
      BY <1>4, <2>3 DEF UpdateMetricRanges, normalizer
    <3> QED BY <2>1, <3>1, SameRuler DEF RulerInv, OnRuler
  <2> QED BY <2>2, <2>3
<1>5. CASE NothingScored \/ NotCalibrated
  <2>1. /\ phase = "finalize" /\ phase' \in {"compare", "evolve"}
        /\ UNCHANGED <<engine, best, ruler, anchors>> /\ Healthy(outcome)' = Healthy(outcome)
    BY <1>5 DEF NothingScored, NotCalibrated, normalizer, scores, Healthy
  <2>2. ~just_calibrated
    BY <1>5 DEF NothingScored, NotCalibrated, CalibInv, Measured, Healthy
  <2> QED BY <2>1, <2>2, SameRuler DEF RulerInv, OnRuler
<1>6. CASE FinalizeScores
  <2>1. /\ phase = "finalize" /\ ExpandForViable
        /\ UNCHANGED <<best, ruler>> /\ Healthy(outcome)' = Healthy(outcome)
    BY <1>6 DEF FinalizeScores, scores, Healthy
  <2>2. CASE phase' = "reload"
    BY <2>2 DEF RulerInv
  <2>3. CASE phase' = "compare"
    <3>1. /\ ~just_calibrated /\ anchors' = anchors
          /\ engine'.context = engine.context /\ engine'.shared = engine.shared
      BY <1>6, <2>1, <2>3, FinalizedEngine, KeptAnchors
    <3> QED BY <2>1, <2>3, <3>1, SameRuler DEF RulerInv, OnRuler
  <2> QED BY <1>6, <2>2, <2>3, FinalizedEngine
<1>7. CASE ReloadScoringEngine
  BY <1>7 DEF ReloadScoringEngine, RulerInv
<1>8. CASE Rescore
  <2>1. /\ phase' = "compare" /\ UNCHANGED <<engine, anchors>>
        /\ ruler' = [w \in Workers |-> IF w \in Healthy(outcome) THEN Ruler(engine) ELSE NoRuler]
        /\ best' \in {NoRuler, Ruler(engine)}
    BY <1>8 DEF Rescore, normalizer
  <2>2. Healthy(outcome)' = Healthy(outcome) /\ Healthy(outcome) \subseteq Workers
    BY <1>8 DEF Rescore, Healthy
  <2>3. Ruler(engine)' = Ruler(engine)
    BY <2>1, SameRuler
  <2> QED BY <2>1, <2>2, <2>3 DEF RulerInv, OnRuler
<1>9. CASE DetermineOverallBest
  <2>1. /\ phase = "compare" /\ phase' = "evolve" /\ UNCHANGED <<engine, ruler, anchors>>
        /\ best' \in {best} \cup {ruler[w] : w \in Healthy(outcome)}
        /\ Healthy(outcome)' = Healthy(outcome)
    BY <1>9 DEF DetermineOverallBest, normalizer, Healthy
  <2>2. Ruler(engine)' = Ruler(engine)
    BY <2>1, SameRuler
  <2>3. OnRuler(Ruler(engine))
    BY <2>1 DEF RulerInv
  <2>4. best' \in {NoRuler, Ruler(engine)}
    BY <2>1, <2>3 DEF OnRuler
  <2> QED BY <2>1, <2>2, <2>3, <2>4 DEF RulerInv, OnRuler
<1>10. CASE NextRound
  BY <1>10, SameRuler DEF NextRound, RulerInv, OnRuler, normalizer, scores
<1>11. CASE UNCHANGED scoringVars
  BY <1>11, SameRuler DEF scoringVars, RulerInv, OnRuler, normalizer, scores, Healthy
<1> QED
  BY <1>1, <1>2, <1>3, <1>4, <1>5, <1>6, <1>7, <1>8, <1>9, <1>10, <1>11 DEF ScoringNext

LEMMA RulerInvariant == ScoringSpec => [](ShapeInv /\ CalibInv /\ RulerInv)
  BY InitShape, InitCalibInv, InitRulerInv, NextShapeInv, NextCalibInv, NextRulerInv, PTL
     DEF ScoringSpec

\* _finalize_scores rescored whatever needed it: the scores that exploit and
\* _determine_overall_best compare are on one ruler, the historical best included.
THEOREM ScoresShareARuler == ScoringSpec => []OneRuler
<1>1. RulerInv => OneRuler
  BY DEF RulerInv, OnRuler, OneRuler
<1> QED BY <1>1, RulerInvariant, PTL
-----------------------------------------------------------------------------
(* The weights and their log.                                               *)

LEMMA NextReloadInv ==
  ShapeInv /\ CalibInv /\ ReloadInv /\ [ScoringNext]_scoringVars => ReloadInv'
<1> SUFFICES ASSUME ShapeInv, CalibInv, ReloadInv, [ScoringNext]_scoringVars PROVE ReloadInv'
  OBVIOUS
<1>1. CASE FinalizeScores
  <2>1. UNCHANGED <<features, policy>>
    BY <1>1 DEF FinalizeScores, session
  <2> QED BY <1>1, <2>1, FinalizedEngine DEF ReloadInv, Context
<1>2. CASE UNCHANGED scoringVars
  BY <1>2 DEF scoringVars, session, refiner, ReloadInv, Context
<1>3. CASE phase' # "reload"
  BY <1>3 DEF ReloadInv
<1> QED
  BY <1>1, <1>2, <1>3 DEF ScoringNext, LogGenerationWeights, EvaluateGeneration,
     RescueDeadWorkers, UpdateMetricRanges, NothingScored, NotCalibrated,
     ReloadScoringEngine, Rescore, DetermineOverallBest, NextRound

\* The weights of a context depend on nothing else.
LEMMA SameWeights ==
  ASSUME engine'.context = engine.context
  PROVE  Weights(engine.context)' = Weights(engine.context)
  BY DEF Weights

LEMMA NextLogInv ==
  ShapeInv /\ CalibInv /\ ReloadInv /\ LogInv /\ EvaluateLogInv /\ [ScoringNext]_scoringVars
      => LogInv' /\ EvaluateLogInv'
<1> SUFFICES ASSUME ShapeInv, CalibInv, ReloadInv, LogInv, EvaluateLogInv,
                    [ScoringNext]_scoringVars
             PROVE  LogInv' /\ EvaluateLogInv'
  OBVIOUS
<1>1. CASE LogGenerationWeights
  <2>1. phase = "start" /\ phase' = "evaluate" /\ rounds' = rounds
    BY <1>1 DEF LogGenerationWeights
  <2>2. CASE rounds = 0 \/ engine.logNext
    <3>1. /\ shown' = Weights(engine.context)
          /\ engine' = [engine EXCEPT !.logged = Weights(engine.context), !.logNext = FALSE]
      BY <1>1, <2>2 DEF LogGenerationWeights
    <3>2. engine'.logged = shown' /\ engine'.context = engine.context
      BY <3>1, LoggedEngine
    <3> QED BY <2>1, <3>1, <3>2, SameWeights DEF LogInv, EvaluateLogInv
  <2>3. CASE ~(rounds = 0 \/ engine.logNext)
    <3>1. UNCHANGED <<shown, engine>> /\ rounds > 0
      BY <1>1, <2>3 DEF LogGenerationWeights, ShapeInv
    <3> QED BY <2>1, <2>3, <3>1, SameWeights DEF LogInv, EvaluateLogInv
  <2> QED BY <2>2, <2>3
<1>2. CASE Quiet /\ phase # "start" /\ phase' \notin {"start", "evaluate"}
  BY <1>2, SameWeights DEF Quiet, LogInv, EvaluateLogInv
<1>3. CASE FinalizeScores
  <2>1. /\ phase = "finalize" /\ phase' \in {"reload", "compare"} /\ shown' = shown
        /\ engine'.logged = engine.logged
        /\ engine'.logNext \/ (engine'.context = engine.context /\ engine'.logNext = engine.logNext)
    BY <1>3, FinalizedEngine DEF FinalizeScores
  <2> QED BY <2>1, SameWeights DEF LogInv, EvaluateLogInv
<1>4. CASE ReloadScoringEngine
  <2>1. /\ phase = "reload" /\ phase' = "rescore" /\ shown' = shown
        /\ engine'.context = engine.context
        /\ engine'.logged = engine.logged /\ engine'.logNext = engine.logNext
    BY <1>4, ReloadedEngine DEF ReloadScoringEngine, ReloadInv
  <2> QED BY <2>1, SameWeights DEF LogInv, EvaluateLogInv
<1>5. CASE NextRound
  BY <1>5, SameWeights DEF NextRound, LogInv, EvaluateLogInv
<1>6. CASE UNCHANGED scoringVars
  BY <1>6, SameWeights DEF scoringVars, LogInv, EvaluateLogInv
<1>7. CASE EvaluateGeneration \/ RescueDeadWorkers \/ UpdateMetricRanges \/ NothingScored
           \/ NotCalibrated \/ Rescore \/ DetermineOverallBest
  <2>1. phase # "start" /\ phase' \notin {"start", "evaluate"}
    BY <1>7 DEF EvaluateGeneration, RescueDeadWorkers, UpdateMetricRanges, NothingScored,
                NotCalibrated, Rescore, DetermineOverallBest
  <2> QED BY <1>2, <1>7, <2>1, QuietSteps
<1> QED BY <1>1, <1>3, <1>4, <1>5, <1>6, <1>7 DEF ScoringNext

LEMMA LogInvariant ==
  ScoringSpec => [](ShapeInv /\ CalibInv /\ ReloadInv /\ LogInv /\ EvaluateLogInv)
  BY InitShape, InitCalibInv, NextShapeInv, NextCalibInv, NextReloadInv, NextLogInv, PTL
     DEF ScoringSpec

\* reload_scoring_engine finds the context up to date, because every way into it forces
\* the update: the rebuild changes no weight.
THEOREM RebuildKeepsWeights == ScoringSpec => ReloadKeepsWeights
<1>1. ShapeInv /\ CalibInv /\ ReloadInv /\ [ScoringNext]_scoringVars
          => [phase = "reload" => Weights(engine'.context) = Weights(engine.context)]_scoringVars
  <2> SUFFICES ASSUME ShapeInv, CalibInv, ReloadInv, ScoringNext, phase = "reload"
               PROVE  engine'.context = engine.context
    OBVIOUS
  <2>1. ReloadScoringEngine
    BY DEF ScoringNext, LogGenerationWeights, EvaluateGeneration, RescueDeadWorkers,
           UpdateMetricRanges, NothingScored, NotCalibrated, FinalizeScores, Rescore,
           DetermineOverallBest, NextRound
  <2> QED BY <2>1, ReloadedEngine DEF ReloadInv
<1> QED BY <1>1, LogInvariant, PTL DEF ScoringSpec, ReloadKeepsWeights

\* log_generation_weights: rounds run with the weights of the last table, and the scorer
\* in use knows that table, through every rebuild.
THEOREM TablesTellTheWeights == ScoringSpec => []TablesAreHonest
<1>1. LogInv /\ EvaluateLogInv => TablesAreHonest
  BY DEF LogInv, EvaluateLogInv, TablesAreHonest
<1> QED BY <1>1, LogInvariant, PTL
-----------------------------------------------------------------------------
(* What a healthy evaluation has done.                                     *)

\* Before the benchmark of an evaluation runs.
Early == {"setup", "stats", "validating", "revalidate", "run", "drop", "create", "fill", "vacuum",
          "dbgen", "generate", "write", "close", "schema", "copy", "indexes", "stamp", "insert"}
MeasuredPlaces == {"measured", "collected"}
Places == Early \cup MeasuredPlaces
              \cup {"idle", "failed", "warmup", "power", "threads", "joining", "sequential", "maintenance"}
Passes == WarmupPasses * Queries

ThreadRecord == [at : {"off", "connecting", "running", "put"}, failed : Nat, total : Nat]
Failures == {"none", "EXECUTION_CRASH", "warmup_failed", "query_failed_or_timeout",
             "HIGH_ERROR_RATE", "NEAR_ZERO_THROUGHPUT", "DEGRADED"}
MetricRecord == [total : Nat, failed : Nat, failure : Failures]

RunTypes ==
    /\ profile \in Profiles
    /\ pc \in [BenchWorkers -> Places] /\ k \in [BenchWorkers -> Nat \ {0}]
    /\ tally \in [BenchWorkers -> [warm : Nat, ok : Nat]]
    /\ metrics \in [BenchWorkers -> MetricRecord]
    /\ queue \in [BenchWorkers -> [total : Nat, failed : Nat]]
    /\ thread \in [BenchWorkers -> [1 .. profile.threads -> ThreadRecord]]

NothingDone(w) == tally[w].warm + tally[w].ok = 0

\* The template's threads: where no query succeeded, all have failed.
Fruitless(w) ==
    /\ queue[w].failed = queue[w].total
    /\ \A t \in 1 .. profile.threads : thread[w][t].failed = thread[w][t].total

WorkOf(w) ==
    /\ pc[w] \in Early => tally[w] = NoTally
    /\ pc[w] = "warmup" =>
          /\ profile.kind = "tpch" /\ k[w] <= Passes + 1
          /\ tally[w] = [warm |-> k[w] - 1, ok |-> 0]
    /\ pc[w] = "power" =>
          /\ profile.kind = "tpch" /\ k[w] <= Queries + 1
          /\ tally[w] = [warm |-> Passes, ok |-> k[w] - 1]
    /\ pc[w] \in {"sequential", "threads", "joining"} => profile.kind = "template"
    /\ pc[w] \in {"threads", "joining"} /\ NothingDone(w) => Fruitless(w)
    /\ (/\ pc[w] \in MeasuredPlaces \cup {"maintenance"}
        /\ metrics[w].failure = "none" /\ profile.kind = "tpch") =>
          tally[w] = [warm |-> Passes, ok |-> Queries]
    /\ pc[w] \in MeasuredPlaces /\ metrics[w].failure = "none" /\ NothingDone(w) =>
          metrics[w].failed = metrics[w].total
    /\ pc[w] = "maintenance" /\ metrics[w].failure = "none" => ~NothingDone(w)

WorkInv == RunTypes /\ \A w \in BenchWorkers : WorkOf(w)
-----------------------------------------------------------------------------
LEMMA PassesNat == Passes \in Nat
BY TpchAssumption DEF Passes

LEMMA NoTallyType == /\ NoTally \in [warm : Nat, ok : Nat]
                     /\ NoTally.warm = 0 /\ NoTally.ok = 0
BY DEF NoTally

\* An exception ends the evaluation, or the session.
LEMMA RaiseWorkTally ==
  ASSUME NEW w \in BenchWorkers, WorkInv, Raise(w), UNCHANGED profile,
         tally' \in [BenchWorkers -> [warm : Nat, ok : Nat]],
         \A v \in BenchWorkers \ {w} : tally'[v] = tally[v]
  PROVE  WorkInv'
<1> USE DEF WorkInv, RunTypes
<1>1. RunTypes'
  <2>1. NoThreads \in [1 .. profile.threads -> ThreadRecord]
    BY DEF NoThreads, NewThread, ThreadRecord
  <2>2. thread' \in [BenchWorkers -> [1 .. profile'.threads -> ThreadRecord]]
    BY <2>1 DEF Raise
  <2>3. NothingPut \in [total : Nat, failed : Nat]
    BY DEF NothingPut
  <2>4. queue' \in [BenchWorkers -> [total : Nat, failed : Nat]]
    BY <2>3 DEF Raise
  <2>5. ExecutionCrash \in MetricRecord
    BY DEF ExecutionCrash, Metrics, MetricRecord, Failures
  <2>6. metrics' \in [BenchWorkers -> MetricRecord]
    BY <2>5 DEF Raise
  <2>7. pc' \in [BenchWorkers -> Places] /\ k' \in [BenchWorkers -> Nat \ {0}]
    BY DEF Raise, Goto, Places
  <2> QED BY <2>2, <2>4, <2>6, <2>7
<1>2. ASSUME NEW v \in BenchWorkers PROVE WorkOf(v)'
  <2>1. CASE v = w
    BY <2>1 DEF Raise, Goto, WorkOf, Early, MeasuredPlaces
  <2>2. CASE v # w
    BY <2>2 DEF Raise, Goto, WorkOf, NothingDone, Fruitless
  <2> QED BY <2>1, <2>2
<1> QED BY <1>1, <1>2

LEMMA RaiseWork ==
  ASSUME NEW w \in BenchWorkers, WorkInv, Raise(w), UNCHANGED <<profile, tally>>
  PROVE  WorkInv'
BY RaiseWorkTally DEF WorkInv, RunTypes

\* A step that stays before the run.
EarlyStep(w) ==
    /\ pc[w] \in Early
    /\ pc' \in [BenchWorkers -> Places] /\ pc'[w] \in Early \cup {"idle"}
    /\ k' \in [BenchWorkers -> Nat \ {0}]
    /\ \A v \in BenchWorkers \ {w} : pc'[v] = pc[v] /\ k'[v] = k[v]
    /\ UNCHANGED <<profile, tally, metrics, pool>>

LEMMA EarlyWork ==
  ASSUME NEW w \in BenchWorkers, WorkInv, EarlyStep(w)
  PROVE  WorkInv'
<1> USE DEF EarlyStep
<1>1. RunTypes'
  BY DEF WorkInv, RunTypes, pool
<1>2. ASSUME NEW v \in BenchWorkers PROVE WorkOf(v)'
  <2>0. WorkOf(v) /\ WorkOf(w)
    BY DEF WorkInv
  <2>1. CASE v = w
    BY <2>0, <2>1 DEF WorkOf, Early, MeasuredPlaces
  <2>2. CASE v # w
    <3>1. pc'[v] = pc[v] /\ k'[v] = k[v]
      BY <2>2
    <3> QED BY <2>0, <3>1 DEF WorkOf, NothingDone, Fruitless, pool
  <2> QED BY <2>1, <2>2
<1> QED BY <1>1, <1>2 DEF WorkInv

\* A finished run hands its metrics over.
LEMMA FinishWork ==
  ASSUME NEW w \in BenchWorkers, WorkInv, NEW m \in MetricRecord, Finish(w, m),
         UNCHANGED profile, thread' \in [BenchWorkers -> [1 .. profile.threads -> ThreadRecord]],
         \A v \in BenchWorkers \ {w} : thread'[v] = thread[v],
         queue' \in [BenchWorkers -> [total : Nat, failed : Nat]],
         \A v \in BenchWorkers \ {w} : queue'[v] = queue[v],
         tally' \in [BenchWorkers -> [warm : Nat, ok : Nat]],
         \A v \in BenchWorkers \ {w} : tally'[v] = tally[v],
         m.failure = "none" /\ profile.kind = "tpch" =>
             tally'[w] = [warm |-> Passes, ok |-> Queries],
         m.failure = "none" /\ tally'[w].warm + tally'[w].ok = 0 => m.failed = m.total
  PROVE  WorkInv'
<1>1. RunTypes'
  BY DEF Finish, Goto, WorkInv, RunTypes, Places, MeasuredPlaces
<1>2. ASSUME NEW v \in BenchWorkers PROVE WorkOf(v)'
  <2>0. WorkOf(v)
    BY DEF WorkInv
  <2>1. CASE v = w
    BY <2>1 DEF Finish, Goto, WorkOf, WorkInv, RunTypes, Early, MeasuredPlaces, NothingDone
  <2>2. CASE v # w
    BY <2>0, <2>2 DEF Finish, Goto, WorkOf, WorkInv, RunTypes, NothingDone, Fruitless
  <2> QED BY <2>1, <2>2
<1> QED BY <1>1, <1>2 DEF WorkInv

\* The data of the others are not touched.
LEMMA OthersWork ==
  ASSUME NEW w \in BenchWorkers, WorkInv, RunTypes', WorkOf(w)', UNCHANGED profile,
         \A v \in BenchWorkers \ {w} :
            /\ pc'[v] = pc[v] /\ k'[v] = k[v] /\ tally'[v] = tally[v]
            /\ metrics'[v] = metrics[v] /\ thread'[v] = thread[v] /\ queue'[v] = queue[v]
  PROVE  WorkInv'
<1>2. ASSUME NEW v \in BenchWorkers, v # w PROVE WorkOf(v)'
  <2>1. WorkOf(v)
    BY DEF WorkInv
  <2>2. pc'[v] = pc[v] /\ k'[v] = k[v] /\ tally'[v] = tally[v] /\ metrics'[v] = metrics[v]
    BY <1>2
  <2>3. thread'[v] = thread[v] /\ queue'[v] = queue[v]
    BY <1>2
  <2> QED BY <2>1, <2>2, <2>3 DEF WorkOf, NothingDone, Fruitless
<1> QED BY <1>2 DEF WorkInv

LEMMA WorkInit == BenchInit => WorkInv
<1> SUFFICES ASSUME BenchInit PROVE WorkInv
  OBVIOUS
<1> USE DEF BenchInit
<1>1. NoThreads \in [1 .. profile.threads -> ThreadRecord]
  BY DEF NoThreads, NewThread, ThreadRecord
<1>2. NoMetrics \in MetricRecord
  BY DEF NoMetrics, Metrics, MetricRecord, Failures
<1>3. NothingPut \in [total : Nat, failed : Nat]
  BY DEF NothingPut
<1>4. RunTypes
  BY <1>1, <1>2, <1>3, NoTallyType DEF RunTypes, Places, Early
<1>5. ASSUME NEW w \in BenchWorkers PROVE WorkOf(w)
  BY DEF WorkOf, Early, MeasuredPlaces
<1> QED BY <1>4, <1>5 DEF WorkInv

LEMMA WorkGate ==
  ASSUME NEW m \in MetricRecord
  PROVE  /\ Gate(m) \in MetricRecord
         /\ Gate(m).failure = "none" => m.failure = "none" /\ m.failed # m.total
<1>1. CASE m.failure # "none"
  BY <1>1 DEF Gate
<1>2. CASE m.failure = "none"
  <2> DEFINE f == CASE m.total > 0 /\ 2 * m.failed >= m.total -> "HIGH_ERROR_RATE"
                    [] m.total = 0 -> "NEAR_ZERO_THROUGHPUT"
                    [] m.total > 0 /\ 10 * m.failed >= m.total
                         /\ 2 * m.failed < m.total -> "DEGRADED"
                    [] OTHER -> "none"
  <2>1. Gate(m) = [m EXCEPT !.failure = f]
    BY <1>2 DEF Gate
  <2>2. f \in Failures
    BY DEF Failures, MetricRecord
  <2>3. f = "none" => m.failed # m.total
    BY DEF MetricRecord
  <2>4. Gate(m) \in MetricRecord /\ Gate(m).failure = f
    <3> HIDE DEF f
    <3> QED BY <2>1, <2>2 DEF MetricRecord
  <2> QED BY <2>3, <2>4, <1>2
<1> QED BY <1>1, <1>2

\* Everything before the run, exceptions included.
Preparing(w) ==
    \/ InitializeSchema(w) \/ EnsureReady(w) \/ Revalidate(w)
    \/ DropTables(w) \/ SysbenchCreate(w) \/ SysbenchFill(w)
    \/ SysbenchPrepareFails(w) \/ PostVacuum(w)
    \/ FindDbgen(w) \/ GenerateData(w) \/ DbgenOpen(w) \/ DbgenClose(w)
    \/ DbgenFails(w) \/ DbgenExits(w)
    \/ CreateSchema(w) \/ CopyTable(w) \/ AllCopied(w) \/ BuildIndexes(w)
    \/ CreateMetadata(w) \/ InsertScaleFactor(w) \/ TpchPrepareFails(w) \/ CaptureBefore(w)

LEMMA WorkPreparing ==
  ASSUME NEW w \in BenchWorkers, WorkInv, Preparing(w)
  PROVE  WorkInv'
<1> SUFFICES EarlyStep(w) \/ (Raise(w) /\ UNCHANGED <<profile, tally>>)
  BY EarlyWork, RaiseWork
<1> USE DEF EarlyStep, Goto, SetIndex, running, Early, Places
<1>0. pc \in [BenchWorkers -> Places] /\ k \in [BenchWorkers -> Nat \ {0}]
  BY DEF WorkInv, RunTypes
<1>1. CASE InitializeSchema(w)
  BY <1>0, <1>1 DEF InitializeSchema
<1>2. CASE EnsureReady(w)
  BY <1>0, <1>2 DEF EnsureReady, control
<1>3. CASE Revalidate(w)
  BY <1>0, <1>3 DEF Revalidate
<1>4. CASE DropTables(w)
  BY <1>0, <1>4 DEF DropTables
<1>5. CASE SysbenchCreate(w)
  BY <1>0, <1>5 DEF SysbenchCreate
<1>6. CASE SysbenchFill(w)
  BY <1>0, <1>6 DEF SysbenchFill
<1>7. CASE SysbenchPrepareFails(w)
  BY <1>7 DEF SysbenchPrepareFails
<1>8. CASE PostVacuum(w)
  BY <1>0, <1>8 DEF PostVacuum, Prepared
<1>9. CASE FindDbgen(w)
  BY <1>0, <1>9 DEF FindDbgen
<1>10. CASE GenerateData(w)
  BY <1>0, <1>10 DEF GenerateData
<1>11. CASE DbgenOpen(w)
  BY <1>0, <1>11 DEF DbgenOpen
<1>12. CASE DbgenClose(w)
  BY <1>0, <1>12 DEF DbgenClose
<1>13. CASE DbgenFails(w)
  BY <1>13 DEF DbgenFails
<1>14. CASE DbgenExits(w)
  BY <1>0, <1>14 DEF DbgenExits
<1>15. CASE CreateSchema(w)
  BY <1>0, <1>15 DEF CreateSchema
<1>16. CASE CopyTable(w)
  BY <1>0, <1>16 DEF CopyTable
<1>17. CASE AllCopied(w)
  BY <1>0, <1>17 DEF AllCopied
<1>18. CASE BuildIndexes(w)
  BY <1>0, <1>18 DEF BuildIndexes
<1>19. CASE CreateMetadata(w)
  BY <1>0, <1>19 DEF CreateMetadata
<1>20. CASE InsertScaleFactor(w)
  BY <1>0, <1>20 DEF InsertScaleFactor, Prepared
<1>21. CASE TpchPrepareFails(w)
  BY <1>21 DEF TpchPrepareFails
<1>22. CASE CaptureBefore(w)
  BY <1>0, <1>22 DEF CaptureBefore
<1> QED BY <1>1, <1>2, <1>3, <1>4, <1>5, <1>6, <1>7, <1>8, <1>9, <1>10, <1>11, <1>12, <1>13, <1>14,
           <1>15, <1>16, <1>17, <1>18, <1>19, <1>20, <1>21, <1>22 DEF Preparing

\* A new evaluation.
LEMMA WorkBegin ==
  ASSUME NEW w \in BenchWorkers, WorkInv, BeginEvaluation(w)
  PROVE  WorkInv'
<1> USE DEF BeginEvaluation, Goto, SetIndex
<1>1. NoMetrics \in MetricRecord
  BY DEF NoMetrics, Metrics, MetricRecord, Failures
<1>2. RunTypes'
  BY <1>1, NoTallyType DEF WorkInv, RunTypes, Places, Early, pool
<1>3. WorkOf(w)'
  BY DEF WorkInv, RunTypes, WorkOf, Early, MeasuredPlaces
<1> QED BY <1>2, <1>3, OthersWork DEF WorkInv, RunTypes, pool

\* Sysbench: a throughput of zero raises.
LEMMA WorkSysbench ==
  ASSUME NEW w \in BenchWorkers, WorkInv, RunSysbench(w)
  PROVE  WorkInv'
<1>1. profile.kind = "sysbench" /\ profile' = profile
  BY DEF RunSysbench
<1>2. PICK warm \in 0 .. RunLength, ok \in 0 .. RunLength, ignored \in 0 .. RunLength,
           exited \in BOOLEAN :
        /\ tally' = [tally EXCEPT ![w] = [warm |-> warm, ok |-> ok]]
        /\ IF exited /\ warm + ok > 0
           THEN Finish(w, ParseOutput(warm, ok, ignored)) /\ UNCHANGED pool
           ELSE Raise(w)
  BY DEF RunSysbench
<1>3. RunLength \in Nat
  BY TpchAssumption
<1>4. tally' \in [BenchWorkers -> [warm : Nat, ok : Nat]] /\ tally'[w] = [warm |-> warm, ok |-> ok]
  BY <1>2, <1>3 DEF WorkInv, RunTypes
<1>5. \A v \in BenchWorkers \ {w} : tally'[v] = tally[v]
  BY <1>2 DEF WorkInv, RunTypes
<1>6. CASE exited /\ warm + ok > 0
  <2>1. ParseOutput(warm, ok, ignored) \in MetricRecord
    BY <1>3 DEF ParseOutput, Metrics, MetricRecord, Failures
  <2>2. Finish(w, ParseOutput(warm, ok, ignored)) /\ UNCHANGED <<thread, queue>>
    BY <1>2, <1>6 DEF pool
  <2>3. tally'[w].warm + tally'[w].ok > 0
    BY <1>4, <1>6
  <2>4. thread' \in [BenchWorkers -> [1 .. profile.threads -> ThreadRecord]]
    BY <2>2 DEF WorkInv, RunTypes
  <2>5. queue' \in [BenchWorkers -> [total : Nat, failed : Nat]]
    BY <2>2 DEF WorkInv, RunTypes
  <2>6. /\ \A v \in BenchWorkers \ {w} : thread'[v] = thread[v]
        /\ \A v \in BenchWorkers \ {w} : queue'[v] = queue[v]
    BY <2>2
  <2>7. profile.kind # "tpch" /\ tally'[w].warm + tally'[w].ok # 0
    BY <1>1, <1>4, <2>3
  <2> QED BY <1>1, <1>4, <1>5, <2>1, <2>2, <2>4, <2>5, <2>6, <2>7, FinishWork
<1>7. CASE ~(exited /\ warm + ok > 0)
  <2>1. Raise(w)
    BY <1>2, <1>7
  <2> QED BY <1>1, <1>4, <1>5, <2>1, RaiseWorkTally
<1> QED BY <1>6, <1>7

\* TPC-H up to its first query.
LEMMA WorkTpchConnect ==
  ASSUME NEW w \in BenchWorkers, WorkInv, TpchConnect(w)
  PROVE  WorkInv'
<1> USE DEF Goto, SetIndex
<1>0. WorkOf(w) /\ RunTypes /\ UNCHANGED <<profile, tally>>
  BY DEF WorkInv, TpchConnect
<1>1. CASE Raise(w)
  BY <1>0, <1>1, RaiseWork
<1>2. CASE ~Raise(w)
  <2>1. /\ pc[w] = "run" /\ profile.kind = "tpch" /\ UNCHANGED <<metrics, thread, queue>>
        /\ \/ pc' = [pc EXCEPT ![w] = "warmup"] /\ k' = [k EXCEPT ![w] = 1]
           \/ pc' = pc /\ k' = [k EXCEPT ![w] = k[w] + 1]
    BY <1>2 DEF TpchConnect, pool
  <2>2. RunTypes'
    <3>1. pc' \in [BenchWorkers -> Places]
      BY <1>0, <2>1 DEF RunTypes, Places
    <3>2. k[w] + 1 \in Nat \ {0} /\ 1 \in Nat \ {0}
      BY <1>0 DEF RunTypes
    <3>3. k' \in [BenchWorkers -> Nat \ {0}]
      BY <1>0, <2>1, <3>2 DEF RunTypes
    <3> QED BY <1>0, <2>1, <3>1, <3>3 DEF RunTypes
  <2>3. WorkOf(w)'
    BY <1>0, <2>1, PassesNat, NoTallyType DEF RunTypes, WorkOf, Early, MeasuredPlaces, NoTally
  <2> QED BY <1>0, <2>1, <2>2, <2>3, OthersWork DEF RunTypes
<1> QED BY <1>1, <1>2

LEMMA PenaltyType ==
  ASSUME NEW failure \in {"warmup_failed", "query_failed_or_timeout"}
  PROVE  Penalty(failure) \in MetricRecord /\ Penalty(failure).failure # "none"
BY TpchAssumption DEF Penalty, Metrics, MetricRecord, Failures

\* The warm-up passes of TPC-H: k queries are k successes.
LEMMA WorkTpchWarmup ==
  ASSUME NEW w \in BenchWorkers, WorkInv, TpchWarmup(w) \/ TpchWarm(w)
  PROVE  WorkInv'
<1>0. WorkOf(w) /\ RunTypes /\ UNCHANGED profile /\ pc[w] = "warmup"
  BY DEF WorkInv, TpchWarmup, TpchWarm
<1>1. CASE Finish(w, Penalty("warmup_failed")) /\ UNCHANGED <<tally, pool>>
  BY <1>0, <1>1, PenaltyType, FinishWork DEF RunTypes, pool
<1>2. CASE Raise(w) /\ UNCHANGED tally
  BY <1>0, <1>2, RaiseWork
<1>3. CASE /\ pc' = pc /\ k' = [k EXCEPT ![w] = k[w] + 1] /\ k[w] <= Passes
           /\ tally' = [tally EXCEPT ![w].warm = @ + 1] /\ UNCHANGED <<metrics, thread, queue>>
  <2>1. tally[w] = [warm |-> k[w] - 1, ok |-> 0]
    BY <1>0 DEF WorkOf
  <2>2. tally'[w] = [warm |-> k[w], ok |-> 0]
    BY <1>0, <1>3, <2>1 DEF RunTypes
  <2>3. k[w] + 1 \in Nat \ {0} /\ k[w] \in Nat /\ k'[w] = k[w] + 1
    BY <1>0, <1>3 DEF RunTypes
  <2>4. k' \in [BenchWorkers -> Nat \ {0}]
    BY <1>0, <1>3, <2>3 DEF RunTypes
  <2>5. RunTypes'
    BY <1>0, <1>3, <2>2, <2>3, <2>4 DEF RunTypes
  <2>6. WorkOf(w)'
    BY <1>0, <1>3, <2>2, <2>3, PassesNat DEF WorkOf, Early, MeasuredPlaces
  <2> QED BY <1>0, <1>3, <2>5, <2>6, OthersWork DEF RunTypes
<1>4. CASE /\ pc' = [pc EXCEPT ![w] = "power"] /\ k' = [k EXCEPT ![w] = 1] /\ k[w] > Passes
           /\ UNCHANGED <<tally, metrics, thread, queue>>
  <2>1. tally[w] = [warm |-> Passes, ok |-> 0]
    BY <1>0, <1>4, PassesNat DEF WorkOf, RunTypes
  <2>2. RunTypes'
    BY <1>0, <1>4 DEF RunTypes, Places
  <2>3. WorkOf(w)'
    BY <1>0, <1>4, <2>1, TpchAssumption DEF WorkOf, RunTypes, Early, MeasuredPlaces
  <2> QED BY <1>0, <1>4, <2>2, <2>3, OthersWork DEF RunTypes
<1> QED BY <1>1, <1>2, <1>3, <1>4 DEF TpchWarmup, TpchWarm, SetIndex, Goto, pool, Passes

\* The timed pass.
LEMMA WorkTpchQuery ==
  ASSUME NEW w \in BenchWorkers, WorkInv, TpchQuery(w) \/ TpchMetrics(w)
  PROVE  WorkInv'
<1>0. /\ WorkOf(w) /\ RunTypes /\ UNCHANGED profile /\ pc[w] = "power"
      /\ UNCHANGED <<thread, queue>>
  BY DEF WorkInv, TpchQuery, TpchMetrics, pool
<1>00. tally[w] = [warm |-> Passes, ok |-> k[w] - 1] /\ k[w] <= Queries + 1
  BY <1>0 DEF WorkOf
<1>1. CASE Finish(w, Penalty("query_failed_or_timeout")) /\ UNCHANGED tally
  BY <1>0, <1>1, PenaltyType, FinishWork DEF RunTypes
<1>2. CASE Finish(w, Metrics(Queries, 0, "none")) /\ UNCHANGED tally /\ k[w] > Queries
  <2>1. k[w] - 1 = Queries
    BY <1>0, <1>00, <1>2, TpchAssumption DEF RunTypes
  <2>2. tally'[w] = [warm |-> Passes, ok |-> Queries]
    BY <1>00, <1>2, <2>1
  <2>3. tally'[w].warm + tally'[w].ok # 0
    BY <2>2, PassesNat, TpchAssumption
  <2>4. Metrics(Queries, 0, "none") \in MetricRecord
    BY TpchAssumption DEF Metrics, MetricRecord, Failures
  <2> QED BY <1>0, <1>2, <2>2, <2>3, <2>4, FinishWork DEF RunTypes
<1>3. CASE /\ pc' = pc /\ k' = [k EXCEPT ![w] = k[w] + 1] /\ k[w] <= Queries
           /\ tally' = [tally EXCEPT ![w].ok = @ + 1] /\ UNCHANGED metrics
  <2>2. tally'[w] = [warm |-> Passes, ok |-> k[w]]
    BY <1>0, <1>3, <1>00 DEF RunTypes
  <2>3. k[w] + 1 \in Nat \ {0} /\ k[w] \in Nat /\ k'[w] = k[w] + 1
    BY <1>0, <1>3 DEF RunTypes
  <2>4. k' \in [BenchWorkers -> Nat \ {0}]
    BY <1>0, <1>3, <2>3 DEF RunTypes
  <2>5. RunTypes'
    BY <1>0, <1>3, <2>2, <2>3, <2>4, PassesNat DEF RunTypes
  <2>6. WorkOf(w)'
    <3>1. k'[w] - 1 = k[w] /\ k'[w] <= Queries + 1
      BY <1>3, <2>3, TpchAssumption
    <3>2. tally'[w] = [warm |-> Passes, ok |-> k'[w] - 1]
      BY <2>2, <3>1
    <3> QED BY <1>0, <1>3, <3>1, <3>2 DEF WorkOf, Early, MeasuredPlaces
  <2> QED BY <1>0, <1>3, <2>5, <2>6, OthersWork DEF RunTypes
<1> QED BY <1>1, <1>2, <1>3 DEF TpchQuery, TpchMetrics, SetIndex

\* The template driver: its threads start with nothing.
LEMMA WorkTemplate ==
  ASSUME NEW w \in BenchWorkers, WorkInv, WarmTemplate(w)
  PROVE  WorkInv'
<1>0. WorkOf(w) /\ RunTypes /\ UNCHANGED profile /\ profile.kind = "template" /\ pc[w] = "run"
  BY DEF WorkInv, WarmTemplate
<1>1. PICK warmup \in BOOLEAN, n \in 0 .. 1 :
        /\ tally' = [tally EXCEPT ![w].warm = n]
        /\ \/ Raise(w)
           \/ /\ pc' = [pc EXCEPT ![w] = IF profile.threads > 1 THEN "threads" ELSE "sequential"]
              /\ thread' = [thread EXCEPT ![w] = [t \in 1 .. profile.threads |->
                                                   [NewThread EXCEPT !.at = "connecting"]]]
              /\ queue' = [queue EXCEPT ![w] = NothingPut]
              /\ UNCHANGED <<k, metrics>>
  BY DEF WarmTemplate, Goto
<1>2. /\ tally' \in [BenchWorkers -> [warm : Nat, ok : Nat]]
      /\ \A v \in BenchWorkers \ {w} : tally'[v] = tally[v]
  <2>1. n \in Nat /\ tally[w] \in [warm : Nat, ok : Nat]
    BY <1>0 DEF RunTypes
  <2>2. [tally[w] EXCEPT !.warm = n] \in [warm : Nat, ok : Nat]
    BY <2>1
  <2> QED BY <1>0, <1>1, <2>2 DEF RunTypes
<1>3. CASE Raise(w)
  BY <1>0, <1>2, <1>3, RaiseWorkTally
<1>4. CASE ~Raise(w)
  <2> DEFINE connecting == [NewThread EXCEPT !.at = "connecting"]
  <2>1. connecting \in ThreadRecord /\ connecting.failed = connecting.total
    BY DEF NewThread, ThreadRecord
  <2> HIDE DEF connecting
  <2>2. thread'[w] = [t \in 1 .. profile.threads |-> connecting] /\ queue'[w] = NothingPut
    BY <1>0, <1>1, <1>4 DEF RunTypes, connecting
  <2>3. thread' \in [BenchWorkers -> [1 .. profile.threads -> ThreadRecord]]
    <3>1. [t \in 1 .. profile.threads |-> connecting] \in [1 .. profile.threads -> ThreadRecord]
      BY <2>1
    <3>2. thread' = [thread EXCEPT ![w] = [t \in 1 .. profile.threads |-> connecting]]
      BY <1>1, <1>4 DEF connecting
    <3> QED BY <1>0, <3>1, <3>2 DEF RunTypes
  <2>4. queue' \in [BenchWorkers -> [total : Nat, failed : Nat]]
    <3>1. NothingPut \in [total : Nat, failed : Nat] /\ queue' = [queue EXCEPT ![w] = NothingPut]
      BY <1>1, <1>4 DEF NothingPut
    <3> QED BY <1>0, <3>1 DEF RunTypes
  <2>5. RunTypes'
    BY <1>0, <1>1, <1>2, <1>4, <2>3, <2>4 DEF RunTypes, Places
  <2>6. Fruitless(w)'
    BY <1>0, <2>1, <2>2 DEF Fruitless, NothingPut
  <2>7. pc'[w] \in {"threads", "sequential"}
    BY <1>0, <1>1, <1>4 DEF RunTypes
  <2>8. WorkOf(w)'
    BY <1>0, <2>6, <2>7 DEF WorkOf, Early, MeasuredPlaces
  <2> QED BY <1>0, <1>1, <1>2, <1>4, <2>5, <2>8, OthersWork DEF RunTypes
<1> QED BY <1>3, <1>4

LEMMA WorkSequential ==
  ASSUME NEW w \in BenchWorkers, WorkInv, RunSequential(w)
  PROVE  WorkInv'
<1>0. WorkOf(w) /\ RunTypes /\ UNCHANGED profile /\ profile.kind = "template"
  BY DEF WorkInv, RunSequential, WorkOf
<1>1. CASE ~Instantiable
  BY <1>0, <1>1, RaiseWork DEF RunSequential
<1>2. CASE Instantiable
  <2>1. PICK ok \in 0 .. RunLength, failed \in 0 .. RunLength :
          /\ tally' = [tally EXCEPT ![w].ok = ok]
          /\ Finish(w, Metrics(ok + failed, failed, "none"))
          /\ thread' = [thread EXCEPT ![w] = NoThreads] /\ UNCHANGED queue
    BY <1>2 DEF RunSequential
  <2>2. RunLength \in Nat /\ ok \in Nat /\ failed \in Nat
    BY TpchAssumption
  <2>3. Metrics(ok + failed, failed, "none") \in MetricRecord
    BY <2>2 DEF Metrics, MetricRecord, Failures
  <2>4. tally[w] \in [warm : Nat, ok : Nat]
    BY <1>0 DEF RunTypes
  <2>5. tally'[w] = [tally[w] EXCEPT !.ok = ok] /\ \A v \in BenchWorkers \ {w} : tally'[v] = tally[v]
    BY <1>0, <2>1 DEF RunTypes
  <2>6. tally' \in [BenchWorkers -> [warm : Nat, ok : Nat]]
    BY <1>0, <2>1, <2>2, <2>4, <2>5 DEF RunTypes
  <2>7. tally'[w].warm + tally'[w].ok = 0 => failed = ok + failed
    BY <2>2, <2>4, <2>5
  <2>8. NoThreads \in [1 .. profile.threads -> ThreadRecord]
    BY DEF NoThreads, NewThread, ThreadRecord
  <2>9. thread' \in [BenchWorkers -> [1 .. profile.threads -> ThreadRecord]]
    BY <1>0, <2>1, <2>8 DEF RunTypes
  <2>10. \A v \in BenchWorkers \ {w} : thread'[v] = thread[v] /\ queue'[v] = queue[v]
    BY <1>0, <2>1 DEF RunTypes
  <2>11. Metrics(ok + failed, failed, "none").total = ok + failed
         /\ Metrics(ok + failed, failed, "none").failed = failed
    BY DEF Metrics
  <2> QED BY <1>0, <2>1, <2>3, <2>5, <2>6, <2>7, <2>9, <2>10, <2>11, FinishWork DEF RunTypes
<1> QED BY <1>1, <1>2

LEMMA WorkStop ==
  ASSUME NEW w \in BenchWorkers, WorkInv, Stop(w)
  PROVE  WorkInv'
<1>0. WorkOf(w) /\ RunTypes
  BY DEF WorkInv
<1>1. /\ pc[w] = "threads" /\ pc' = [pc EXCEPT ![w] = "joining"]
      /\ UNCHANGED <<profile, k, thread, queue, tally, metrics>>
  BY DEF Stop, Goto, running, pool
<1>2. RunTypes'
  BY <1>0, <1>1 DEF RunTypes, Places
<1>3. WorkOf(w)'
  BY <1>0, <1>1 DEF RunTypes, WorkOf, Early, MeasuredPlaces, NothingDone, Fruitless
<1> QED BY <1>0, <1>1, <1>2, <1>3, OthersWork DEF RunTypes

\* The counts of a thread move to the queue.
LEMMA PutCounts ==
  ASSUME NEW w \in BenchWorkers, RunTypes, NEW t \in 1 .. profile.threads, Put(w, t)
  PROVE  /\ thread' \in [BenchWorkers -> [1 .. profile.threads -> ThreadRecord]]
         /\ queue' \in [BenchWorkers -> [total : Nat, failed : Nat]]
         /\ \A v \in BenchWorkers \ {w} : thread'[v] = thread[v] /\ queue'[v] = queue[v]
         /\ queue'[w].total = queue[w].total + thread[w][t].total
         /\ queue'[w].failed = queue[w].failed + thread[w][t].failed
         /\ \A u \in 1 .. profile.threads : thread'[w][u].total = thread[w][u].total
                                          /\ thread'[w][u].failed = thread[w][u].failed
<1>1. thread[w] \in [1 .. profile.threads -> ThreadRecord] /\ thread[w][t] \in ThreadRecord
      /\ queue[w] \in [total : Nat, failed : Nat]
  BY DEF RunTypes
<1> DEFINE end == [thread[w][t] EXCEPT !.at = "put"]
           put == [total |-> queue[w].total + thread[w][t].total,
                   failed |-> queue[w].failed + thread[w][t].failed]
<1>2. end \in ThreadRecord /\ end.total = thread[w][t].total /\ end.failed = thread[w][t].failed
  BY <1>1 DEF ThreadRecord
<1>3. put \in [total : Nat, failed : Nat]
  <2>1. /\ queue[w].total \in Nat /\ queue[w].failed \in Nat
        /\ thread[w][t].total \in Nat /\ thread[w][t].failed \in Nat
    BY <1>1 DEF ThreadRecord
  <2>2. /\ queue[w].total + thread[w][t].total \in Nat
        /\ queue[w].failed + thread[w][t].failed \in Nat
    BY <2>1
  <2> QED BY <2>2
<1>4. thread' = [thread EXCEPT ![w] = [thread[w] EXCEPT ![t] = end]]
  BY DEF Put, RunTypes
<1>5. queue' = [queue EXCEPT ![w] = put]
  BY DEF Put, RunTypes
<1>6. /\ put.total = queue[w].total + thread[w][t].total
      /\ put.failed = queue[w].failed + thread[w][t].failed
  OBVIOUS
<1> HIDE DEF end, put
<1>7. [thread[w] EXCEPT ![t] = end] \in [1 .. profile.threads -> ThreadRecord]
  BY <1>1, <1>2
<1> QED BY <1>1, <1>2, <1>3, <1>4, <1>5, <1>6, <1>7 DEF RunTypes

LEMMA WorkPut ==
  ASSUME NEW w \in BenchWorkers, WorkInv, NEW t \in 1 .. profile.threads, Put(w, t),
         pc[w] \in {"threads", "joining"}, UNCHANGED <<profile, pc, k, tally, metrics>>
  PROVE  WorkInv'
<1>0. WorkOf(w) /\ RunTypes
  BY DEF WorkInv
<1>1. RunTypes'
  BY <1>0, PutCounts DEF RunTypes
<1>2. Fruitless(w) => Fruitless(w)'
  BY <1>0, PutCounts DEF Fruitless
<1>3. WorkOf(w)'
  BY <1>0, <1>2 DEF WorkOf, Early, MeasuredPlaces, NothingDone
<1> QED BY <1>0, <1>1, <1>3, PutCounts, OthersWork

LEMMA WorkThread ==
  ASSUME NEW w \in BenchWorkers, WorkInv, NEW t \in DOMAIN thread[w],
         ThreadConnect(w, t) \/ ThreadQuery(w, t) \/ ThreadPut(w, t)
  PROVE  WorkInv'
<1>0. WorkOf(w) /\ RunTypes /\ t \in 1 .. profile.threads
  BY DEF WorkInv, RunTypes
<1>1. pc[w] \in {"threads", "joining"} /\ UNCHANGED <<profile, pc, k, metrics>>
  BY DEF ThreadConnect, ThreadQuery, ThreadPut, control
<1>2. CASE Put(w, t) /\ UNCHANGED tally
  BY <1>0, <1>1, <1>2, WorkPut
<1> DEFINE old == thread[w][t]
<1>3. old \in ThreadRecord /\ thread[w] \in [1 .. profile.threads -> ThreadRecord]
      /\ tally[w] \in [warm : Nat, ok : Nat]
  BY <1>0 DEF RunTypes
<1>4. ASSUME NEW new \in ThreadRecord, thread' = [thread EXCEPT ![w] = [thread[w] EXCEPT ![t] = new]],
             UNCHANGED queue,
             \/ new.total = old.total /\ new.failed = old.failed /\ UNCHANGED tally
             \/ new.total = old.total + 1 /\ new.failed = old.failed + 1 /\ UNCHANGED tally
             \/ tally' = [tally EXCEPT ![w] = [tally[w] EXCEPT !.ok = tally[w].ok + 1]]
      PROVE  WorkInv'
  <2>1. [thread[w] EXCEPT ![t] = new] \in [1 .. profile.threads -> ThreadRecord]
    BY <1>3, <1>4
  <2>2. thread' \in [BenchWorkers -> [1 .. profile.threads -> ThreadRecord]]
    BY <1>0, <1>4, <2>1 DEF RunTypes
  <2>3. [tally[w] EXCEPT !.ok = tally[w].ok + 1] \in [warm : Nat, ok : Nat]
    BY <1>3
  <2>4. tally' \in [BenchWorkers -> [warm : Nat, ok : Nat]]
    BY <1>0, <1>4, <2>3 DEF RunTypes
  <2>5. RunTypes'
    BY <1>0, <1>1, <1>4, <2>2, <2>4 DEF RunTypes
  <2>6. NothingDone(w)' => Fruitless(w)'
    <3>1. CASE tally' = [tally EXCEPT ![w] = [tally[w] EXCEPT !.ok = tally[w].ok + 1]]
      <4>1. tally'[w] = [tally[w] EXCEPT !.ok = tally[w].ok + 1]
        BY <1>0, <3>1 DEF RunTypes
      <4> QED BY <1>3, <4>1 DEF NothingDone
    <3>2. CASE UNCHANGED tally /\ (new.total - old.total = new.failed - old.failed)
      <4>1. SUFFICES ASSUME NothingDone(w)' PROVE Fruitless(w)'
        OBVIOUS
      <4>2. Fruitless(w)
        BY <1>0, <1>1, <3>2, <4>1 DEF WorkOf, NothingDone
      <4>3. old.failed = old.total
        BY <1>0, <4>2 DEF Fruitless
      <4>4. new.failed = new.total
        BY <1>3, <1>4, <3>2, <4>3 DEF ThreadRecord
      <4>5. thread'[w] = [thread[w] EXCEPT ![t] = new]
        BY <1>0, <1>4 DEF RunTypes
      <4>6. ASSUME NEW u \in 1 .. profile.threads PROVE thread'[w][u].failed = thread'[w][u].total
        BY <1>3, <4>2, <4>4, <4>5 DEF Fruitless
      <4> QED BY <1>1, <1>4, <4>2, <4>6 DEF Fruitless
    <3>3. \/ tally' = [tally EXCEPT ![w] = [tally[w] EXCEPT !.ok = tally[w].ok + 1]]
          \/ UNCHANGED tally /\ (new.total - old.total = new.failed - old.failed)
      <4>1. old.total \in Nat /\ old.failed \in Nat /\ new.total \in Nat /\ new.failed \in Nat
        BY <1>3, <1>4 DEF ThreadRecord
      <4> QED BY <1>4, <4>1
    <3> QED BY <3>1, <3>2, <3>3
  <2>7. WorkOf(w)'
    BY <1>0, <1>1, <2>6 DEF WorkOf, Early, MeasuredPlaces
  <2>8. \A v \in BenchWorkers \ {w} : thread'[v] = thread[v] /\ tally'[v] = tally[v]
    BY <1>0, <1>4 DEF RunTypes
  <2> QED BY <1>1, <1>4, <2>5, <2>7, <2>8, OthersWork
<1> HIDE DEF old
<1>5. old.total + 1 \in Nat /\ old.failed + 1 \in Nat
  BY <1>3 DEF ThreadRecord
<1>6. CASE thread' = [thread EXCEPT ![w][t].at = "running"] /\ UNCHANGED <<queue, tally>>
  <2> DEFINE new == [old EXCEPT !.at = "running"]
  <2>1. new \in ThreadRecord /\ new.total = old.total /\ new.failed = old.failed
    BY <1>3 DEF ThreadRecord
  <2>2. thread' = [thread EXCEPT ![w] = [thread[w] EXCEPT ![t] = new]]
    BY <1>6 DEF old
  <2> HIDE DEF new
  <2> QED BY <1>4, <1>6, <2>1, <2>2
<1>7. CASE /\ thread' = [thread EXCEPT ![w][t].total = @ + 1]
           /\ tally' = [tally EXCEPT ![w].ok = @ + 1] /\ UNCHANGED queue
  <2> DEFINE new == [old EXCEPT !.total = old.total + 1]
  <2>1. new \in ThreadRecord
    BY <1>3, <1>5 DEF ThreadRecord
  <2>2. thread' = [thread EXCEPT ![w] = [thread[w] EXCEPT ![t] = new]]
    BY <1>7 DEF old
  <2>3. tally' = [tally EXCEPT ![w] = [tally[w] EXCEPT !.ok = tally[w].ok + 1]]
    BY <1>7
  <2> HIDE DEF new
  <2> QED BY <1>4, <1>7, <2>1, <2>2, <2>3
<1>8. CASE /\ thread' = [thread EXCEPT ![w][t].total = @ + 1, ![w][t].failed = @ + 1]
           /\ UNCHANGED <<queue, tally>>
  <2> DEFINE new == [old EXCEPT !.total = old.total + 1, !.failed = old.failed + 1]
  <2>1. new \in ThreadRecord /\ new.total = old.total + 1 /\ new.failed = old.failed + 1
    BY <1>3, <1>5 DEF ThreadRecord
  <2>2. thread' = [thread EXCEPT ![w] = [thread[w] EXCEPT ![t] = new]]
    <3>1. thread' = [thread EXCEPT ![w] = [[thread[w] EXCEPT ![t] = [old EXCEPT !.total = old.total + 1]]
                                             EXCEPT ![t].failed = @ + 1]]
      BY <1>0, <1>8 DEF old, RunTypes
    <3>2. [[thread[w] EXCEPT ![t] = [old EXCEPT !.total = old.total + 1]] EXCEPT ![t].failed = @ + 1]
            = [thread[w] EXCEPT ![t] = new]
      BY <1>0, <1>3 DEF ThreadRecord
    <3> QED BY <3>1, <3>2
  <2> HIDE DEF new
  <2> QED BY <1>4, <1>8, <2>1, <2>2
<1>9. ThreadPut(w, t) => Put(w, t) /\ UNCHANGED tally
  BY DEF ThreadPut
<1>10. ThreadConnect(w, t) => \/ Put(w, t) /\ UNCHANGED tally
                              \/ /\ thread' = [thread EXCEPT ![w][t].at = "running"]
                                 /\ UNCHANGED <<queue, tally>>
  BY DEF ThreadConnect
<1>11. ThreadQuery(w, t) =>
          \/ /\ thread' = [thread EXCEPT ![w][t].total = @ + 1]
             /\ tally' = [tally EXCEPT ![w].ok = @ + 1] /\ UNCHANGED queue
          \/ /\ thread' = [thread EXCEPT ![w][t].total = @ + 1, ![w][t].failed = @ + 1]
             /\ UNCHANGED <<queue, tally>>
  BY DEF ThreadQuery
<1> QED BY <1>2, <1>6, <1>7, <1>8, <1>9, <1>10, <1>11

LEMMA WorkJoin ==
  ASSUME NEW w \in BenchWorkers, WorkInv, Join(w)
  PROVE  WorkInv'
<1>0. WorkOf(w) /\ RunTypes /\ UNCHANGED <<profile, tally>> /\ pc[w] = "joining"
  BY DEF WorkInv, Join
<1>1. Aggregate(queue[w]) \in MetricRecord /\ Aggregate(queue[w]).failure = "none"
      /\ Aggregate(queue[w]).failed = queue[w].failed /\ Aggregate(queue[w]).total = queue[w].total
  <2>1. queue[w].failed \in Nat /\ queue[w].total \in Nat
    BY <1>0 DEF RunTypes
  <2> QED BY <2>1 DEF Aggregate, Metrics, MetricRecord, Failures
<1>2. profile.kind = "template" /\ (NothingDone(w) => queue[w].failed = queue[w].total)
  BY <1>0 DEF WorkOf, Fruitless
<1>3. Finish(w, Aggregate(queue[w]))
  BY DEF Join
<1>4. NoThreads \in [1 .. profile.threads -> ThreadRecord] /\ NothingPut \in [total : Nat, failed : Nat]
  BY DEF NoThreads, NewThread, ThreadRecord, NothingPut
<1>5. /\ thread' = [thread EXCEPT ![w] = NoThreads] /\ queue' = [queue EXCEPT ![w] = NothingPut]
  BY DEF Join
<1>6. /\ thread' \in [BenchWorkers -> [1 .. profile.threads -> ThreadRecord]]
      /\ queue' \in [BenchWorkers -> [total : Nat, failed : Nat]]
      /\ \A v \in BenchWorkers \ {w} : thread'[v] = thread[v] /\ queue'[v] = queue[v]
  BY <1>0, <1>4, <1>5 DEF RunTypes
<1>7. tally'[w].warm + tally'[w].ok = 0 => queue[w].failed = queue[w].total
  BY <1>0, <1>2 DEF NothingDone
<1>8. /\ tally' \in [BenchWorkers -> [warm : Nat, ok : Nat]]
      /\ \A v \in BenchWorkers \ {w} : tally'[v] = tally[v]
  BY <1>0 DEF RunTypes
<1>9. profile.kind # "tpch"
  BY <1>2
<1> HIDE DEF Aggregate
<1> QED BY <1>0, <1>1, <1>3, <1>6, <1>7, <1>8, <1>9, FinishWork

\* The end of an evaluation: the gate.
LEMMA WorkAfter ==
  ASSUME NEW w \in BenchWorkers, WorkInv, CaptureAfter(w) \/ VacuumAfterDml(w)
  PROVE  WorkInv'
<1>0. WorkOf(w) /\ RunTypes
  BY DEF WorkInv
<1>1. /\ UNCHANGED <<profile, k, thread, queue, tally, metrics>>
      /\ \/ pc[w] = "measured" /\ pc' = [pc EXCEPT ![w] = "collected"]
         \/ pc[w] = "maintenance" /\ pc' = [pc EXCEPT ![w] = "idle"]
  BY DEF CaptureAfter, VacuumAfterDml, Goto, running, pool
<1>2. RunTypes'
  BY <1>0, <1>1 DEF RunTypes, Places, MeasuredPlaces
<1>3. WorkOf(w)'
  BY <1>0, <1>1 DEF RunTypes, WorkOf, Early, MeasuredPlaces, NothingDone
<1> QED BY <1>0, <1>1, <1>2, <1>3, OthersWork DEF RunTypes

LEMMA WorkReliability ==
  ASSUME NEW w \in BenchWorkers, WorkInv, ReliabilityGate(w)
  PROVE  WorkInv'
<1>0. WorkOf(w) /\ RunTypes
  BY DEF WorkInv
<1>1. /\ UNCHANGED <<profile, k, thread, queue, tally>>
      /\ pc[w] = "collected" /\ pc' = [pc EXCEPT ![w] = "maintenance"]
      /\ metrics' = [metrics EXCEPT ![w] = Gate(metrics[w])]
  BY DEF ReliabilityGate, Goto, pool
<1>2. metrics[w] \in MetricRecord
  BY <1>0 DEF RunTypes
<1>3. metrics'[w] = Gate(metrics[w]) /\ Gate(metrics[w]) \in MetricRecord
  BY <1>0, <1>1, <1>2, WorkGate DEF RunTypes
<1>4. metrics'[w].failure = "none" => metrics[w].failure = "none" /\ metrics[w].failed # metrics[w].total
  BY <1>2, <1>3, WorkGate
<1>5. RunTypes'
  BY <1>0, <1>1, <1>3 DEF RunTypes, Places
<1>6. WorkOf(w)'
  BY <1>0, <1>1, <1>4 DEF RunTypes, WorkOf, Early, MeasuredPlaces, NothingDone
<1> QED BY <1>0, <1>1, <1>5, <1>6, OthersWork DEF RunTypes

LEMMA WorkSession ==
  ASSUME NEW p \in Profiles, WorkInv, NextSession(p)
  PROVE  WorkInv'
<1> USE DEF NextSession
<1>1. [t \in 1 .. p.threads |-> NewThread] \in [1 .. p.threads -> ThreadRecord]
  BY DEF NewThread, ThreadRecord
<1>2. NoMetrics \in MetricRecord /\ NothingPut \in [total : Nat, failed : Nat]
  BY DEF NoMetrics, Metrics, MetricRecord, Failures, NothingPut
<1>3. RunTypes'
  BY <1>1, <1>2, NoTallyType DEF RunTypes, Places, Early
<1>4. ASSUME NEW w \in BenchWorkers PROVE WorkOf(w)'
  BY DEF WorkOf, Early, MeasuredPlaces
<1> QED BY <1>3, <1>4 DEF WorkInv

LEMMA WorkNext == WorkInv /\ [BenchNext]_benchVars => WorkInv'
<1> SUFFICES ASSUME WorkInv, [BenchNext]_benchVars PROVE WorkInv'
  OBVIOUS
<1>1. CASE UNCHANGED benchVars
  BY <1>1 DEF benchVars, control, running, pool, WorkInv, RunTypes, WorkOf, NothingDone, Fruitless
<1>2. CASE \E p \in Profiles : NextSession(p)
  BY <1>2, WorkSession
<1>3. ASSUME NEW w \in BenchWorkers,
             \/ Preparing(w) \/ BeginEvaluation(w) \/ RunSysbench(w)
             \/ TpchConnect(w) \/ TpchWarmup(w) \/ TpchWarm(w) \/ TpchQuery(w) \/ TpchMetrics(w)
             \/ WarmTemplate(w) \/ RunSequential(w) \/ Stop(w) \/ Join(w)
             \/ CaptureAfter(w) \/ ReliabilityGate(w) \/ VacuumAfterDml(w)
      PROVE  WorkInv'
  BY <1>3, WorkPreparing, WorkBegin, WorkSysbench, WorkTpchConnect, WorkTpchWarmup, WorkTpchQuery,
     WorkTemplate, WorkSequential, WorkStop, WorkJoin, WorkAfter, WorkReliability
<1>4. ASSUME NEW w \in BenchWorkers, NEW t \in DOMAIN thread[w],
             ThreadConnect(w, t) \/ ThreadQuery(w, t) \/ ThreadPut(w, t)
      PROVE  WorkInv'
  BY <1>4, WorkThread
<1> QED BY <1>1, <1>2, <1>3, <1>4 DEF BenchNext, Preparing

LEMMA WorkEarns == WorkInv => HealthyIsEarned
BY DEF WorkInv, RunTypes, WorkOf, HealthyIsEarned, HealthyMeansAllQueries, NothingDoneIsGated, PassesGate,
       NothingDone, Passes

\* An evaluation that passes the gate has done its work: every query of TPC-H, some query
\* of the others.
THEOREM HealthIsEarned == BenchSpec => []HealthyIsEarned
<1>1. BenchInit => WorkInv
  BY WorkInit
<1>2. WorkInv /\ [BenchNext]_benchVars => WorkInv'
  BY WorkNext
<1> QED BY <1>1, <1>2, WorkEarns, PTL DEF BenchSpec
-----------------------------------------------------------------------------
(* What is in a database that validates.                                   *)

LoadsTpch == {"dbgen", "generate", "write", "close", "schema", "copy", "indexes", "stamp", "insert"}
LoadsSbtest == {"create", "fill", "vacuum"}
Loads == LoadsTpch \cup LoadsSbtest \cup {"drop"}
TpchRange == 1 .. Len(TpchTables)

\* The files that are there are whole, and of scale factor s.
FilesOf(s) ==
    \A i \in TpchRange : Table(i) \in DOMAIN flat => flat[Table(i)].size = s /\ flat[Table(i)].whole

OpenedBelow(n) == \A i \in TpchRange : Table(i) \in DOMAIN flat => i < n
ClosedBelow(n) ==
    \A i \in TpchRange : Table(i) \in DOMAIN flat /\ i < n =>
        flat[Table(i)].size = profile.size /\ flat[Table(i)].whole

HasSchema(w) == \A i \in TpchRange : Table(i) \in DOMAIN tables[w]
LoadedBelow(w, n) == \A i \in TpchRange : i < n => tables[w][Table(i)] = Whole(profile.size)
AllLoaded(w) == HasSchema(w) /\ LoadedBelow(w, Len(TpchTables) + 1)

\* A stamp with a row in it is true of every table.
StampInv(w) ==
    Metadata \in DOMAIN tables[w] /\ tables[w][Metadata] # Empty =>
        \A i \in TpchRange : /\ Table(i) \in DOMAIN tables[w]
                             /\ tables[w][Table(i)] = tables[w][Metadata]

FilesInv(w) ==
    /\ \A s \in markers : FilesOf(s)
    /\ pc[w] \in {"drop", "schema", "copy"} /\ profile.kind = "tpch" => FilesOf(profile.size)
    /\ pc[w] = "write" => markers = {} /\ FilesOf(profile.size) /\ OpenedBelow(k[w])
    /\ pc[w] = "close" =>
          /\ markers = {} /\ k[w] \in TpchRange
          /\ OpenedBelow(k[w] + 1) /\ ClosedBelow(k[w])
          /\ Table(k[w]) \in DOMAIN flat
          /\ flat[Table(k[w])] = [size |-> profile.size, whole |-> FALSE, by |-> w]

CopyInv(w) ==
    /\ pc[w] \in {"schema", "copy", "indexes", "stamp"} => Metadata \notin DOMAIN tables[w]
    /\ pc[w] = "copy" => HasSchema(w) /\ LoadedBelow(w, k[w])
    /\ pc[w] \in {"indexes", "stamp", "insert"} => AllLoaded(w)
    /\ pc[w] = "insert" => Metadata \in DOMAIN tables[w] /\ tables[w][Metadata] = Empty

PlaceInv(w) ==
    /\ pc[w] \in LoadsTpch => profile.kind = "tpch"
    /\ pc[w] \in LoadsSbtest => profile.kind # "tpch"
    /\ pc[w] = "run" /\ profile.kind # "template" => Valid(w)

DataOf(w) == PlaceInv(w) /\ StampInv(w) /\ FilesInv(w) /\ CopyInv(w)

DataInv ==
    /\ tables = [w \in BenchWorkers |-> tables[w]]
    /\ \A w \in BenchWorkers : DataOf(w)

\* dbgen's directory is shared: one worker at a time.
OneWorker == \A v, w \in BenchWorkers : v = w
-----------------------------------------------------------------------------
LEMMA TableNames ==
  ASSUME NEW i \in TpchRange
  PROVE  /\ Table(i) # Metadata
         /\ \A n : Table(i) # <<"sbtest", n>>
         /\ \A j \in TpchRange : Table(i) = Table(j) => i = j
<1>1. TpchTables[i][1] # "sbtest" /\ TpchTables[i][1] # "_tpch_metadata"
  BY TpchAssumption DEF TpchRange
<1>2. Table(i) # Metadata /\ \A n : Table(i) # <<"sbtest", n>>
  BY <1>1 DEF Table, Metadata
<1>3. DOMAIN TpchTables = TpchRange
  BY TpchAssumption DEF TpchRange
<1> QED BY <1>2, <1>3, TpchAssumption DEF Table, IsInjective

LEMMA OnlyWorker ==
  ASSUME OneWorker, NEW w \in BenchWorkers, tables' = [v \in BenchWorkers |-> tables'[v]], DataOf(w)'
  PROVE  DataInv'
BY DEF OneWorker, DataInv

\* A step that changes no data and is not in a prepare.
LEMMA CalmData ==
  ASSUME OneWorker, DataInv, NEW w \in BenchWorkers, UNCHANGED data, pc'[w] \notin Loads,
         pc'[w] = "run" /\ profile'.kind # "template" => Valid(w)'
  PROVE  DataInv'
<1>1. DataOf(w) /\ tables' = [v \in BenchWorkers |-> tables'[v]]
  BY DEF DataInv, data
<1>2. PlaceInv(w)'
  BY DEF PlaceInv, Loads
<1>3. StampInv(w)'
  BY <1>1 DEF DataOf, StampInv, data
<1>4. FilesInv(w)'
  BY <1>1 DEF DataOf, FilesInv, FilesOf, Loads, LoadsTpch, data
<1>5. CopyInv(w)'
  BY DEF CopyInv, Loads, LoadsTpch
<1> QED BY <1>1, <1>2, <1>3, <1>4, <1>5, OnlyWorker DEF DataOf

LEMMA RaiseData ==
  ASSUME OneWorker, RunTypes, DataInv, NEW w \in BenchWorkers, UNCHANGED data, Raise(w)
  PROVE  DataInv'
<1>1. pc'[w] \in {"idle", "failed"}
  BY DEF Raise, Goto, RunTypes
<1> QED BY <1>1, CalmData DEF Loads, LoadsTpch, LoadsSbtest

\* Steps with which the prepare goes on, the data unchanged.
LEMMA PrepareData ==
  ASSUME OneWorker, RunTypes, DataInv, NEW w \in BenchWorkers,
         \/ InitializeSchema(w) \/ EnsureReady(w) \/ Revalidate(w)
         \/ FindDbgen(w) \/ GenerateData(w) \/ BuildIndexes(w) \/ PostVacuum(w)
         \/ SysbenchPrepareFails(w) \/ DbgenFails(w)
  PROVE  DataInv'
<1>0. DataOf(w) /\ tables = [v \in BenchWorkers |-> tables[v]]
  BY DEF DataInv
<1>1. ASSUME UNCHANGED <<profile, data>>,
             \/ pc'[w] = "dbgen" /\ profile.kind = "tpch"
             \/ pc'[w] = "drop" /\ profile.kind # "tpch"
             \/ pc'[w] = "generate" /\ pc[w] = "dbgen"
      PROVE  DataInv'
  <2>1. PlaceInv(w)' /\ CopyInv(w)'
    BY <1>0, <1>1 DEF DataOf, PlaceInv, CopyInv, LoadsTpch, LoadsSbtest
  <2>2. StampInv(w)' /\ FilesInv(w)'
    BY <1>0, <1>1 DEF DataOf, StampInv, FilesInv, FilesOf, data
  <2> QED BY <1>0, <1>1, <2>1, <2>2, OnlyWorker DEF DataOf, data
<1>2. ASSUME UNCHANGED <<profile, data>>, pc'[w] \in {"idle", "validating", "revalidate"}
      PROVE  DataInv'
  BY <1>2, CalmData DEF Loads, LoadsTpch, LoadsSbtest
<1>3. ASSUME UNCHANGED <<profile, data>>, pc'[w] = "run", Valid(w)
      PROVE  DataInv'
  <2>1. Valid(w)'
    BY <1>3 DEF Valid, SysbenchValid, TpchValid, TemplateValid, data
  <2> QED BY <1>3, <2>1, CalmData DEF Loads, LoadsTpch, LoadsSbtest
<1> USE DEF Goto, RunTypes
<1>4. CASE InitializeSchema(w)
  BY <1>1, <1>2, <1>4 DEF InitializeSchema
<1>5. CASE EnsureReady(w)
  BY <1>1, <1>2, <1>3, <1>5 DEF EnsureReady
<1>6. CASE Revalidate(w)
  BY <1>3, <1>6, RaiseData DEF Revalidate
<1>7. CASE FindDbgen(w)
  BY <1>1, <1>7, RaiseData DEF FindDbgen
<1>8. CASE PostVacuum(w)
  BY <1>2, <1>8 DEF PostVacuum, Prepared
<1>9. CASE SysbenchPrepareFails(w) \/ DbgenFails(w)
  BY <1>9, RaiseData DEF SysbenchPrepareFails, DbgenFails
<1>10. CASE BuildIndexes(w)
  <2>1. pc[w] = "indexes" /\ pc'[w] = "stamp" /\ UNCHANGED <<profile, data>>
    BY <1>10 DEF BuildIndexes
  <2>2. PlaceInv(w)' /\ CopyInv(w)'
    BY <1>0, <2>1 DEF DataOf, PlaceInv, CopyInv, LoadsTpch, LoadsSbtest, AllLoaded, HasSchema,
                      LoadedBelow, data
  <2>3. StampInv(w)' /\ FilesInv(w)'
    BY <1>0, <2>1 DEF DataOf, StampInv, FilesInv, FilesOf, data
  <2> QED BY <1>0, <2>1, <2>2, <2>3, OnlyWorker DEF DataOf, data
<1>11. CASE GenerateData(w)
  <2>1. /\ pc[w] = "generate" /\ UNCHANGED <<profile, tables>> /\ k'[w] = 1
        /\ \/ profile.size \in markers /\ pc'[w] = "drop" /\ UNCHANGED <<flat, markers>>
           \/ pc'[w] = "write" /\ flat' = NoTables /\ markers' = {}
    BY <1>11 DEF GenerateData, SetIndex
  <2>2. profile.kind = "tpch"
    BY <1>0, <2>1 DEF DataOf, PlaceInv, LoadsTpch
  <2>3. PlaceInv(w)' /\ CopyInv(w)' /\ StampInv(w)'
    BY <1>0, <2>1, <2>2 DEF DataOf, PlaceInv, CopyInv, StampInv, LoadsTpch, LoadsSbtest
  <2>4. CASE profile.size \in markers /\ pc'[w] = "drop" /\ UNCHANGED <<flat, markers>>
    <3>1. FilesInv(w)'
      BY <1>0, <2>1, <2>4 DEF DataOf, FilesInv, FilesOf
    <3> QED BY <1>0, <2>1, <2>3, <3>1, OnlyWorker DEF DataOf
  <2>5. CASE pc'[w] = "write" /\ flat' = NoTables /\ markers' = {}
    <3>1. DOMAIN flat' = {}
      BY <2>5 DEF NoTables
    <3>2. FilesInv(w)'
      BY <2>1, <2>5, <3>1 DEF FilesInv, FilesOf, OpenedBelow
    <3> QED BY <1>0, <2>1, <2>3, <3>2, OnlyWorker DEF DataOf
  <2> QED BY <2>1, <2>4, <2>5
<1> QED BY <1>4, <1>5, <1>6, <1>7, <1>8, <1>9, <1>10, <1>11

\* The files of another step do not matter to one that only touches tables.
LEMMA SameFiles ==
  ASSUME NEW w \in BenchWorkers, FilesInv(w), UNCHANGED <<profile, flat, markers>>,
         pc'[w] \notin {"write", "close"},
         pc'[w] \in {"drop", "schema", "copy"} =>
             pc[w] \in {"drop", "schema", "copy"} \/ profile.kind # "tpch"
  PROVE  FilesInv(w)'
BY DEF FilesInv, FilesOf

LEMMA TablesStep ==
  ASSUME DataInv, NEW w \in BenchWorkers, NEW new, tables' = [tables EXCEPT ![w] = new]
  PROVE  tables'[w] = new /\ tables' = [v \in BenchWorkers |-> tables'[v]]
BY DEF DataInv

\* sysbench prepare: its tables are not those of TPC-H.
LEMMA SbtestData ==
  ASSUME OneWorker, RunTypes, DataInv, NEW w \in BenchWorkers,
         DropTables(w) \/ SysbenchCreate(w) \/ SysbenchFill(w)
  PROVE  DataInv'
<1>0. DataOf(w) /\ tables = [v \in BenchWorkers |-> tables[v]] /\ UNCHANGED <<profile, flat, markers>>
  BY DEF DataInv, DropTables, SysbenchCreate, SysbenchFill
<1> USE DEF Goto, RunTypes
<1>1. CASE DropTables(w)
  <2> DEFINE kept == IF profile.kind = "template" THEN DOMAIN tables[w] \ Sbtest(profile.tables) ELSE {}
  <2>1. tables' = [tables EXCEPT ![w] = [t \in kept |-> tables[w][t]]]
    BY <1>1 DEF DropTables
  <2>2. /\ tables'[w] = [t \in kept |-> tables[w][t]] /\ tables' = [v \in BenchWorkers |-> tables'[v]]
    BY <2>1, TablesStep
  <2>3. pc[w] = "drop" /\ pc'[w] = IF profile.kind = "tpch" THEN "schema" ELSE "create"
    BY <1>1 DEF DropTables
  <2>4. DOMAIN tables'[w] = kept /\ \A t \in kept : tables'[w][t] = tables[w][t]
    BY <2>2
  <2>5. StampInv(w)'
    <3>1. SUFFICES ASSUME Metadata \in kept, tables'[w][Metadata] # Empty, NEW i \in TpchRange
                   PROVE  Table(i) \in kept /\ tables'[w][Table(i)] = tables'[w][Metadata]
      BY <2>4 DEF StampInv
    <3>2. /\ profile.kind = "template" /\ Metadata \in DOMAIN tables[w]
          /\ tables'[w][Metadata] = tables[w][Metadata]
      BY <2>4, <3>1
    <3>3. Table(i) \in DOMAIN tables[w] /\ tables[w][Table(i)] = tables[w][Metadata]
      BY <1>0, <3>1, <3>2 DEF DataOf, StampInv
    <3>4. Table(i) \notin Sbtest(profile.tables)
      BY TableNames DEF Sbtest
    <3>5. Table(i) \in kept
      BY <3>2, <3>3, <3>4
    <3> QED BY <2>4, <3>2, <3>3, <3>5
  <2>6. PlaceInv(w)' /\ FilesInv(w)'
    BY <1>0, <2>3, SameFiles DEF PlaceInv, DataOf, LoadsTpch, LoadsSbtest
  <2>7. CopyInv(w)'
    BY <2>3, <2>4 DEF CopyInv
  <2> QED BY <2>2, <2>5, <2>6, <2>7, OnlyWorker DEF DataOf
<1>2. ASSUME pc[w] \in LoadsSbtest, pc'[w] \in LoadsSbtest, NEW n,
             tables' = [v \in BenchWorkers |-> tables'[v]],
             DOMAIN tables'[w] \subseteq DOMAIN tables[w] \cup {<<"sbtest", n>>},
             DOMAIN tables[w] \subseteq DOMAIN tables'[w],
             \A t \in DOMAIN tables[w] : t # <<"sbtest", n>> => tables'[w][t] = tables[w][t]
      PROVE  DataInv'
  <2>1. Metadata # <<"sbtest", n>>
    BY DEF Metadata
  <2>2. StampInv(w)'
    <3>1. SUFFICES ASSUME Metadata \in DOMAIN tables'[w], tables'[w][Metadata] # Empty, NEW i \in TpchRange
                   PROVE  Table(i) \in DOMAIN tables'[w] /\ tables'[w][Table(i)] = tables'[w][Metadata]
      BY DEF StampInv
    <3>2. Table(i) \in DOMAIN tables[w] /\ tables[w][Table(i)] = tables[w][Metadata]
      BY <1>0, <1>2, <2>1, <3>1 DEF DataOf, StampInv
    <3>3. Table(i) # <<"sbtest", n>>
      BY TableNames
    <3>4. tables'[w][Metadata] = tables[w][Metadata]
      BY <1>2, <2>1, <3>1
    <3> QED BY <1>2, <3>2, <3>3, <3>4
  <2>3. PlaceInv(w)' /\ FilesInv(w)' /\ CopyInv(w)'
    BY <1>0, <1>2, SameFiles DEF DataOf, PlaceInv, CopyInv, LoadsTpch, LoadsSbtest
  <2> QED BY <1>2, <2>2, <2>3, OnlyWorker DEF DataOf
<1>3. CASE SysbenchCreate(w)
  <2> DEFINE t == <<"sbtest", k[w]>>
             new == [u \in DOMAIN tables[w] \cup {t} |-> IF u \in {t} THEN Empty ELSE tables[w][u]]
  <2>1. tables' = [tables EXCEPT ![w] = new] /\ pc[w] = "create" /\ pc'[w] = "fill"
    BY <1>3 DEF SysbenchCreate, Created
  <2>2. DOMAIN new = DOMAIN tables[w] \cup {t} /\ \A u \in DOMAIN tables[w] : u # t => new[u] = tables[w][u]
    OBVIOUS
  <2>6. tables'[w] = new /\ tables' = [v \in BenchWorkers |-> tables'[v]]
    <3> HIDE DEF new
    <3> QED BY <2>1, TablesStep
  <2> QED BY <1>2, <2>1, <2>2, <2>6 DEF LoadsSbtest
<1>4. CASE SysbenchFill(w)
  <2> DEFINE t == <<"sbtest", k[w]>>
             new == [tables[w] EXCEPT ![t] = Whole(profile.size)]
  <2>1. tables' = [tables EXCEPT ![w] = new] /\ pc[w] = "fill" /\ pc'[w] \in {"create", "vacuum"}
    BY <1>4 DEF SysbenchFill
  <2>2. DOMAIN new = DOMAIN tables[w] /\ \A u \in DOMAIN tables[w] : u # t => new[u] = tables[w][u]
    OBVIOUS
  <2>3. tables'[w] = new /\ tables' = [v \in BenchWorkers |-> tables'[v]]
    <3> HIDE DEF new
    <3> QED BY <2>1, TablesStep
  <2>4. /\ DOMAIN tables'[w] = DOMAIN tables[w]
        /\ \A u \in DOMAIN tables[w] : u # t => tables'[w][u] = tables[w][u]
    <3> HIDE DEF new
    <3> QED BY <2>2, <2>3
  <2> QED BY <1>2, <2>1, <2>3, <2>4 DEF LoadsSbtest
<1> QED BY <1>1, <1>3, <1>4

\* dbgen: the marker comes after the last file is closed.
LEMMA DbgenData ==
  ASSUME OneWorker, RunTypes, DataInv, NEW w \in BenchWorkers,
         DbgenOpen(w) \/ DbgenClose(w) \/ DbgenExits(w)
  PROVE  DataInv'
<1>0. DataOf(w) /\ tables = [v \in BenchWorkers |-> tables[v]] /\ UNCHANGED <<profile, tables>>
  BY DEF DataInv, DbgenOpen, DbgenClose, DbgenExits
<1>00. Len(TpchTables) \in Nat /\ k[w] \in Nat \ {0}
  BY TpchAssumption DEF RunTypes
<1> DEFINE file == [size |-> profile.size, whole |-> FALSE, by |-> w]
<1>1. ASSUME pc[w] \in {"write", "close"}, pc'[w] \in {"write", "close", "drop"}, FilesInv(w)'
      PROVE  DataInv'
  <2>1. PlaceInv(w)' /\ CopyInv(w)' /\ StampInv(w)'
    BY <1>0, <1>1 DEF DataOf, PlaceInv, CopyInv, StampInv, LoadsTpch, LoadsSbtest
  <2> QED BY <1>0, <1>1, <2>1, OnlyWorker DEF DataOf
<1>2. CASE DbgenOpen(w)
  <2>1. /\ pc[w] = "write" /\ k[w] \in TpchRange /\ pc'[w] = "close" /\ k' = k /\ markers' = markers
        /\ flat' = [t \in DOMAIN flat \cup {Table(k[w])} |-> IF t = Table(k[w]) THEN file ELSE flat[t]]
    BY <1>2, <1>00 DEF DbgenOpen, Goto, RunTypes, TpchRange
  <2>2. markers = {} /\ FilesOf(profile.size) /\ OpenedBelow(k[w])
    BY <1>0, <2>1 DEF DataOf, FilesInv
  <2> HIDE DEF file
  <2>3. DOMAIN flat' = DOMAIN flat \cup {Table(k[w])} /\ flat'[Table(k[w])] = file
    BY <2>1
  <2>4. ASSUME NEW i \in TpchRange, i # k[w]
        PROVE  Table(i) \in DOMAIN flat' => Table(i) \in DOMAIN flat /\ flat'[Table(i)] = flat[Table(i)]
    <3>1. Table(i) # Table(k[w])
      BY <2>1, <2>4, TableNames
    <3> QED BY <2>1, <3>1
  <2>5. OpenedBelow(k[w] + 1)' /\ ClosedBelow(k[w])'
    <3>1. ASSUME NEW i \in TpchRange, Table(i) \in DOMAIN flat' PROVE i < k[w] + 1
      BY <1>00, <2>2, <2>4, <3>1 DEF OpenedBelow, TpchRange
    <3>2. ASSUME NEW i \in TpchRange, Table(i) \in DOMAIN flat', i < k[w]
          PROVE  flat'[Table(i)].size = profile.size /\ flat'[Table(i)].whole
      <4>1. i # k[w]
        BY <1>00, <3>2 DEF TpchRange
      <4> QED BY <2>2, <2>4, <3>2, <4>1 DEF FilesOf
    <3> QED BY <1>0, <2>1, <3>1, <3>2 DEF OpenedBelow, ClosedBelow
  <2>6. FilesInv(w)'
    BY <1>0, <2>1, <2>2, <2>3, <2>5 DEF FilesInv, OpenedBelow, ClosedBelow, file
  <2> QED BY <1>1, <2>1, <2>6
<1>3. CASE DbgenClose(w)
  <2>1. /\ pc[w] = "close" /\ pc'[w] = "write" /\ k'[w] = k[w] + 1 /\ markers' = markers
        /\ flat' = IF Table(k[w]) \in DOMAIN flat /\ flat[Table(k[w])].by = w
                   THEN [flat EXCEPT ![Table(k[w])].whole = TRUE] ELSE flat
    BY <1>3 DEF DbgenClose, Goto, SetIndex, RunTypes
  <2>2. /\ markers = {} /\ k[w] \in TpchRange
        /\ OpenedBelow(k[w] + 1) /\ ClosedBelow(k[w])
        /\ Table(k[w]) \in DOMAIN flat
        /\ flat[Table(k[w])] = file
    BY <1>0, <2>1 DEF DataOf, FilesInv
  <2>3. flat' = [flat EXCEPT ![Table(k[w])] = [file EXCEPT !.whole = TRUE]]
    BY <2>1, <2>2
  <2>4. flat'[Table(k[w])].size = profile.size /\ flat'[Table(k[w])].whole
    BY <2>2, <2>3
  <2> HIDE DEF file
  <2>5. DOMAIN flat' = DOMAIN flat /\ \A t \in DOMAIN flat : t # Table(k[w]) => flat'[t] = flat[t]
    BY <2>3
  <2>6. FilesOf(profile.size)'
    <3>1. SUFFICES ASSUME NEW i \in TpchRange, Table(i) \in DOMAIN flat
                   PROVE  flat'[Table(i)].size = profile.size /\ flat'[Table(i)].whole
      BY <1>0, <2>5 DEF FilesOf
    <3>2. CASE i = k[w]
      BY <2>4, <3>2
    <3>3. CASE i # k[w]
      <4>1. i < k[w]
        BY <1>00, <2>2, <3>1, <3>3 DEF OpenedBelow, TpchRange
      <4>2. Table(i) # Table(k[w])
        BY <2>2, <3>3, TableNames
      <4> QED BY <2>2, <2>5, <3>1, <4>1, <4>2 DEF ClosedBelow
    <3> QED BY <3>2, <3>3
  <2>7. FilesInv(w)'
    BY <1>0, <2>1, <2>2, <2>5, <2>6 DEF FilesInv, OpenedBelow
  <2> QED BY <1>1, <2>1, <2>7
<1>4. CASE DbgenExits(w)
  <2>1. CASE Raise(w) /\ UNCHANGED markers
    BY <1>0, <1>4, <2>1, RaiseData DEF DbgenExits, data
  <2>2. CASE ~(Raise(w) /\ UNCHANGED markers)
    <3>1. /\ pc[w] = "write" /\ markers' = markers \cup {profile.size} /\ pc'[w] = "drop" /\ flat' = flat
      BY <1>4, <2>2 DEF DbgenExits, Goto, RunTypes
    <3>2. FilesInv(w)'
      BY <1>0, <3>1 DEF DataOf, FilesInv, FilesOf
    <3> QED BY <1>1, <3>1, <3>2
  <2> QED BY <2>1, <2>2
<1> QED BY <1>2, <1>3, <1>4

\* TPC-H: the schema, the copies, and the stamp last.
LEMMA CopyData ==
  ASSUME OneWorker, RunTypes, DataInv, NEW w \in BenchWorkers, CopyTable(w)
  PROVE  DataInv'
<1>0. /\ DataOf(w) /\ tables = [v \in BenchWorkers |-> tables[v]] /\ UNCHANGED profile
      /\ pc[w] = "copy" /\ k[w] \in TpchRange /\ k[w] \in Nat
  BY TpchAssumption DEF DataInv, CopyTable, RunTypes, TpchRange
<1>1. /\ profile.kind = "tpch" /\ FilesOf(profile.size) /\ HasSchema(w) /\ LoadedBelow(w, k[w])
      /\ Metadata \notin DOMAIN tables[w]
  BY <1>0 DEF DataOf, PlaceInv, FilesInv, CopyInv, LoadsTpch
<1>2. CASE Table(k[w]) \in DOMAIN flat
  <2> DEFINE t == Table(k[w])
             row == [size |-> flat[t].size, whole |-> flat[t].whole]
  <2>1. /\ tables' = [tables EXCEPT ![w] = [tables[w] EXCEPT ![t] = row]]
        /\ k'[w] = k[w] + 1 /\ UNCHANGED <<pc, flat, markers>>
    BY <1>2 DEF CopyTable, SetIndex, RunTypes
  <2>2. row = Whole(profile.size)
    BY <1>0, <1>1, <1>2 DEF FilesOf, Whole
  <2> HIDE DEF row
  <2>3. /\ tables'[w] = [tables[w] EXCEPT ![t] = row] /\ tables' = [v \in BenchWorkers |-> tables'[v]]
    BY <2>1, TablesStep
  <2>4. /\ DOMAIN tables'[w] = DOMAIN tables[w] /\ tables'[w][t] = row
        /\ \A u \in DOMAIN tables[w] : u # t => tables'[w][u] = tables[w][u]
    BY <1>0, <1>1, <2>3 DEF HasSchema
  <2>5. HasSchema(w)' /\ Metadata \notin DOMAIN tables'[w]
    BY <1>1, <2>4 DEF HasSchema
  <2>6. LoadedBelow(w, k[w])'
    <3>1. SUFFICES ASSUME NEW i \in TpchRange, i < k'[w]
                   PROVE  tables'[w][Table(i)] = Whole(profile.size)
      BY <1>0 DEF LoadedBelow
    <3>2. CASE i = k[w]
      BY <2>2, <2>4, <3>2
    <3>3. CASE i # k[w]
      <4>1. i < k[w]
        BY <1>0, <2>1, <3>1, <3>3 DEF TpchRange
      <4>2. Table(i) # t
        BY <1>0, <3>3, TableNames
      <4> QED BY <1>1, <2>4, <4>1, <4>2 DEF LoadedBelow, HasSchema
    <3> QED BY <3>2, <3>3
  <2>7. PlaceInv(w)' /\ CopyInv(w)' /\ StampInv(w)'
    BY <1>0, <1>1, <2>1, <2>5, <2>6 DEF PlaceInv, CopyInv, StampInv, LoadsTpch, LoadsSbtest
  <2>8. FilesInv(w)'
    BY <1>0, <2>1, SameFiles DEF DataOf
  <2> QED BY <2>3, <2>7, <2>8, OnlyWorker DEF DataOf
<1>3. CASE Table(k[w]) \notin DOMAIN flat
  <2>1. Raise(w) /\ flat' = NoTables /\ markers' = {} /\ UNCHANGED tables
    BY <1>3 DEF CopyTable, RemoveGeneratedData
  <2>2. pc'[w] \in {"idle", "failed"}
    BY <2>1 DEF Raise, Goto, RunTypes
  <2>3. PlaceInv(w)' /\ CopyInv(w)' /\ StampInv(w)' /\ FilesInv(w)'
    BY <1>0, <2>1, <2>2 DEF DataOf, PlaceInv, CopyInv, StampInv, FilesInv, LoadsTpch, LoadsSbtest
  <2> QED BY <1>0, <2>1, <2>3, OnlyWorker DEF DataOf
<1> QED BY <1>2, <1>3

LEMMA LoadData ==
  ASSUME OneWorker, RunTypes, DataInv, NEW w \in BenchWorkers,
         \/ CreateSchema(w) \/ AllCopied(w) \/ CreateMetadata(w) \/ InsertScaleFactor(w)
         \/ TpchPrepareFails(w)
  PROVE  DataInv'
<1>0. DataOf(w) /\ tables = [v \in BenchWorkers |-> tables[v]] /\ UNCHANGED profile
  BY DEF DataInv, CreateSchema, AllCopied, CreateMetadata, InsertScaleFactor, TpchPrepareFails
<1>00. Len(TpchTables) \in Nat
  BY TpchAssumption
<1> USE DEF Goto, RunTypes
<1>1. ASSUME UNCHANGED tables, flat' = NoTables, markers' = {},
             pc'[w] \notin Loads \cup {"run"} \/ (pc'[w] = "indexes" /\ CopyInv(w)' /\ PlaceInv(w)')
      PROVE  DataInv'
  <2>1. StampInv(w)' /\ FilesInv(w)'
    BY <1>0, <1>1 DEF DataOf, StampInv, FilesInv, Loads, LoadsTpch
  <2>2. CopyInv(w)' /\ PlaceInv(w)'
    BY <1>1 DEF CopyInv, PlaceInv, Loads, LoadsTpch
  <2> QED BY <1>0, <1>1, <2>1, <2>2, OnlyWorker DEF DataOf
<1>2. CASE CreateSchema(w)
  <2> DEFINE new == [t \in DOMAIN tables[w] \cup SchemaTables |->
                        IF t \in SchemaTables THEN Empty ELSE tables[w][t]]
  <2>1. /\ tables' = [tables EXCEPT ![w] = new] /\ pc[w] = "schema" /\ pc'[w] = "copy" /\ k'[w] = 1
        /\ UNCHANGED <<flat, markers>>
    BY <1>2 DEF CreateSchema, Created, SetIndex
  <2>2. DOMAIN new = DOMAIN tables[w] \cup SchemaTables
    OBVIOUS
  <2> HIDE DEF new
  <2>3. tables'[w] = new /\ tables' = [v \in BenchWorkers |-> tables'[v]]
    BY <2>1, TablesStep
  <2>4. HasSchema(w)' /\ LoadedBelow(w, k[w])'
    BY <2>1, <2>2, <2>3 DEF HasSchema, LoadedBelow, SchemaTables, TpchRange
  <2>5. Metadata \notin SchemaTables
    BY TableNames DEF SchemaTables, TpchRange
  <2>6. Metadata \notin DOMAIN tables'[w] /\ profile.kind = "tpch"
    BY <1>0, <2>1, <2>2, <2>3, <2>5 DEF DataOf, CopyInv, PlaceInv, LoadsTpch
  <2>7. PlaceInv(w)' /\ CopyInv(w)' /\ StampInv(w)'
    BY <1>0, <2>1, <2>4, <2>6 DEF PlaceInv, CopyInv, StampInv, LoadsTpch, LoadsSbtest
  <2>8. FilesInv(w)'
    BY <1>0, <2>1, SameFiles DEF DataOf
  <2> QED BY <2>3, <2>7, <2>8, OnlyWorker DEF DataOf
<1>3. CASE AllCopied(w)
  <2>1. /\ pc[w] = "copy" /\ k[w] > Len(TpchTables) /\ pc'[w] = "indexes" /\ UNCHANGED tables
        /\ flat' = NoTables /\ markers' = {}
    BY <1>3 DEF AllCopied, RemoveGeneratedData
  <2>2. profile.kind = "tpch" /\ HasSchema(w) /\ LoadedBelow(w, k[w]) /\ Metadata \notin DOMAIN tables[w]
    BY <1>0, <2>1 DEF DataOf, PlaceInv, CopyInv, LoadsTpch
  <2>3. LoadedBelow(w, Len(TpchTables) + 1)
    <3>1. k[w] \in Nat
      OBVIOUS
    <3>2. \A i \in TpchRange : i < k[w]
      BY <1>00, <2>1, <3>1 DEF TpchRange
    <3> QED BY <2>2, <3>2 DEF LoadedBelow
  <2>4. CopyInv(w)' /\ PlaceInv(w)'
    BY <1>0, <2>1, <2>2, <2>3 DEF CopyInv, PlaceInv, AllLoaded, HasSchema, LoadedBelow, LoadsTpch, LoadsSbtest
  <2> QED BY <1>1, <2>1, <2>4
<1>4. CASE CreateMetadata(w)
  <2> DEFINE new == [t \in DOMAIN tables[w] \cup {Metadata} |->
                        IF t \in {Metadata} THEN Empty ELSE tables[w][t]]
  <2>1. /\ tables' = [tables EXCEPT ![w] = new] /\ pc[w] = "stamp" /\ pc'[w] = "insert"
        /\ UNCHANGED <<flat, markers>>
    BY <1>4 DEF CreateMetadata, Created
  <2>2. DOMAIN new = DOMAIN tables[w] \cup {Metadata} /\ new[Metadata] = Empty
        /\ \A t \in DOMAIN tables[w] : t # Metadata => new[t] = tables[w][t]
    OBVIOUS
  <2> HIDE DEF new
  <2>3. tables'[w] = new /\ tables' = [v \in BenchWorkers |-> tables'[v]]
    BY <2>1, TablesStep
  <2>4. profile.kind = "tpch" /\ AllLoaded(w)
    BY <1>0, <2>1 DEF DataOf, PlaceInv, CopyInv, LoadsTpch
  <2>5. AllLoaded(w)'
    BY <1>0, <2>2, <2>3, <2>4, TableNames DEF AllLoaded, HasSchema, LoadedBelow
  <2>6. PlaceInv(w)' /\ CopyInv(w)' /\ StampInv(w)'
    BY <1>0, <2>1, <2>2, <2>3, <2>4, <2>5 DEF PlaceInv, CopyInv, StampInv, LoadsTpch, LoadsSbtest
  <2>7. FilesInv(w)'
    BY <1>0, <2>1, SameFiles DEF DataOf
  <2> QED BY <2>3, <2>6, <2>7, OnlyWorker DEF DataOf
<1>5. CASE InsertScaleFactor(w)
  <2> DEFINE new == [tables[w] EXCEPT ![Metadata] = Whole(profile.size)]
  <2>1. /\ tables' = [tables EXCEPT ![w] = new] /\ pc[w] = "insert" /\ pc'[w] \in {"revalidate", "idle"}
        /\ UNCHANGED <<flat, markers>>
    BY <1>5 DEF InsertScaleFactor, Prepared
  <2>2. Metadata \in DOMAIN tables[w] /\ AllLoaded(w)
    BY <1>0, <2>1 DEF DataOf, CopyInv
  <2>3. DOMAIN new = DOMAIN tables[w] /\ new[Metadata] = Whole(profile.size)
        /\ \A t \in DOMAIN tables[w] : t # Metadata => new[t] = tables[w][t]
    BY <2>2
  <2> HIDE DEF new
  <2>4. tables'[w] = new /\ tables' = [v \in BenchWorkers |-> tables'[v]]
    BY <2>1, TablesStep
  <2>5. StampInv(w)'
    <3>1. SUFFICES ASSUME NEW i \in TpchRange
                   PROVE  Table(i) \in DOMAIN tables'[w] /\ tables'[w][Table(i)] = tables'[w][Metadata]
      BY DEF StampInv
    <3>2. Table(i) \in DOMAIN tables[w] /\ tables[w][Table(i)] = Whole(profile.size)
      BY <1>00, <2>2 DEF AllLoaded, HasSchema, LoadedBelow, TpchRange
    <3> QED BY <2>3, <2>4, <3>2, TableNames
  <2>6. PlaceInv(w)' /\ CopyInv(w)'
    BY <2>1 DEF PlaceInv, CopyInv, LoadsTpch, LoadsSbtest
  <2>7. FilesInv(w)'
    BY <1>0, <2>1, SameFiles DEF DataOf
  <2> QED BY <2>4, <2>5, <2>6, <2>7, OnlyWorker DEF DataOf
<1>6. CASE TpchPrepareFails(w)
  <2>1. /\ Raise(w) /\ UNCHANGED tables
        /\ \/ flat' = NoTables /\ markers' = {}
           \/ UNCHANGED <<flat, markers>>
    BY <1>6 DEF TpchPrepareFails, RemoveGeneratedData
  <2>2. pc'[w] \in {"idle", "failed"}
    BY <2>1 DEF Raise
  <2> QED BY <1>1, <2>1, <2>2, RaiseData DEF data, Loads, LoadsTpch, LoadsSbtest
<1> QED BY <1>2, <1>3, <1>4, <1>5, <1>6

\* An evaluation changes the data only when a restore loses them.
LEMMA EvaluationData ==
  ASSUME OneWorker, RunTypes, DataInv, NEW w \in BenchWorkers,
         \/ BeginEvaluation(w) \/ CaptureBefore(w) \/ RunSysbench(w)
         \/ TpchConnect(w) \/ TpchWarmup(w) \/ TpchWarm(w) \/ TpchQuery(w) \/ TpchMetrics(w)
         \/ WarmTemplate(w) \/ RunSequential(w) \/ Stop(w) \/ Join(w)
         \/ CaptureAfter(w) \/ ReliabilityGate(w) \/ VacuumAfterDml(w)
         \/ \E t \in DOMAIN thread[w] : ThreadConnect(w, t) \/ ThreadQuery(w, t) \/ ThreadPut(w, t)
  PROVE  DataInv'
<1>0. DataOf(w) /\ tables = [v \in BenchWorkers |-> tables[v]]
  BY DEF DataInv
<1> DEFINE Outside == {"idle", "failed", "stats", "validating", "warmup", "power", "threads", "sequential",
                       "joining", "measured", "collected", "maintenance"}
<1>1. ASSUME UNCHANGED data, pc'[w] \in Outside PROVE DataInv'
  BY <1>1, CalmData DEF Loads, LoadsTpch, LoadsSbtest
<1> USE DEF Goto, RunTypes
<1>2. CASE BeginEvaluation(w)
  <2>1. /\ UNCHANGED <<profile, flat, markers>> /\ pc'[w] = "stats"
        /\ UNCHANGED tables \/ tables' = [tables EXCEPT ![w] = NoTables]
    BY <1>2 DEF BeginEvaluation
  <2>2. CASE UNCHANGED tables
    BY <1>1, <2>1, <2>2 DEF data
  <2>3. CASE tables' = [tables EXCEPT ![w] = NoTables]
    <3>1. tables'[w] = NoTables /\ tables' = [v \in BenchWorkers |-> tables'[v]]
      BY <2>3, TablesStep
    <3>2. DOMAIN tables'[w] = {}
      BY <3>1 DEF NoTables
    <3>3. StampInv(w)' /\ PlaceInv(w)' /\ CopyInv(w)'
      BY <2>1, <3>2 DEF StampInv, PlaceInv, CopyInv, LoadsTpch, LoadsSbtest
    <3>4. FilesInv(w)'
      BY <1>0, <2>1, SameFiles DEF DataOf
    <3> QED BY <3>1, <3>3, <3>4, OnlyWorker DEF DataOf
  <2> QED BY <2>1, <2>2, <2>3
<1>3. CASE CaptureBefore(w)
  <2>1. UNCHANGED <<profile, data>> /\ pc'[w] = IF profile.kind # "template" THEN "validating" ELSE "run"
    BY <1>3 DEF CaptureBefore, ManagesOwnConnection
  <2> QED BY <2>1, CalmData DEF Loads, LoadsTpch, LoadsSbtest
<1>4. CASE RunSysbench(w)
  <2>1. UNCHANGED data /\ (Raise(w) \/ pc'[w] = "measured")
    BY <1>4 DEF RunSysbench, Finish
  <2> QED BY <1>1, <2>1, RaiseData
<1>5. CASE TpchConnect(w)
  <2>1. UNCHANGED <<profile, data>> /\ (Raise(w) \/ pc'[w] = "warmup" \/ (pc'[w] = "run" /\ pc[w] = "run"))
    BY <1>5 DEF TpchConnect
  <2>2. CASE pc'[w] = "run" /\ pc[w] = "run"
    <3>1. profile.kind # "template" => Valid(w)'
      BY <1>0, <2>1, <2>2 DEF DataOf, PlaceInv, Valid, SysbenchValid, TpchValid, TemplateValid, data
    <3> QED BY <2>1, <2>2, <3>1, CalmData DEF Loads, LoadsTpch, LoadsSbtest
  <2> QED BY <1>1, <2>1, <2>2, RaiseData
<1>6. CASE TpchWarmup(w) \/ TpchWarm(w) \/ TpchQuery(w) \/ TpchMetrics(w)
  <2>1. UNCHANGED data /\ (Raise(w) \/ pc'[w] \in {"warmup", "power", "measured"})
    BY <1>6 DEF TpchWarmup, TpchWarm, TpchQuery, TpchMetrics, Finish
  <2> QED BY <1>1, <2>1, RaiseData
<1>7. CASE WarmTemplate(w) \/ RunSequential(w)
  <2>1. UNCHANGED data /\ (Raise(w) \/ pc'[w] \in {"threads", "sequential", "measured"})
    BY <1>7 DEF WarmTemplate, RunSequential, Finish
  <2> QED BY <1>1, <2>1, RaiseData
<1>8. CASE Stop(w) \/ Join(w) \/ CaptureAfter(w) \/ ReliabilityGate(w) \/ VacuumAfterDml(w)
  <2>1. UNCHANGED data /\ pc'[w] \in {"joining", "measured", "collected", "maintenance", "idle"}
    BY <1>8 DEF Stop, Join, Finish, CaptureAfter, ReliabilityGate, VacuumAfterDml
  <2> QED BY <1>1, <2>1
<1>9. ASSUME NEW t \in DOMAIN thread[w], ThreadConnect(w, t) \/ ThreadQuery(w, t) \/ ThreadPut(w, t)
      PROVE  DataInv'
  <2>1. UNCHANGED <<data, pc>> /\ pc[w] \in {"threads", "joining"}
    BY <1>9 DEF ThreadConnect, ThreadQuery, ThreadPut, control
  <2> QED BY <1>1, <2>1
<1> QED BY <1>2, <1>3, <1>4, <1>5, <1>6, <1>7, <1>8, <1>9

LEMMA DataInit == ASSUME OneWorker, BenchInit PROVE DataInv
<1>1. ASSUME NEW w \in BenchWorkers PROVE DataOf(w)
  <2>1. DOMAIN tables[w] = {} /\ pc[w] = "setup" /\ markers = {}
    BY DEF BenchInit, NoTables
  <2> QED BY <2>1 DEF DataOf, PlaceInv, StampInv, FilesInv, CopyInv, LoadsTpch, LoadsSbtest
<1> QED BY <1>1 DEF DataInv, BenchInit

LEMMA DataNext ==
  ASSUME OneWorker, WorkInv, DataInv, [BenchNext]_benchVars
  PROVE  DataInv'
<1>0. RunTypes
  BY DEF WorkInv
<1>1. CASE UNCHANGED benchVars
  <2>1. UNCHANGED <<profile, tables, flat, markers, pc, k>>
    BY <1>1 DEF benchVars, control, data
  <2>2. ASSUME NEW w \in BenchWorkers PROVE DataOf(w)'
    <3>1. DataOf(w)
      BY DEF DataInv
    <3>2. PlaceInv(w)'
      BY <2>1, <3>1 DEF DataOf, PlaceInv, Valid, SysbenchValid, TpchValid, TemplateValid
    <3>3. StampInv(w)'
      BY <2>1, <3>1 DEF DataOf, StampInv
    <3>4. FilesInv(w)'
      BY <2>1, <3>1 DEF DataOf, FilesInv, FilesOf, OpenedBelow, ClosedBelow
    <3>5. CopyInv(w)'
      BY <2>1, <3>1 DEF DataOf, CopyInv, HasSchema, LoadedBelow, AllLoaded
    <3> QED BY <3>2, <3>3, <3>4, <3>5 DEF DataOf
  <2> QED BY <2>1, <2>2 DEF DataInv
<1>2. ASSUME NEW p \in Profiles, NextSession(p) PROVE DataInv'
  <2>1. CASE BenchWorkers = {}
    BY <1>2, <2>1 DEF DataInv, NextSession, data
  <2>2. CASE BenchWorkers # {}
    <3>1. PICK w \in BenchWorkers : TRUE
      BY <2>2
    <3>2. UNCHANGED data /\ pc'[w] = "setup"
      BY <1>2, <3>1 DEF NextSession
    <3> QED BY <3>1, <3>2, CalmData DEF Loads, LoadsTpch, LoadsSbtest
  <2> QED BY <2>1, <2>2
<1>3. ASSUME NEW w \in BenchWorkers, Preparing(w), ~CaptureBefore(w) PROVE DataInv'
  BY <1>0, <1>3, PrepareData, SbtestData, DbgenData, CopyData, LoadData DEF Preparing
<1> QED BY <1>0, <1>1, <1>2, <1>3, EvaluationData DEF BenchNext, Preparing

LEMMA DataValid == ASSUME WorkInv, DataInv PROVE ValidatedIsComplete
<1>1. ASSUME NEW w \in BenchWorkers, pc[w] = "run", profile.kind = "tpch", NEW i \in TpchRange
      PROVE  tables[w][Table(i)] = Whole(profile.size)
  <2>1. DataOf(w)
    BY DEF DataInv
  <2>2. Valid(w)
    BY <1>1, <2>1 DEF DataOf, PlaceInv
  <2>3. Metadata \in DOMAIN tables[w] /\ tables[w][Metadata] = Whole(profile.size)
    BY <1>1, <2>2 DEF Valid, TpchValid
  <2>4. Whole(profile.size) # Empty
    BY DEF Whole, Empty
  <2> QED BY <2>1, <2>3, <2>4 DEF DataOf, StampInv
<1>2. ASSUME NEW w \in BenchWorkers, pc[w] = "run", profile.kind = "sysbench" PROVE SysbenchValid(w)
  BY <1>2 DEF DataInv, DataOf, PlaceInv, Valid
<1> QED BY <1>1, <1>2 DEF ValidatedIsComplete, SysbenchValid, TpchRange

\* With one worker at a time in dbgen's directory, what validates is complete.
THEOREM ValidMeansComplete ==
  ASSUME OneWorker
  PROVE  BenchSpec => []ValidatedIsComplete
<1>1. BenchInit => WorkInv /\ DataInv
  BY WorkInit, DataInit
<1>2. WorkInv /\ DataInv /\ [BenchNext]_benchVars => (WorkInv /\ DataInv)'
  BY WorkNext, DataNext
<1>3. WorkInv /\ DataInv => ValidatedIsComplete
  BY DataValid
<1> QED BY <1>1, <1>2, <1>3, PTL DEF BenchSpec
=============================================================================
