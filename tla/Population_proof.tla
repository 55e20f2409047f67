-------------------------- MODULE Population_proof --------------------------
(***************************************************************************)
(* Proofs about Population, for every population, threshold and ruler, and *)
(* about KnobSpace, whose configurations its workers run with, for every   *)
(* machine, session, tier and factor.                                      *)
(*                                                                         *)
(* Population: three invariants.  TypeInv: types, and the generations      *)
(* left.  MeasureInv: what the metrics and the scores of the workers say   *)
(* of each other in each phase, from which the properties of the donors    *)
(* and of the rescue follow.  BestInv: what may become the overall best.   *)
(*                                                                         *)
(* KnobSpace: KnobInv says what a configuration, a saved file and the      *)
(* surrogate's record are; FitInv that the numbers the rules compare stay  *)
(* where the clamp cannot undo a rule; ClaimInv bounds the memory.         *)
(***************************************************************************)
EXTENDS Population, KnobSpace, FiniteSetTheorems, WellFoundedInduction, TLAPS

\* Generations are left while one runs.
GenerationsLeft ==
    phase \notin {"reporting", "stopped"} => current_generation < MaxGenerations
TypeInv == TypeOK /\ GenerationsLeft

\* The phases in which the metrics are those of this generation.
Rescued == {"calibrating", "finalizing", "comparing", "recording", "evolving"}
Evaluated == Rescued \cup {"rescuing"}

\* Until the workers evolve, metrics describe the configuration held.
MetricsOfConfig ==
    phase \in Evaluated => \A w \in Workers : Measured(w) => metrics[w].config = config[w]

\* A failed evaluation stays below the threshold on every ruler ...
FailedAreDead ==
    phase \in Evaluated \cup {"reporting"} => \A w \in Workers : Failed(w) => ~Viable(w)

\* ... and a resampled worker scores 0 until it is evaluated.
UnmeasuredAreDead ==
    /\ phase = "rescuing" => \A w \in Workers : Measured(w)
    /\ phase \in Rescued => \A w \in Workers : Measured(w) \/ score[w] = 0

MeasureInv == MetricsOfConfig /\ FailedAreDead /\ UnmeasuredAreDead

\* A failed worker that was not resampled stands next to an alive one, or has
\* been rescored to 0.
FailedAreBeaten ==
    /\ phase \in {"calibrating", "finalizing"} =>
           \A w \in Workers : Failed(w) => Alive # {}
    /\ phase = "comparing" =>
           \A w \in Workers : Failed(w) => Alive # {} \/ score[w] = 0

BestInv == FailedAreBeaten /\ BestIsHealthy /\ BestIsMeasured /\ BestDominates

\* A worker whose configuration comes from an elite counts its evaluations.
CooldownInv ==
    \A w \in Workers : parent_id[w] # 0 => step_count[w] = evaluations[w]
-----------------------------------------------------------------------------
(* Type correctness.                                                        *)

LEMMA NoMetricsType == NoMetrics \in Metrics
  BY ConfigAssumption DEF NoMetrics, Metrics

LEMMA WorkersType ==
  /\ IsFiniteSet(Workers)
  /\ \A w \in Workers : w \in 1..PopulationSize /\ w \in 0..PopulationSize /\ w # 0
<1>1. IsFiniteSet(Workers)
  BY ConfigAssumption, FS_Interval DEF Workers
<1>2. \A w \in Workers : w \in 1..PopulationSize /\ w \in 0..PopulationSize /\ w # 0
  BY ConfigAssumption DEF Workers
<1> QED BY <1>1, <1>2

LEMMA ElitesType == Elites \subseteq NonDead /\ NonDead \subseteq Workers /\ Poor \subseteq Workers
  BY DEF Elites, NonDead, Poor

LEMMA OutcomeType ==
  ASSUME NEW o \in Outcomes
  PROVE  /\ o.failed \in BOOLEAN /\ o.score \in Scores
         /\ o.failed => o.score < DeadThreshold
<1>1. CASE o \in [failed : {FALSE}, score : Scores]
  <2>1. o.failed = FALSE /\ o.score \in Scores
    BY <1>1
  <2> QED BY <2>1
<1>2. CASE o \in [failed : {TRUE}, score : CrashScores \cup {0}]
  <2>1. o.failed = TRUE /\ o.score \in CrashScores \cup {0}
    BY <1>2
  <2>2. \A x \in CrashScores \cup {0} : x \in 0..MaxScore /\ x < DeadThreshold
    BY ConfigAssumption
  <2> QED BY <2>1, <2>2 DEF Scores
<1> QED BY <1>1, <1>2 DEF Outcomes

LEMMA InitTypeInv == Init => TypeInv
<1> SUFFICES ASSUME Init PROVE TypeInv
  OBVIOUS
<1> USE DEF Init
<1>1. phase \in Phases /\ current_generation \in 0..MaxGenerations /\ GenerationsLeft
  BY ConfigAssumption DEF Phases, GenerationsLeft
<1>2. /\ config \in [Workers -> Nat] /\ parent_id \in [Workers -> 0..PopulationSize]
      /\ step_count \in [Workers -> Nat] /\ evaluations \in [Workers -> Nat]
      /\ pairs \in [Workers -> 0..PopulationSize]
  BY ConfigAssumption
<1>3. metrics \in [Workers -> Metrics] /\ score \in [Workers -> Scores]
  BY ConfigAssumption, NoMetricsType DEF Scores
<1>4. best \in [score : Scores, metrics : Metrics, config : Nat]
  BY ConfigAssumption, NoMetricsType DEF Scores
<1>5. /\ samples \in Nat /\ calibrated \in BOOLEAN /\ just_calibrated \in BOOLEAN
      /\ strictly_improved \in BOOLEAN /\ stagnation \in Nat /\ converged \in BOOLEAN
  OBVIOUS
<1> QED BY <1>1, <1>2, <1>3, <1>4, <1>5 DEF TypeInv, TypeOK

LEMMA EvaluateType ==
  ASSUME TypeInv, NEW S \in SUBSET Workers, NEW outcome \in [S -> Outcomes],
         Evaluate(S, outcome)
  PROVE  TypeInv'
<1> USE DEF Evaluate, workerVars, rulerVars, bestVars, recordVars
<1> USE DEF TypeInv, TypeOK
<1>1. phase' \in Phases /\ current_generation' \in 0..MaxGenerations /\ GenerationsLeft'
  BY DEF Phases, GenerationsLeft
<1>2. \A w \in S : /\ outcome[w] \in Outcomes
                   /\ outcome[w].failed \in BOOLEAN /\ outcome[w].score \in Scores
  BY OutcomeType
<1>3. metrics' \in [Workers -> Metrics]
  <2>1. \A w \in S : [worker |-> w, config |-> config[w], failed |-> outcome[w].failed]
                        \in Metrics
    BY <1>2, WorkersType DEF Metrics
  <2> QED BY <2>1
<1>4. score' \in [Workers -> Scores]
  BY <1>2
<1>5. step_count' \in [Workers -> Nat] /\ evaluations' \in [Workers -> Nat]
  OBVIOUS
<1>6. samples' \in Nat
  <2>1. IsFiniteSet({w \in S : ~outcome[w].failed})
    BY WorkersType, FS_Subset
  <2>2. Cardinality({w \in S : ~outcome[w].failed}) \in Nat
    BY <2>1, FS_CardinalityType
  <2> QED BY <2>2
<1>7. pairs' \in [Workers -> 0..PopulationSize]
  BY ConfigAssumption
<1> QED BY <1>1, <1>3, <1>4, <1>5, <1>6, <1>7

LEMMA RescueType ==
  ASSUME TypeInv, RescueDeadWorkers
  PROVE  TypeInv'
<1> USE DEF RescueDeadWorkers, workerVars, rulerVars, bestVars, recordVars
<1> USE DEF TypeInv, TypeOK
<1>1. phase' \in Phases /\ current_generation' \in 0..MaxGenerations /\ GenerationsLeft'
  BY DEF Phases, GenerationsLeft
<1>2. /\ config' \in [Workers -> Nat] /\ parent_id' \in [Workers -> 0..PopulationSize]
      /\ evaluations' \in [Workers -> Nat]
  BY ConfigAssumption DEF Resample
<1>3. score' \in [Workers -> Scores]
  BY ConfigAssumption DEF Resample, Scores
<1>4. metrics' \in [Workers -> Metrics]
  BY NoMetricsType DEF Resample
<1> QED BY <1>1, <1>2, <1>3, <1>4

LEMMA CalibrateType ==
  ASSUME TypeInv, UpdateMetricRanges \/ NothingScored \/ KeepRuler
  PROVE  TypeInv'
<1> USE DEF TypeInv, TypeOK, Phases, GenerationsLeft
<1> USE DEF workerVars, measureVars, rulerVars, bestVars, recordVars
<1>1. CASE UpdateMetricRanges
  BY <1>1 DEF UpdateMetricRanges
<1>2. CASE NothingScored
  BY <1>2 DEF NothingScored
<1>3. CASE KeepRuler
  BY <1>3 DEF KeepRuler
<1> QED BY <1>1, <1>2, <1>3

LEMMA RescoreType ==
  ASSUME TypeInv, NEW ruler \in [{w \in Workers : Healthy(w)} -> Scores],
         NEW top \in Scores, Rescore(ruler, top)
  PROVE  TypeInv'
<1> USE DEF Rescore, workerVars, recordVars
<1> USE DEF TypeInv, TypeOK
<1>1. phase' \in Phases /\ current_generation' \in 0..MaxGenerations /\ GenerationsLeft'
  BY DEF Phases, GenerationsLeft
<1>2. 0 \in Scores
  BY ConfigAssumption DEF Scores
<1>3. score' \in [Workers -> Scores]
  BY <1>2
<1>4. best' \in [score : Scores, metrics : Metrics, config : Nat]
  BY <1>2
<1> QED BY <1>1, <1>3, <1>4

LEMMA DetermineType ==
  ASSUME TypeInv, NEW w \in Workers, DetermineOverallBest(w)
  PROVE  TypeInv'
<1> USE DEF DetermineOverallBest, workerVars, measureVars, rulerVars, recordVars
<1> USE DEF TypeInv, TypeOK
<1>1. phase' \in Phases /\ current_generation' \in 0..MaxGenerations /\ GenerationsLeft'
  BY DEF Phases, GenerationsLeft
<1>2. best' \in [score : Scores, metrics : Metrics, config : Nat]
  BY DEF RecordBest
<1>3. strictly_improved' \in BOOLEAN /\ stagnation' \in Nat
  OBVIOUS
<1> QED BY <1>1, <1>2, <1>3

LEMMA RecordType ==
  ASSUME TypeInv, RecordGeneration \/ NextRound
  PROVE  TypeInv'
<1> USE DEF TypeInv, TypeOK, Phases, GenerationsLeft
<1> USE DEF workerVars, measureVars, rulerVars, bestVars, recordVars
<1>1. CASE RecordGeneration
  <2>1. converged' \in BOOLEAN
    BY <1>1 DEF RecordGeneration
  <2> QED BY <1>1, <2>1 DEF RecordGeneration
<1>2. CASE NextRound
  <2>1. GenerationsLeft'
    BY <1>2, ConfigAssumption DEF NextRound, ShouldStop
  <2> QED BY <1>2, <2>1 DEF NextRound
<1> QED BY <1>1, <1>2

LEMMA EvolveType ==
  ASSUME TypeInv, NEW chosen, Evolve(chosen),
         DOMAIN chosen \subseteq Workers, \A w \in DOMAIN chosen : chosen[w] \in Workers
  PROVE  TypeInv'
<1> USE DEF Evolve, measureVars, rulerVars, bestVars
<1> USE DEF TypeInv, TypeOK
<1>1. phase' \in Phases /\ current_generation' \in 0..MaxGenerations /\ GenerationsLeft'
  BY ConfigAssumption DEF Phases, GenerationsLeft
<1>2. /\ config' \in [Workers -> Nat] /\ step_count' \in [Workers -> Nat]
      /\ evaluations' \in [Workers -> Nat]
  BY DEF Adopt
<1>3. parent_id' \in [Workers -> 0..PopulationSize]
  BY WorkersType DEF Adopt
<1>4. pairs' \in [Workers -> 0..PopulationSize]
  BY WorkersType, ConfigAssumption
<1> QED BY <1>1, <1>2, <1>3, <1>4

\* The two ways ExploitExplore ends, and what is copied from whom.
LEMMA ExploitCases ==
  ASSUME ExploitExplore
  PROVE  \E chosen :
           /\ Evolve(chosen)
           /\ DOMAIN chosen \subseteq Workers
           /\ \A w \in DOMAIN chosen : /\ chosen[w] \in Elites /\ chosen[w] \in Workers
                                       /\ chosen[w] \notin DOMAIN chosen
                                       /\ w \in Poor
           /\ NonDead # {} => DOMAIN chosen = Poor
<1>1. CASE NonDead = {}
  <2> DEFINE none == [w \in {} |-> 0]
  <2>1. Evolve(none)
    BY <1>1 DEF ExploitExplore
  <2>2. DOMAIN none = {}
    OBVIOUS
  <2> HIDE DEF none
  <2> QED BY <1>1, <2>1, <2>2
<1>2. CASE NonDead # {}
  <2>1. PICK chosen \in [Poor -> Elites] : Evolve(chosen)
    BY <1>2 DEF ExploitExplore
  <2>2. DOMAIN chosen = Poor /\ \A w \in Poor : chosen[w] \in Elites
    OBVIOUS
  <2>3. \A w \in Elites : w \notin Poor /\ w \in Workers
    BY ElitesType DEF Poor
  <2> QED BY <2>1, <2>2, <2>3, ElitesType
<1> QED BY <1>1, <1>2

LEMMA NextTypeInv == TypeInv /\ [Next]_vars => TypeInv'
<1> SUFFICES ASSUME TypeInv, [Next]_vars PROVE TypeInv'
  OBVIOUS
<1>1. ASSUME NEW S \in SUBSET Workers, NEW outcome \in [S -> Outcomes], Evaluate(S, outcome)
      PROVE  TypeInv'
  BY <1>1, EvaluateType
<1>2. CASE RescueDeadWorkers
  BY <1>2, RescueType
<1>3. CASE UpdateMetricRanges \/ NothingScored \/ KeepRuler
  BY <1>3, CalibrateType
<1>4. ASSUME NEW ruler \in [{w \in Workers : Healthy(w)} -> Scores],
             NEW top \in Scores, Rescore(ruler, top)
      PROVE  TypeInv'
  BY <1>4, RescoreType
<1>5. ASSUME NEW w \in Workers, DetermineOverallBest(w) PROVE TypeInv'
  BY <1>5, DetermineType
<1>6. CASE RecordGeneration \/ NextRound
  BY <1>6, RecordType
<1>7. CASE ExploitExplore
  BY <1>7, ExploitCases, EvolveType
<1>8. CASE UNCHANGED vars
  BY <1>8 DEF TypeInv, TypeOK, GenerationsLeft, vars, workerVars, measureVars, rulerVars,
              bestVars, recordVars
<1> QED BY <1>1, <1>2, <1>3, <1>4, <1>5, <1>6, <1>7, <1>8 DEF Next, Done

\* Every variable keeps its type, and no generation beyond the last one runs
\* (Population.should_stop and the loop of BaseTuner.run).
THEOREM TypeCorrect == Spec => []TypeOK
<1>1. TypeInv => TypeOK
  BY DEF TypeInv
<1> QED BY <1>1, InitTypeInv, NextTypeInv, PTL DEF Spec

LEMMA TypeInvariant == Spec => []TypeInv
  BY InitTypeInv, NextTypeInv, PTL DEF Spec
-----------------------------------------------------------------------------
(* What metrics and scores say of each other.                               *)

USE DEF Rescued, Evaluated

LEMMA MetricsFacts ==
  ASSUME TypeOK, NEW w \in Workers
  PROVE  /\ metrics[w] \in Metrics /\ score[w] \in Nat /\ step_count[w] \in Nat
         /\ config[w] \in Nat /\ evaluations[w] \in Nat
  BY ConfigAssumption DEF TypeOK, Scores

LEMMA NoMetricsHealthy == NoMetrics.failed = FALSE /\ NoMetrics.worker = 0
  BY DEF NoMetrics

LEMMA InitMeasureInv == Init => MeasureInv
  BY DEF Init, MeasureInv, MetricsOfConfig, FailedAreDead, UnmeasuredAreDead

LEMMA EvaluateMeasure ==
  ASSUME TypeInv, NEW S \in SUBSET Workers, NEW outcome \in [S -> Outcomes],
         Evaluate(S, outcome)
  PROVE  MeasureInv'
<1> USE DEF Evaluate
<1>1. CASE S # Workers
  BY <1>1 DEF MeasureInv, MetricsOfConfig, FailedAreDead, UnmeasuredAreDead
<1>2. CASE S = Workers
  <2>1. \A w \in Workers : metrics'[w] = [worker |-> w, config |-> config[w],
                                         failed |-> outcome[w].failed]
    BY <1>2
  <2> HIDE DEF Evaluate
  <2>2. ASSUME NEW w \in Workers
        PROVE  metrics'[w] # NoMetrics /\ metrics'[w].config = config[w]
               /\ (metrics'[w].failed => outcome[w].failed)
    <3> DEFINE m == [worker |-> w, config |-> config[w], failed |-> outcome[w].failed]
    <3>1. m.worker = w /\ m.config = config[w] /\ m.failed = outcome[w].failed
      OBVIOUS
    <3>2. metrics'[w] = m
      BY <2>1
    <3> HIDE DEF m
    <3> QED BY <3>1, <3>2, WorkersType, NoMetricsHealthy
  <2>3. \A w \in Workers : Measured(w)'
    BY <2>2 DEF Measured
  <2> USE DEF Evaluate
  <2>4. \A w \in Workers : /\ metrics'[w].config = config'[w]
                          /\ metrics'[w].failed => outcome[w].failed
    BY <2>2
  <2>5. \A w \in Workers : metrics'[w].failed => score'[w] < DeadThreshold
    BY <1>2, <2>4, OutcomeType
  <2>6. \A w \in Workers : score'[w] \in Nat
    BY <1>2, OutcomeType, ConfigAssumption DEF Scores
  <2>7. MetricsOfConfig'
    BY <2>4 DEF MetricsOfConfig
  <2>8. FailedAreDead'
    BY <2>5, <2>6, ConfigAssumption DEF FailedAreDead, Failed, Viable
  <2>9. UnmeasuredAreDead'
    BY <1>2, <2>3 DEF UnmeasuredAreDead
  <2> QED BY <2>7, <2>8, <2>9 DEF MeasureInv
<1> QED BY <1>1, <1>2

LEMMA RescueMeasure ==
  ASSUME TypeInv, MeasureInv, RescueDeadWorkers
  PROVE  MeasureInv'
<1> USE DEF RescueDeadWorkers, MeasureInv
<1>1. CASE Alive # {}
  <2>1. UNCHANGED <<config, score, metrics>> /\ phase = "rescuing" /\ phase' = "calibrating"
    BY <1>1
  <2> QED BY <2>1 DEF MetricsOfConfig, FailedAreDead, UnmeasuredAreDead, Measured, Failed, Viable
<1>2. CASE Alive = {}
  <2>1. /\ \A w \in Dead : metrics'[w] = NoMetrics /\ score'[w] = 0
        /\ \A w \in Workers \ Dead : /\ metrics'[w] = metrics[w] /\ score'[w] = score[w]
                                    /\ config'[w] = config[w]
    BY <1>2 DEF Resample, Dead
  <2>2. \A w \in Workers : Measured(w)' => w \notin Dead
    BY <2>1 DEF Measured
  <2>3. MetricsOfConfig'
    BY <2>1, <2>2 DEF MetricsOfConfig, Measured
  <2>4. FailedAreDead'
    BY <2>1, <2>2 DEF FailedAreDead, Failed, Measured, Viable
  <2>5. UnmeasuredAreDead'
    BY <2>1 DEF UnmeasuredAreDead, Measured
  <2> QED BY <2>3, <2>4, <2>5
<1> QED BY <1>1, <1>2

LEMMA RescoreMeasure ==
  ASSUME TypeInv, MeasureInv, NEW ruler, NEW top, Rescore(ruler, top)
  PROVE  MeasureInv'
<1> USE DEF Rescore, MeasureInv, workerVars
<1>1. /\ metrics' = metrics /\ config' = config
      /\ phase = "finalizing" /\ phase' = "comparing"
  OBVIOUS
<1>2. ASSUME NEW w \in Workers
      PROVE  (Failed(w) => score'[w] = 0) /\ (~Measured(w) => score'[w] = score[w])
  BY DEF TypeInv, TypeOK, Healthy, Failed
<1>3. MetricsOfConfig'
  BY <1>1 DEF MetricsOfConfig, Measured
<1> HIDE DEF Rescore
<1>4. FailedAreDead'
  <2>1. \A w \in Workers : Failed(w)' => Failed(w)
    BY <1>1 DEF Failed, Measured
  <2>2. \A w \in Workers : Failed(w)' => score'[w] = 0
    BY <1>2, <2>1
  <2> QED BY <2>2, ConfigAssumption DEF FailedAreDead, Viable
<1>5. UnmeasuredAreDead'
  <2>1. \A w \in Workers : Measured(w)' <=> Measured(w)
    BY <1>1 DEF Measured
  <2>2. \A w \in Workers : Measured(w) \/ score[w] = 0
    BY <1>1 DEF UnmeasuredAreDead
  <2>3. phase' # "rescuing"
    BY <1>1
  <2>4. \A w \in Workers : ~Measured(w) => score'[w] = 0
    BY <1>2, <2>2
  <2> QED BY <2>1, <2>3, <2>4 DEF UnmeasuredAreDead
<1> QED BY <1>3, <1>4, <1>5

\* The steps that leave configurations, metrics and scores alone.
LEMMA OtherMeasure ==
  ASSUME TypeInv, MeasureInv, UNCHANGED <<config, metrics, score>>,
         \/ phase' = phase
         \/ phase \in Rescued /\ phase' \in Rescued
         \/ phase' \in {"evaluating", "stopped"}
  PROVE  MeasureInv'
<1> USE DEF MeasureInv
<1>1. MetricsOfConfig'
  BY DEF MetricsOfConfig, Measured
<1>2. FailedAreDead'
  BY DEF FailedAreDead, Failed, Measured, Viable
<1>3. UnmeasuredAreDead'
  BY DEF UnmeasuredAreDead, Measured
<1> QED BY <1>1, <1>2, <1>3

LEMMA EvolveMeasure ==
  ASSUME TypeInv, MeasureInv, NEW chosen, Evolve(chosen)
  PROVE  MeasureInv'
<1> USE DEF Evolve, MeasureInv, measureVars
<1>1. /\ metrics' = metrics /\ score' = score
      /\ phase = "evolving" /\ phase' = "reporting"
  OBVIOUS
<1>2. FailedAreDead'
  BY <1>1 DEF FailedAreDead, Failed, Measured, Viable
<1> QED BY <1>1, <1>2 DEF MetricsOfConfig, UnmeasuredAreDead

LEMMA NextMeasureInv == TypeInv /\ MeasureInv /\ [Next]_vars => MeasureInv'
<1> SUFFICES ASSUME TypeInv, MeasureInv, [Next]_vars PROVE MeasureInv'
  OBVIOUS
<1>1. ASSUME NEW S \in SUBSET Workers, NEW outcome \in [S -> Outcomes], Evaluate(S, outcome)
      PROVE  MeasureInv'
  BY <1>1, EvaluateMeasure
<1>2. CASE RescueDeadWorkers
  BY <1>2, RescueMeasure
<1>3. ASSUME NEW ruler, NEW top, Rescore(ruler, top) PROVE MeasureInv'
  BY <1>3, RescoreMeasure
<1>4. CASE UpdateMetricRanges \/ NothingScored \/ KeepRuler
  BY <1>4, OtherMeasure DEF UpdateMetricRanges, NothingScored, KeepRuler, workerVars, measureVars
<1>5. ASSUME NEW w \in Workers, DetermineOverallBest(w) PROVE MeasureInv'
  BY <1>5, OtherMeasure DEF DetermineOverallBest, workerVars, measureVars
<1>6. CASE RecordGeneration \/ NextRound
  BY <1>6, OtherMeasure DEF RecordGeneration, NextRound, workerVars, measureVars
<1>7. CASE ExploitExplore
  BY <1>7, ExploitCases, EvolveMeasure
<1>8. CASE UNCHANGED vars
  BY <1>8, OtherMeasure DEF vars, workerVars, measureVars
<1> QED BY <1>1, <1>2, <1>3, <1>4, <1>5, <1>6, <1>7, <1>8 DEF Next, Done

LEMMA MeasureInvariant == Spec => [](TypeInv /\ MeasureInv)
  BY InitTypeInv, NextTypeInv, InitMeasureInv, NextMeasureInv, PTL DEF Spec

\* Only a healthy worker is viable when the workers evolve.
LEMMA ViableAreHealthy ==
  ASSUME TypeInv, MeasureInv, phase = "evolving", NEW w \in NonDead
  PROVE  w \in Workers /\ Healthy(w)
<1>1. w \in Workers /\ score[w] >= DeadThreshold
  BY DEF NonDead, Viable
<1>2. score[w] # 0
  BY <1>1, ConfigAssumption
<1>3. Measured(w)
  BY <1>1, <1>2 DEF MeasureInv, UnmeasuredAreDead
<1>4. ~Failed(w)
  BY <1>1 DEF MeasureInv, FailedAreDead, Viable
<1> QED BY <1>1, <1>3, <1>4 DEF Healthy, Failed
-----------------------------------------------------------------------------
(* The donors of an exploit, and the configurations that crashed.           *)

EvolveInv == DonorsMeasured /\ CrashNotRepeated

LEMMA EvolveDonors ==
  ASSUME TypeInv, MeasureInv, ExploitExplore
  PROVE  EvolveInv'
<1>1. PICK chosen :
           /\ Evolve(chosen)
           /\ DOMAIN chosen \subseteq Workers
           /\ \A w \in DOMAIN chosen : /\ chosen[w] \in Elites /\ chosen[w] \in Workers
                                       /\ chosen[w] \notin DOMAIN chosen
                                       /\ w \in Poor
           /\ NonDead # {} => DOMAIN chosen = Poor
  BY ExploitCases
<1>2. /\ phase = "evolving" /\ metrics' = metrics /\ score' = score
      /\ \A w \in Workers : config'[w] = IF w \in DOMAIN chosen THEN config[w] + 1
                                         ELSE config[w]
      /\ \A w \in Workers : pairs'[w] # 0 => w \in DOMAIN chosen /\ pairs'[w] = chosen[w]
  BY <1>1 DEF Evolve, Adopt, measureVars
<1>3. DonorsMeasured'
  <2> SUFFICES ASSUME NEW w \in Workers, pairs'[w] # 0
               PROVE  /\ Healthy(pairs[w])'
                      /\ Viable(pairs[w])'
                      /\ (metrics[pairs[w]].config = config[pairs[w]])'
    BY DEF DonorsMeasured
  <2> DEFINE donor == pairs'[w]
  <2>1. donor \in Elites /\ donor \in Workers /\ donor \notin DOMAIN chosen
    BY <1>1, <1>2
  <2>2. donor \in NonDead
    BY <2>1, ElitesType
  <2>3. Healthy(donor) /\ Viable(donor)
    BY <1>2, <2>2, ViableAreHealthy DEF NonDead
  <2>4. metrics[donor].config = config[donor]
    BY <1>2, <2>1, <2>3 DEF MeasureInv, MetricsOfConfig, Healthy
  <2> QED BY <1>2, <2>1, <2>3, <2>4 DEF Healthy, Measured, Viable
<1>4. CrashNotRepeated'
  <2> SUFFICES ASSUME NEW w \in Workers, Failed(w)', NonDead' # {}
               PROVE  (metrics[w].config # config[w])'
    BY DEF CrashNotRepeated
  <2>1. NonDead # {} /\ Failed(w)
    BY <1>2 DEF NonDead, Viable, Failed, Measured
  <2>2. ~Viable(w) /\ metrics[w].config = config[w]
    BY <1>2, <2>1 DEF MeasureInv, FailedAreDead, MetricsOfConfig, Failed
  <2>3. w \in Poor
    BY <2>2 DEF Poor, Elites, NonDead
  <2>4. config'[w] = config[w] + 1
    BY <1>1, <1>2, <2>1, <2>3
  <2>5. config[w] \in Nat
    BY MetricsFacts DEF TypeInv
  <2> QED BY <1>2, <2>2, <2>4, <2>5
<1> QED BY <1>3, <1>4 DEF EvolveInv

LEMMA NextEvolveInv ==
  TypeInv /\ MeasureInv /\ EvolveInv /\ [Next]_vars => EvolveInv'
<1> SUFFICES ASSUME TypeInv, MeasureInv, EvolveInv, [Next]_vars PROVE EvolveInv'
  OBVIOUS
<1>1. CASE ExploitExplore
  BY <1>1, EvolveDonors
<1>2. CASE UNCHANGED vars
  BY <1>2 DEF EvolveInv, DonorsMeasured, CrashNotRepeated, Healthy, Failed, Measured, Viable,
              NonDead, vars, workerVars, measureVars, recordVars
<1>3. ASSUME phase' # "reporting" PROVE EvolveInv'
  BY <1>3 DEF EvolveInv, DonorsMeasured, CrashNotRepeated
<1>4. ASSUME NEW S, NEW outcome, Evaluate(S, outcome) PROVE phase' # "reporting"
  BY <1>4 DEF Evaluate
<1>5. ASSUME NEW ruler, NEW top, Rescore(ruler, top) PROVE phase' # "reporting"
  BY <1>5 DEF Rescore
<1>6. ASSUME NEW w, DetermineOverallBest(w) PROVE phase' # "reporting"
  BY <1>6 DEF DetermineOverallBest
<1>7. CASE \/ RescueDeadWorkers \/ UpdateMetricRanges \/ NothingScored \/ KeepRuler
           \/ RecordGeneration \/ NextRound
  <2>1. phase' # "reporting"
    BY <1>7 DEF RescueDeadWorkers, UpdateMetricRanges, NothingScored, KeepRuler,
                RecordGeneration, NextRound
  <2> QED BY <1>3, <2>1
<1> QED BY <1>1, <1>2, <1>3, <1>4, <1>5, <1>6, <1>7 DEF Next, Done

LEMMA EvolveInvariant == Spec => []EvolveInv
<1>1. Init => EvolveInv
  BY DEF Init, EvolveInv, DonorsMeasured, CrashNotRepeated
<1> QED BY <1>1, MeasureInvariant, NextEvolveInv, PTL DEF Spec

\* Elites are healthy workers that keep the configuration they were measured
\* with: truncation_selection never pairs a poor worker with one that
\* changes, that failed, or that rescue_dead_workers resampled.
THEOREM DonorsAreMeasured == Spec => []DonorsMeasured
<1>1. EvolveInv => DonorsMeasured
  BY DEF EvolveInv
<1> QED BY <1>1, EvolveInvariant, PTL

\* rescue_dead_workers and truncation_selection between them replace every
\* configuration whose evaluation failed while there is a worker to clone.
THEOREM CrashesAreReplaced == Spec => []CrashNotRepeated
<1>1. EvolveInv => CrashNotRepeated
  BY DEF EvolveInv
<1> QED BY <1>1, EvolveInvariant, PTL

\* Selection and rescue together: donors are measured, crashes are replaced.
THEOREM EvolutionSound == Spec => []EvolutionIsSound
BY DonorsAreMeasured, CrashesAreReplaced, PTL DEF EvolutionIsSound
-----------------------------------------------------------------------------
(* The overall best.                                                        *)

LEMMA InitBestInv == Init => BestInv
  BY DEF Init, BestInv, FailedAreBeaten, BestIsHealthy, BestIsMeasured, BestDominates, NoMetrics

LEMMA EvaluateBest ==
  ASSUME BestInv, NEW S, NEW outcome, Evaluate(S, outcome)
  PROVE  BestInv'
<1>1. best' = best /\ phase' \in {"rescuing", "failed"}
  BY DEF Evaluate, bestVars
<1> QED BY <1>1 DEF BestInv, FailedAreBeaten, BestIsHealthy, BestIsMeasured, BestDominates

LEMMA RescueBest ==
  ASSUME TypeInv, MeasureInv, BestInv, RescueDeadWorkers
  PROVE  BestInv'
<1>1. best' = best /\ phase = "rescuing" /\ phase' = "calibrating"
  BY DEF RescueDeadWorkers, bestVars
<1>2. ASSUME NEW w \in Workers, Failed(w)' PROVE Alive' # {}
  <2>1. CASE Alive # {}
    <3>1. UNCHANGED <<score, metrics>>
      BY <2>1 DEF RescueDeadWorkers
    <3>2. Alive' = Alive
      BY <3>1 DEF Alive, Healthy, Measured, Viable
    <3> QED BY <2>1, <3>2
  <2>2. CASE Alive = {}
    <3>1. metrics' = [v \in Workers |-> IF v \in Dead THEN NoMetrics ELSE metrics[v]]
      BY <2>2 DEF RescueDeadWorkers, Resample
    <3>2. w \notin Dead /\ Failed(w)
      BY <1>2, <3>1 DEF Failed, Measured
    <3>3. ~Viable(w)
      BY <1>1, <3>2 DEF MeasureInv, FailedAreDead
    <3> QED BY <3>2, <3>3 DEF Dead
  <2> QED BY <2>1, <2>2
<1> QED BY <1>1, <1>2
        DEF BestInv, FailedAreBeaten, BestIsHealthy, BestIsMeasured, BestDominates

LEMMA RescoreBest ==
  ASSUME TypeInv, MeasureInv, BestInv, NEW ruler, NEW top, Rescore(ruler, top)
  PROVE  BestInv'
<1>1. /\ metrics' = metrics /\ phase' = "comparing"
      /\ best'.metrics = best.metrics /\ best'.config = best.config
  BY DEF Rescore, TypeInv, TypeOK
<1>2. ASSUME NEW w \in Workers, Failed(w)' PROVE score'[w] = 0
  <2>1. Failed(w)
    BY <1>1, <1>2 DEF Failed, Measured
  <2>2. ~Healthy(w)
    BY <2>1 DEF Failed, Healthy
  <2> QED BY <2>1, <2>2 DEF Rescore
<1>3. FailedAreBeaten'
  BY <1>1, <1>2 DEF FailedAreBeaten
<1>4. BestIsHealthy'
  <2>1. ASSUME best.metrics.failed PROVE best'.score = 0
    BY <2>1, NoMetricsHealthy DEF Rescore, TypeInv, TypeOK
  <2> QED BY <1>1, <2>1 DEF BestIsHealthy
<1>5. BestIsMeasured' /\ BestDominates'
  BY <1>1 DEF BestInv, BestIsMeasured, BestDominates
<1> QED BY <1>3, <1>4, <1>5 DEF BestInv

LEMMA DetermineBest ==
  ASSUME TypeInv, MeasureInv, BestInv, NEW w \in Workers, DetermineOverallBest(w)
  PROVE  BestInv'
<1>1. /\ metrics' = metrics /\ score' = score
      /\ phase = "comparing" /\ phase' = "recording"
      /\ w \in Scored
      /\ \A v \in Scored : score[v] <= score[w]
      /\ best' = IF score[w] >= best.score
                 THEN [score |-> score[w], metrics |-> metrics[w], config |-> config[w]]
                 ELSE best
  <2>1. \A v \in Scored : score[v] \in Nat
    BY MetricsFacts DEF TypeInv, Scored
  <2>2. w \in Scored /\ \A v \in Scored : score[v] <= score[w]
    BY <2>1 DEF DetermineOverallBest, BestCurrent
  <2> QED BY <2>2 DEF DetermineOverallBest, RecordBest, measureVars
<1>2. Measured(w) /\ metrics[w].config = config[w]
  BY <1>1 DEF Scored, MeasureInv, MetricsOfConfig
<1>3. score[w] \in Nat /\ best.score \in Nat
  BY ConfigAssumption, MetricsFacts DEF TypeInv, TypeOK, Scores
<1>4. CASE score[w] >= best.score
  <2>1. best'.score = score[w] /\ best'.metrics = metrics[w] /\ best'.config = config[w]
    BY <1>1, <1>4
  <2>2. BestIsHealthy'
    <3> SUFFICES ASSUME metrics[w].failed PROVE score[w] = 0
      BY <2>1 DEF BestIsHealthy
    <3>1. Failed(w) /\ ~Viable(w)
      BY <1>1, <1>2 DEF Failed, MeasureInv, FailedAreDead
    <3>2. ASSUME NEW v \in Alive PROVE FALSE
      <4>1. v \in Scored /\ v \in Workers /\ score[v] >= DeadThreshold
        BY DEF Alive, Healthy, Scored, Viable
      <4>2. score[v] \in Nat
        BY <4>1, MetricsFacts DEF TypeInv
      <4> QED BY <1>1, <1>3, <3>1, <4>1, <4>2, ConfigAssumption DEF Viable
    <3> QED BY <1>1, <3>1, <3>2 DEF BestInv, FailedAreBeaten
  <2>3. BestIsMeasured'
    BY <1>2, <2>1 DEF BestIsMeasured
  <2>4. BestDominates'
    BY <1>1, <2>1 DEF BestDominates, Scored, Measured
  <2> QED BY <1>1, <2>2, <2>3, <2>4 DEF BestInv, FailedAreBeaten
<1>5. CASE ~(score[w] >= best.score)
  <2>1. best' = best /\ score[w] < best.score
    BY <1>1, <1>3, <1>5
  <2>2. \A v \in Scored : score[v] \in Nat
    BY MetricsFacts DEF TypeInv, Scored
  <2>3. \A v \in Scored : score[v] <= best.score
    BY <1>1, <1>3, <2>1, <2>2
  <2>4. BestDominates'
    BY <1>1, <2>1, <2>3 DEF BestDominates, Scored, Measured
  <2> QED BY <1>1, <2>1, <2>4 DEF BestInv, FailedAreBeaten, BestIsHealthy, BestIsMeasured
<1> QED BY <1>4, <1>5

\* The steps that leave the scores and the best alone.
LEMMA OtherBest ==
  ASSUME BestInv, UNCHANGED <<metrics, score, best>>,
         \/ phase' = phase
         \/ phase = "calibrating" /\ phase' = "finalizing"
         \/ phase = "finalizing" /\ phase' = "comparing"
         \/ phase = "finalizing" /\ phase' = "recording" /\ Scored = {}
         \/ phase = "recording" /\ phase' = "evolving"
         \/ phase = "evolving" /\ phase' = "reporting"
         \/ phase = "reporting" /\ phase' \in {"stopped", "evaluating"}
  PROVE  BestInv'
<1>1. Alive' = Alive /\ Scored' = Scored
  BY DEF Alive, Healthy, Measured, Viable, Scored
<1>2. FailedAreBeaten'
  BY <1>1 DEF BestInv, FailedAreBeaten, Failed, Measured
<1>3. BestIsHealthy' /\ BestIsMeasured'
  BY DEF BestInv, BestIsHealthy, BestIsMeasured
<1>4. BestDominates'
  BY <1>1 DEF BestInv, BestDominates
<1> QED BY <1>2, <1>3, <1>4 DEF BestInv

LEMMA NextBestInv ==
  TypeInv /\ MeasureInv /\ BestInv /\ [Next]_vars => BestInv'
<1> SUFFICES ASSUME TypeInv, MeasureInv, BestInv, [Next]_vars PROVE BestInv'
  OBVIOUS
<1> USE DEF measureVars, bestVars
<1>1. ASSUME NEW S, NEW outcome, Evaluate(S, outcome) PROVE BestInv'
  BY <1>1, EvaluateBest
<1>2. CASE RescueDeadWorkers
  BY <1>2, RescueBest
<1>3. ASSUME NEW ruler, NEW top, Rescore(ruler, top) PROVE BestInv'
  BY <1>3, RescoreBest
<1>4. ASSUME NEW w \in Workers, DetermineOverallBest(w) PROVE BestInv'
  BY <1>4, DetermineBest
<1>5. CASE UpdateMetricRanges \/ NothingScored \/ KeepRuler
  BY <1>5, OtherBest DEF UpdateMetricRanges, NothingScored, KeepRuler
<1>6. CASE RecordGeneration \/ NextRound
  BY <1>6, OtherBest DEF RecordGeneration, NextRound
<1>7. CASE ExploitExplore
  BY <1>7, ExploitCases, OtherBest DEF Evolve
<1>8. CASE UNCHANGED vars
  BY <1>8, OtherBest DEF vars
<1> QED BY <1>1, <1>2, <1>3, <1>4, <1>5, <1>6, <1>7, <1>8 DEF Next, Done

LEMMA BestInvariant == Spec => []BestInv
  BY InitBestInv, NextBestInv, MeasureInvariant, PTL DEF Spec

\* The configuration _determine_overall_best keeps is the one its metrics were
\* measured under, whatever rescues and exploits replace around it.
THEOREM BestWasMeasured == Spec => []BestIsMeasured
<1>1. BestInv => BestIsMeasured
  BY DEF BestInv
<1> QED BY <1>1, BestInvariant, PTL

\* A failed evaluation becomes the best only with the score 0.
THEOREM BestNeverFailed == Spec => []BestIsHealthy
<1>1. BestInv => BestIsHealthy
  BY DEF BestInv
<1> QED BY <1>1, BestInvariant, PTL

\* _finalize_scores leaves no measured worker above the overall best.
THEOREM BestIsMaximal == Spec => []BestDominates
<1>1. BestInv => BestDominates
  BY DEF BestInv
<1> QED BY <1>1, BestInvariant, PTL

\* The record of the best: measured with its configuration, not failed, not beaten.
THEOREM BestSound == Spec => []BestIsSound
BY BestWasMeasured, BestNeverFailed, BestIsMaximal, PTL DEF BestIsSound
-----------------------------------------------------------------------------
(* Action properties: the stagnation counter and the readiness cooldown.    *)

\* Only a score above the best, on one ruler, resets the stagnation counter.
THEOREM ProgressResets == Spec => OnlyProgressResets
<1>1. TypeInv /\ [Next]_vars => [stagnation' < stagnation => best'.score > best.score]_vars
  <2> SUFFICES ASSUME TypeInv, Next, stagnation' < stagnation
               PROVE  best'.score > best.score
    OBVIOUS
  <2>1. stagnation \in Nat
    BY DEF TypeInv, TypeOK
  <2>2. ASSUME NEW w \in Workers, DetermineOverallBest(w)
        PROVE  best'.score > best.score
    <3>1. score[w] \in Nat /\ best.score \in Nat
      BY ConfigAssumption, MetricsFacts DEF TypeInv, TypeOK, Scores
    <3>2. score[w] > best.score
      BY <2>1, <2>2 DEF DetermineOverallBest
    <3> QED BY <2>2, <3>1, <3>2 DEF DetermineOverallBest, RecordBest
  <2>3. ASSUME stagnation' = stagnation PROVE FALSE
    BY <2>1, <2>3
  <2>4. ASSUME NEW S, NEW outcome, Evaluate(S, outcome) PROVE FALSE
    BY <2>3, <2>4 DEF Evaluate, bestVars
  <2>5. ASSUME NEW ruler, NEW top, Rescore(ruler, top) PROVE FALSE
    BY <2>3, <2>5 DEF Rescore
  <2>6. ~(\/ RescueDeadWorkers \/ UpdateMetricRanges \/ NothingScored \/ KeepRuler
          \/ RecordGeneration \/ NextRound)
    BY <2>3 DEF RescueDeadWorkers, UpdateMetricRanges, NothingScored, KeepRuler,
                RecordGeneration, NextRound, bestVars
  <2>7. ~ExploitExplore
    BY <2>3, ExploitCases DEF Evolve, bestVars
  <2>8. ~Done
    BY <2>3 DEF Done, vars, bestVars
  <2> QED BY <2>2, <2>4, <2>5, <2>6, <2>7, <2>8 DEF Next
<1> QED BY <1>1, TypeInvariant, PTL DEF Spec, OnlyProgressResets

LEMMA NextCooldownInv == TypeInv /\ CooldownInv /\ [Next]_vars => CooldownInv'
<1> SUFFICES ASSUME TypeInv, CooldownInv, [Next]_vars PROVE CooldownInv'
  OBVIOUS
<1>1. ASSUME UNCHANGED <<parent_id, step_count, evaluations>> PROVE CooldownInv'
  BY <1>1 DEF CooldownInv
<1>2. ASSUME NEW S \in SUBSET Workers, NEW outcome, Evaluate(S, outcome) PROVE CooldownInv'
  BY <1>2 DEF Evaluate, CooldownInv
<1>3. CASE RescueDeadWorkers
  BY <1>3 DEF RescueDeadWorkers, Resample, CooldownInv
<1>4. CASE ExploitExplore
  <2>1. PICK chosen : Evolve(chosen)
    BY <1>4, ExploitCases
  <2> QED BY <2>1 DEF Evolve, Adopt, CooldownInv
<1>5. CASE UpdateMetricRanges \/ NothingScored \/ KeepRuler \/ RecordGeneration \/ NextRound
  BY <1>1, <1>5 DEF UpdateMetricRanges, NothingScored, KeepRuler, RecordGeneration, NextRound,
                    workerVars
<1>6. ASSUME NEW ruler, NEW top, Rescore(ruler, top) PROVE CooldownInv'
  BY <1>1, <1>6 DEF Rescore, workerVars
<1>7. ASSUME NEW w, DetermineOverallBest(w) PROVE CooldownInv'
  BY <1>1, <1>7 DEF DetermineOverallBest, workerVars
<1>8. CASE UNCHANGED vars
  BY <1>1, <1>8 DEF vars, workerVars
<1> QED BY <1>2, <1>3, <1>4, <1>5, <1>6, <1>7, <1>8 DEF Next, Done

\* A viable worker that adopted its configuration from an elite exploits again
\* only after ready_interval evaluations of it (clone_from resets step_count).
THEOREM CooldownIsServed == Spec => CooldownServed
<1>1. Init => CooldownInv
  BY DEF Init, CooldownInv
<1>2. Spec => []CooldownInv
  BY <1>1, NextCooldownInv, TypeInvariant, PTL DEF Spec
<1> DEFINE Served == \A w \in Workers :
               Exploits(w) /\ Viable(w) /\ parent_id[w] # 0 => evaluations[w] >= ReadyInterval
<1>3. CooldownInv /\ [Next]_vars => [Served]_vars
  <2> SUFFICES ASSUME CooldownInv, Next, NEW w \in Workers,
                      Exploits(w), Viable(w), parent_id[w] # 0
               PROVE  evaluations[w] >= ReadyInterval
    OBVIOUS
  <2>1. phase = "evolving" /\ phase' = "reporting" /\ pairs'[w] # 0
    BY DEF Exploits
  <2>2. ExploitExplore
    <3>1. \A S, outcome : ~Evaluate(S, outcome)
      BY <2>1 DEF Evaluate
    <3>2. \A ruler, top : ~Rescore(ruler, top)
      BY <2>1 DEF Rescore
    <3>3. \A v : ~DetermineOverallBest(v)
      BY <2>1 DEF DetermineOverallBest
    <3> QED BY <2>1, <3>1, <3>2, <3>3 DEF Next, Done, RescueDeadWorkers, UpdateMetricRanges,
                 NothingScored, KeepRuler, RecordGeneration, NextRound
  <2>3. w \in Poor
    BY <2>1, <2>2, ExploitCases DEF Evolve
  <2>4. IsReady(w)
    BY <2>3 DEF Poor
  <2> QED BY <2>4 DEF IsReady, CooldownInv
<1> QED BY <1>2, <1>3, PTL DEF Spec, CooldownServed
-----------------------------------------------------------------------------
(* Configurations: arithmetic and finite sets                              *)

Knobs == DOMAIN Default
Hosts == [ram : Nat, cpu : Nat \ {0}, disk : {"HDD", "SSD", "unknown"}, bps : Nat, iops : Nat]

LEMMA MaxOfTwo ==
  ASSUME NEW a \in Int, NEW b \in Int
  PROVE  Max({a, b}) = IF a >= b THEN a ELSE b
BY DEF Max

LEMMA MinOfTwo ==
  ASSUME NEW a \in Int, NEW b \in Int
  PROVE  Min({a, b}) = IF a <= b THEN a ELSE b
BY DEF Min

LEMMA RoundedInt ==
  ASSUME NEW n \in Int, NEW d \in Nat \ {0}
  PROVE  Rounded(n, d) \in Int
<1>1. n \div d \in Int /\ n % d \in 0..d-1
  OBVIOUS
<1> QED BY <1>1 DEF Rounded

LEMMA RoundedNear ==
  ASSUME NEW n \in Int, NEW d \in Nat \ {0}
  PROVE  2 * d * Rounded(n, d) - 2 * n <= d /\ 2 * n - 2 * d * Rounded(n, d) <= d
<1> DEFINE q == n \div d
           r == n % d
<1>1. q \in Int /\ r \in 0..d-1 /\ n = d * q + r
  OBVIOUS
<1>2. Rounded(n, d) = q \/ (Rounded(n, d) = q + 1 /\ 2 * r >= d)
  BY <1>1 DEF Rounded
<1>3. Rounded(n, d) = q => 2 * r <= d
  BY <1>1 DEF Rounded
<1> HIDE DEF q, r
<1>4. d * (q + 1) = d * q + d
  BY <1>1
<1> QED BY <1>1, <1>2, <1>3, <1>4

LEMMA RoundedOfMultiple ==
  ASSUME NEW v \in Int, NEW d \in Nat \ {0}
  PROVE  Rounded(v * d, d) = v
<1>1. (v * d) \div d = v /\ (v * d) % d = 0
  OBVIOUS
<1> QED BY <1>1 DEF Rounded

LEMMA NatMin ==
  ASSUME NEW S \in SUBSET Nat, S # {}
  PROVE  \E x \in S : \A y \in S : x <= y
<1>1. \E x \in S : \A y \in S : ~(<<y, x>> \in OpToRel(<, Nat))
  BY NatLessThanWellFounded, WFMin
<1>2. PICK x \in S : \A y \in S : ~(<<y, x>> \in OpToRel(<, Nat))
  BY <1>1
<1>3. \A y \in S : ~(y < x)
  BY <1>2 DEF OpToRel
<1> QED BY <1>3

LEMMA NumbersInduction ==
  ASSUME NEW G, 0 \in G, \A n \in Nat : n \in G => n + 1 \in G
  PROVE  Nat \subseteq G
<1> SUFFICES ASSUME Nat \ G # {} PROVE FALSE
  OBVIOUS
<1> DEFINE B == Nat \ G
<1>1. PICK n \in B : \A m \in B : n <= m
  <2>1. B \in SUBSET Nat /\ B # {}
    OBVIOUS
  <2> HIDE DEF B
  <2> QED BY <2>1, NatMin
<1>2. n # 0
  OBVIOUS
<1>3. n - 1 \in Nat /\ n - 1 \in G
  BY <1>1, <1>2
<1>4. n - 1 + 1 \in G
  BY <1>3
<1> QED BY <1>1, <1>4

\* What holds of a set when it holds of every set with one element less holds of all.
LEMMA RemovalInduction ==
  ASSUME NEW S, IsFiniteSet(S), NEW G,
         \A T \in SUBSET S : (\A x \in T : T \ {x} \in G) => T \in G
  PROVE  SUBSET S \subseteq G
<1> SUFFICES ASSUME NEW U \in SUBSET S, U \notin G PROVE FALSE
  OBVIOUS
<1> DEFINE B == {T \in SUBSET S : T \notin G}
           N == {Cardinality(T) : T \in B}
<1>1. \A T \in SUBSET S : IsFiniteSet(T) /\ Cardinality(T) \in Nat
  BY FS_Subset, FS_CardinalityType
<1>2. PICK n \in N : \A m \in N : n <= m
  <2>1. N \in SUBSET Nat /\ N # {}
    BY <1>1
  <2> HIDE DEF N
  <2> QED BY <2>1, NatMin
<1>3. PICK T \in SUBSET S : T \notin G /\ Cardinality(T) = n
  BY <1>2
<1>4. ASSUME NEW x \in T PROVE T \ {x} \in G
  <2>1. Cardinality(T \ {x}) = Cardinality(T) - 1
    BY <1>1, <1>3, FS_RemoveElement
  <2>2. SUFFICES ASSUME T \ {x} \notin G PROVE FALSE
    OBVIOUS
  <2>3. n <= Cardinality(T \ {x})
    BY <1>2, <2>2
  <2> QED BY <1>1, <1>3, <2>1, <2>3
<1> QED BY <1>3, <1>4

-----------------------------------------------------------------------------
(* The product of sets of values                                           *)

Picked(s) == CHOOSE x \in s : TRUE
Extensions(A, k, B) == {With(c, k, v) : c \in A, v \in B}
IsFold(g, D, values) ==
    g = [s \in D |-> IF s = {} THEN {<<>>}
                     ELSE Extensions(g[s \ {Picked(s)}], Picked(s), values[Picked(s)])]

LEMMA ProductIs ==
  ASSUME NEW values
  PROVE  Product(values) =
           (CHOOSE g : IsFold(g, SUBSET DOMAIN values, values))[DOMAIN values]
BY DEF Product, FoldSet, MapThenFoldSet, IsFold, Picked, Extensions

LEMMA FoldExists ==
  ASSUME NEW S, IsFiniteSet(S), NEW values
  PROVE  \E g : IsFold(g, SUBSET S, values)
<1> DEFINE D(n) == {s \in SUBSET S : Cardinality(s) <= n}
           G == {n \in Nat : \E g : IsFold(g, D(n), values)}
<1>1. \A s \in SUBSET S : IsFiniteSet(s) /\ Cardinality(s) \in Nat /\ Cardinality(s) <= Cardinality(S)
  BY FS_Subset, FS_CardinalityType
<1>2. 0 \in G
  <2>1. \A s \in D(0) : s = {}
    BY <1>1, FS_EmptySet
  <2>2. IsFold([s \in D(0) |-> {<<>>}], D(0), values)
    BY <2>1 DEF IsFold
  <2> QED BY <2>2
<1>3. ASSUME NEW n \in Nat, n \in G PROVE n + 1 \in G
  <2>1. PICK g : IsFold(g, D(n), values)
    BY <1>3
  <2> DEFINE F(f, s) == IF s = {} THEN {<<>>}
                        ELSE Extensions(f[s \ {Picked(s)}], Picked(s), values[Picked(s)])
             h == [s \in D(n + 1) |-> F(g, s)]
  <2>2. ASSUME NEW s \in D(n + 1), s # {} PROVE h[s \ {Picked(s)}] = g[s \ {Picked(s)}]
    <3> DEFINE t == s \ {Picked(s)}
    <3>1. Picked(s) \in s
      BY <2>2 DEF Picked
    <3>2. t \in SUBSET S /\ Cardinality(t) = Cardinality(s) - 1
      BY <1>1, <3>1, FS_RemoveElement
    <3>3. t \in D(n) /\ t \in D(n + 1)
      BY <1>1, <3>2
    <3> HIDE DEF t
    <3>4. h[t] = F(g, t)
      BY <3>3
    <3>5. g[t] = F(g, t)
      BY <2>1, <3>3 DEF IsFold
    <3> QED BY <3>4, <3>5 DEF t
  <2>3. IsFold(h, D(n + 1), values)
    <3> DEFINE k == [s \in D(n + 1) |-> F(h, s)]
    <3>1. ASSUME NEW s \in D(n + 1) PROVE h[s] = k[s]
      <4>1. F(g, s) = F(h, s)
        <5>1. CASE s = {}
          BY <5>1
        <5>2. CASE s # {}
          <6>1. h[s \ {Picked(s)}] = g[s \ {Picked(s)}]
            BY <2>2, <5>2
          <6> HIDE DEF h
          <6> QED BY <6>1
        <5> QED BY <5>1, <5>2
      <4> HIDE DEF F
      <4> QED BY <4>1
    <3>2. h = k
      BY <3>1
    <3> QED BY <3>2 DEF IsFold
  <2>4. n + 1 \in Nat
    OBVIOUS
  <2> HIDE DEF h, D
  <2>5. \E k : IsFold(k, D(n + 1), values)
    BY <2>3
  <2> QED BY <2>4, <2>5
<1> HIDE DEF G
<1>4. Cardinality(S) \in Nat /\ Cardinality(S) \in G
  BY <1>1, <1>2, <1>3, NumbersInduction
<1>5. D(Cardinality(S)) = SUBSET S
  BY <1>1
<1> QED BY <1>4, <1>5 DEF G

\* A member of the product has a value for each knob, one of those given.
LEMMA ProductValues ==
  ASSUME NEW values, IsFiniteSet(DOMAIN values), NEW c \in Product(values)
  PROVE  DOMAIN c = DOMAIN values /\ \A k \in DOMAIN values : c[k] \in values[k]
<1> DEFINE S == DOMAIN values
           g == CHOOSE g : IsFold(g, SUBSET S, values)
           G == {T \in SUBSET S : \A d \in g[T] :
                    DOMAIN d = T /\ \A k \in T : d[k] \in values[k]}
<1>1. IsFold(g, SUBSET S, values)
  BY FoldExists
<1>2. c \in g[S]
  BY ProductIs
<1> HIDE DEF g
<1>3. ASSUME NEW T \in SUBSET S, \A x \in T : T \ {x} \in G PROVE T \in G
  <2>1. g[T] = IF T = {} THEN {<<>>}
               ELSE Extensions(g[T \ {Picked(T)}], Picked(T), values[Picked(T)])
    BY <1>1 DEF IsFold
  <2>2. CASE T = {}
    BY <2>1, <2>2
  <2>3. CASE T # {}
    <3>1. Picked(T) \in T
      BY <2>3 DEF Picked
    <3>2. \A d \in g[T \ {Picked(T)}] : DOMAIN d = T \ {Picked(T)}
             /\ \A k \in T \ {Picked(T)} : d[k] \in values[k]
      BY <1>3, <3>1
    <3>3. ASSUME NEW d \in g[T \ {Picked(T)}], NEW v \in values[Picked(T)]
          PROVE  /\ DOMAIN With(d, Picked(T), v) = T
                 /\ \A k \in T : With(d, Picked(T), v)[k] \in values[k]
      BY <3>1, <3>2 DEF With
    <3>4. g[T] = Extensions(g[T \ {Picked(T)}], Picked(T), values[Picked(T)])
      BY <2>1, <2>3
    <3>5. ASSUME NEW e \in g[T]
          PROVE  DOMAIN e = T /\ \A k \in T : e[k] \in values[k]
      <4>1. PICK d \in g[T \ {Picked(T)}], v \in values[Picked(T)] : e = With(d, Picked(T), v)
        BY <3>4 DEF Extensions
      <4> QED BY <3>3, <4>1
    <3> QED BY <3>5
  <2> QED BY <2>2, <2>3
<1>4. IsFiniteSet(S)
  OBVIOUS
<1> HIDE DEF S, G
<1>5. SUBSET S \subseteq G
  BY <1>3, <1>4, RemovalInduction
<1> QED BY <1>2, <1>5 DEF S, G
-----------------------------------------------------------------------------
(* The resources of a worker                                               *)

LEMMA HostDiskType ==
  ASSUME NEW m \in Machines
  PROVE  HostDisk(m) \in [DiskFields -> Nat]
<1>1. HeuristicBudget(m.class) \in [DiskFields -> Nat]
  <2>1. ClassBudget[m.class] \in [DiskFields -> Nat]
    BY ResourcesAssumption DEF Machines
  <2>2. /\ ClassBudget["usb_external"] \in [DiskFields -> Nat]
        /\ ClassBudget["sata_ssd"] \in [DiskFields -> Nat]
    BY ResourcesAssumption
  <2>3. \A f \in DiskFields : Min({ClassBudget["usb_external"][f],
                                   ClassBudget["sata_ssd"][f]}) \in Nat
    BY <2>2, MinOfTwo
  <2> QED BY <2>1, <2>3 DEF HeuristicBudget
<1> DEFINE h == HeuristicBudget(m.class)
<1>2. m.probe = Nothing \/ m.probe \in [DiskFields -> Nat]
  BY DEF Machines
<1>3. CASE m.probe = Nothing
  BY <1>1, <1>3 DEF HostDisk
<1>4. CASE m.probe # Nothing
  <2>1. \A f \in DiskFields : Min({m.probe[f], h[f]}) \in Nat
    BY <1>1, <1>2, <1>4, MinOfTwo
  <2> HIDE DEF h
  <2>2. [f \in DiskFields |-> Min({m.probe[f], h[f]})] \in [DiskFields -> Nat]
    BY <2>1
  <2> QED BY <1>1, <1>4, <2>2 DEF HostDisk, h
<1> QED BY <1>3, <1>4

\* A share of four fifths stays within 95 percent.
LEMMA ShareFits ==
  ASSUME NEW b \in Nat, NEW n \in Nat \ {0}
  PROVE  /\ (4 * b) \div (5 * n) \in Nat
         /\ 20 * ((4 * b) \div (5 * n)) * n <= 19 * b
<1> DEFINE q == (4 * b) \div (5 * n)
<1>1. 5 * n \in Nat \ {0} /\ 4 * b \in Nat
  OBVIOUS
<1>2. q \in Nat /\ (5 * n) * q <= 4 * b
  BY <1>1
<1> HIDE DEF q
<1>3. 20 * q * n = 4 * ((5 * n) * q)
  BY <1>2
<1> QED BY <1>2, <1>3 DEF q

LEMMA MemoryShareFits ==
  ASSUME NEW b \in Nat, NEW n \in Nat \ {0}
  PROVE  /\ ((4 * b) \div 5) \div n \in Nat
         /\ 20 * (((4 * b) \div 5) \div n) * n <= 19 * b
<1> DEFINE a == (4 * b) \div 5
           q == a \div n
<1>1. a \in Nat /\ 5 * a <= 4 * b
  OBVIOUS
<1> HIDE DEF a
<1>2. q \in Nat /\ n * q <= a
  BY <1>1
<1> HIDE DEF q
<1>3. 20 * q * n = 20 * (n * q)
  BY <1>2
<1> QED BY <1>1, <1>2, <1>3 DEF q, a

LEMMA DetectedType ==
  ASSUME NEW m \in Machines, NEW n \in Nat \ {0}
  PROVE  /\ Detected(m, n) \in Hosts
         /\ FitsTheMachine(Detected(m, n), m, n)
<1> DEFINE r == Detected(m, n)
           d == HostDisk(m)
<1>1. m.ram \in Nat /\ m.cpu \in Nat /\ d.bps \in Nat /\ d.iops \in Nat
  BY HostDiskType DEF Machines, DiskFields
<1>2. MinRam \in Nat \ {0} /\ MinBps \in Nat \ {0} /\ MinIops \in Nat \ {0}
  BY ResourcesAssumption
<1>3. r.ram \in Nat /\ (r.ram = MinRam \/ 20 * r.ram * n <= 19 * m.ram)
  <2>1. r.ram = Max({MinRam, ((4 * m.ram) \div 5) \div n})
    BY DEF Detected
  <2>2. /\ ((4 * m.ram) \div 5) \div n \in Nat
        /\ 20 * (((4 * m.ram) \div 5) \div n) * n <= 19 * m.ram
    BY <1>1, MemoryShareFits
  <2>3. r.ram = MinRam \/ r.ram = ((4 * m.ram) \div 5) \div n
    BY <1>2, <2>1, <2>2, MaxOfTwo
  <2> QED BY <1>2, <2>2, <2>3
<1>4. r.cpu \in Nat \ {0} /\ (r.cpu = 1 \/ 20 * r.cpu * n <= 19 * m.cpu)
  <2>1. r.cpu = Max({1, (4 * m.cpu) \div (5 * n)})
    BY DEF Detected
  <2>2. (4 * m.cpu) \div (5 * n) \in Nat /\ 20 * ((4 * m.cpu) \div (5 * n)) * n <= 19 * m.cpu
    BY <1>1, ShareFits
  <2>3. r.cpu >= 1 /\ (r.cpu = 1 \/ r.cpu = (4 * m.cpu) \div (5 * n))
    BY <2>1, <2>2, MaxOfTwo
  <2> HIDE DEF r
  <2> QED BY <2>2, <2>3
<1>5. r.bps \in Nat /\ (r.bps = MinBps \/ 20 * r.bps * n <= 19 * d.bps)
  <2>1. r.bps = Max({MinBps, (4 * d.bps) \div (5 * n)})
    BY DEF Detected, Partition
  <2>2. (4 * d.bps) \div (5 * n) \in Nat
    BY <1>1, ShareFits
  <2>3. r.bps = MinBps \/ r.bps = (4 * d.bps) \div (5 * n)
    BY <1>2, <2>1, <2>2, MaxOfTwo
  <2> QED BY <1>1, <1>2, <2>2, <2>3, ShareFits
<1>6. r.iops \in Nat /\ (r.iops = MinIops \/ 20 * r.iops * n <= 19 * d.iops)
  <2>1. r.iops = Max({MinIops, (4 * d.iops) \div (5 * n)})
    BY DEF Detected, Partition
  <2>2. (4 * d.iops) \div (5 * n) \in Nat
    BY <1>1, ShareFits
  <2>3. r.iops = MinIops \/ r.iops = (4 * d.iops) \div (5 * n)
    BY <1>2, <2>1, <2>2, MaxOfTwo
  <2> QED BY <1>1, <1>2, <2>2, <2>3, ShareFits
<1>7. r.disk \in {"HDD", "SSD", "unknown"}
  BY DEF Detected, DiskTypeOf
<1>8. r = [ram |-> r.ram, cpu |-> r.cpu, disk |-> r.disk, bps |-> r.bps, iops |-> r.iops]
  BY DEF Detected
<1> HIDE DEF r
<1>9. r \in Hosts
  BY <1>3, <1>4, <1>5, <1>6, <1>7, <1>8 DEF Hosts
<1> QED BY <1>3, <1>4, <1>5, <1>6, <1>9 DEF r, FitsTheMachine

LEMMA RequestedType ==
  ASSUME NEW m \in Machines, NEW n \in Nat \ {0}, NEW asked \in Amounts
  PROVE  /\ Requested(m, n, asked) \in Hosts
         /\ ~Exceeds(m, n, asked) => FitsTheMachine(Requested(m, n, asked), m, n)
<1> DEFINE r == Requested(m, n, asked)
           auto == Detected(m, n)
<1>1. auto \in Hosts /\ FitsTheMachine(auto, m, n)
  BY DetectedType
<1>2. /\ asked.ram \in Nat /\ asked.cpu \in Nat /\ asked.bps \in Nat /\ asked.iops \in Nat
  BY DEF Amounts
<1> HIDE DEF auto
<1>3. r = [auto EXCEPT !.ram = Asked(asked.ram, @), !.cpu = Asked(asked.cpu, @),
                       !.bps = Asked(asked.bps, @), !.iops = Asked(asked.iops, @)]
  BY DEF Requested, auto
<1>4. /\ r.ram = Asked(asked.ram, auto.ram) /\ r.cpu = Asked(asked.cpu, auto.cpu)
      /\ r.bps = Asked(asked.bps, auto.bps) /\ r.iops = Asked(asked.iops, auto.iops)
  BY <1>1, <1>3 DEF Hosts
<1>5. r \in Hosts
  BY <1>1, <1>2, <1>3 DEF Hosts, Asked
<1> HIDE DEF r
<1>6. ASSUME ~Exceeds(m, n, asked) PROVE FitsTheMachine(r, m, n)
  <2>1. /\ ~(20 * r.ram * n > 19 * m.ram) /\ ~(20 * r.cpu * n > 19 * m.cpu)
        /\ asked.bps > 0 => ~(20 * r.bps * n > 19 * HostDisk(m).bps)
        /\ asked.iops > 0 => ~(20 * r.iops * n > 19 * HostDisk(m).iops)
    BY <1>6 DEF Exceeds, DiskFields, r
  <2>2. /\ r.ram \in Nat /\ r.cpu \in Nat /\ r.bps \in Nat /\ r.iops \in Nat
        /\ m.ram \in Nat /\ m.cpu \in Nat
        /\ HostDisk(m).bps \in Nat /\ HostDisk(m).iops \in Nat
    BY <1>5, HostDiskType DEF Hosts, Machines, DiskFields
  <2>3. /\ 20 * r.ram * n \in Nat /\ 20 * r.cpu * n \in Nat
        /\ 20 * r.bps * n \in Nat /\ 20 * r.iops * n \in Nat
    BY <2>2
  <2>4. 20 * r.ram * n <= 19 * m.ram /\ 20 * r.cpu * n <= 19 * m.cpu
    BY <2>1, <2>2, <2>3
  <2>5. r.bps = MinBps \/ 20 * r.bps * n <= 19 * HostDisk(m).bps
    BY <1>1, <1>2, <1>4, <2>1, <2>2, <2>3 DEF Asked, FitsTheMachine
  <2>6. r.iops = MinIops \/ 20 * r.iops * n <= 19 * HostDisk(m).iops
    BY <1>1, <1>2, <1>4, <2>1, <2>2, <2>3 DEF Asked, FitsTheMachine
  <2> QED BY <2>4, <2>5, <2>6 DEF FitsTheMachine
<1> QED BY <1>5, <1>6 DEF r

LEMMA ResourcesType ==
  ASSUME NEW s \in Sessions
  PROVE  /\ ResourcesOf(s) \in Hosts /\ ResourcesOf(s).ram >= 4000
         /\ FitsTheMachine(ResourcesOf(s), s.machine, s.workers)
<1>1. s.machine \in Machines /\ s.workers \in Nat \ {0} /\ s.asked \in Amounts
  BY KnobSpaceAssumption
<1>2. ResourcesOf(s).ram >= 4000
  BY KnobSpaceAssumption
<1> QED BY <1>1, <1>2, DetectedType, RequestedType DEF ResourcesOf, WorkerResources
-----------------------------------------------------------------------------
(* Ranges and rounding                                                     *)

LEMMA RoundedMonotone ==
  ASSUME NEW n \in Int, NEW m \in Int, n <= m, NEW d \in Nat \ {0}
  PROVE  Rounded(n, d) <= Rounded(m, d)
<1> DEFINE q == n \div d
           r == n % d
           p == m \div d
           s == m % d
<1>1. q \in Int /\ r \in 0..d-1 /\ n = d * q + r
  OBVIOUS
<1>2. p \in Int /\ s \in 0..d-1 /\ m = d * p + s
  OBVIOUS
<1>3. /\ Rounded(n, d) = IF 2 * r > d \/ (2 * r = d /\ q % 2 = 1) THEN q + 1 ELSE q
      /\ Rounded(m, d) = IF 2 * s > d \/ (2 * s = d /\ p % 2 = 1) THEN p + 1 ELSE p
  BY DEF Rounded
<1> HIDE DEF q, r, p, s
<1>4. q <= p
  <2> SUFFICES ASSUME q >= p + 1 PROVE FALSE
    BY <1>1, <1>2
  <2>1. d * q >= d * (p + 1)
    BY <1>1, <1>2
  <2>2. d * (p + 1) = d * p + d
    BY <1>2
  <2> QED BY <1>1, <1>2, <2>1, <2>2
<1>5. q = p => r <= s
  BY <1>1, <1>2
<1> QED BY <1>1, <1>2, <1>3, <1>4, <1>5

LEMMA RoundedWhole ==
  ASSUME NEW n \in Int
  PROVE  Rounded(n, 1) = n
BY RoundedOfMultiple

Numbers == {k \in Knobs : Numeric(k)}

LEMMA NumbersAre ==
  /\ Numbers = DOMAIN RamRange \cup DOMAIN CpuRange \cup DOMAIN DiskRange \cup DOMAIN NativeRange
  /\ DOMAIN RamRange = {"shared_buffers", "work_mem", "maintenance_work_mem"}
  /\ DOMAIN CpuRange = {"max_worker_processes", "max_parallel_workers",
                        "max_parallel_maintenance_workers"}
  /\ DOMAIN DiskRange = {"effective_io_concurrency"}
  /\ DOMAIN NativeRange = {"max_connections", "reserved_connections",
         "superuser_reserved_connections", "max_wal_senders",
         "max_logical_replication_workers", "min_wal_size", "max_wal_size",
         "transaction_buffers", "notify_buffers"}
BY DEF Numbers, Knobs, Default, Numeric, EnumValues, RamRange, CpuRange, DiskRange, NativeRange

LEMMA RamRanges ==
  ASSUME NEW h \in Hosts
  PROVE  /\ RangeOn("shared_buffers", h) = <<(h.ram * 150) \div 1000, (h.ram * 400) \div 1000>>
         /\ RangeOn("work_mem", h) = <<(h.ram * 1) \div 1000, (h.ram * 20) \div 1000>>
         /\ RangeOn("maintenance_work_mem", h) = <<(h.ram * 10) \div 1000, (h.ram * 50) \div 1000>>
<1>1. /\ RamRange["shared_buffers"] = <<150, 400>>
      /\ RamRange["work_mem"] = <<1, 20>>
      /\ RamRange["maintenance_work_mem"] = <<10, 50>>
  BY DEF RamRange
<1>2. ASSUME NEW k \in DOMAIN RamRange
      PROVE  RangeOn(k, h) = <<(h.ram * RamRange[k][1]) \div 1000,
                               (h.ram * RamRange[k][2]) \div 1000>>
  <2>1. k \notin DOMAIN CpuRange /\ k \notin DOMAIN DiskRange
    BY NumbersAre
  <2> QED BY <2>1 DEF RangeOn
<1>3. {"shared_buffers", "work_mem", "maintenance_work_mem"} \subseteq DOMAIN RamRange
  BY NumbersAre
<1> QED BY <1>1, <1>2, <1>3

AtLeast(a, b) == Max({a, b})

LEMMA AtLeastIs ==
  ASSUME NEW a \in Int, NEW b \in Int
  PROVE  AtLeast(a, b) = IF a >= b THEN a ELSE b
BY MaxOfTwo DEF AtLeast

LEMMA CpuRanges ==
  ASSUME NEW h \in Hosts
  PROVE  /\ RangeOn("max_worker_processes", h)
              = <<AtLeast(4, Rounded(h.cpu * 500, 1000)), AtLeast(4, Rounded(h.cpu * 2000, 1000))>>
         /\ RangeOn("max_parallel_workers", h)
              = <<AtLeast(0, Rounded(h.cpu * 250, 1000)), AtLeast(0, Rounded(h.cpu * 1000, 1000))>>
         /\ RangeOn("max_parallel_maintenance_workers", h)
              = <<AtLeast(0, Rounded(h.cpu * 0, 1000)), AtLeast(0, Rounded(h.cpu * 500, 1000))>>
<1>1. /\ CpuRange["max_worker_processes"] = <<500, 2000, 4>>
      /\ CpuRange["max_parallel_workers"] = <<250, 1000, 0>>
      /\ CpuRange["max_parallel_maintenance_workers"] = <<0, 500, 0>>
  BY DEF CpuRange
<1>2. ASSUME NEW k \in DOMAIN CpuRange
      PROVE  RangeOn(k, h) = <<AtLeast(CpuRange[k][3], Rounded(h.cpu * CpuRange[k][1], 1000)),
                               AtLeast(CpuRange[k][3], Rounded(h.cpu * CpuRange[k][2], 1000))>>
  <2>1. k \notin DOMAIN RamRange /\ k \notin DOMAIN DiskRange
    BY NumbersAre
  <2> QED BY <2>1 DEF RangeOn, AtLeast
<1>3. {"max_worker_processes", "max_parallel_workers", "max_parallel_maintenance_workers"}
        \subseteq DOMAIN CpuRange
  BY NumbersAre
<1> QED BY <1>1, <1>2, <1>3

LEMMA FixedRanges ==
  ASSUME NEW h \in Hosts
  PROVE  /\ RangeOn("max_connections", h) = <<50, 200>>
         /\ RangeOn("reserved_connections", h) = <<0, 5>>
         /\ RangeOn("superuser_reserved_connections", h) = <<0, 5>>
         /\ RangeOn("max_wal_senders", h) = <<0, 10>>
         /\ RangeOn("max_logical_replication_workers", h) = <<0, 10>>
         /\ RangeOn("min_wal_size", h) = <<80, 2048>>
         /\ RangeOn("max_wal_size", h) = <<80, 10240>>
         /\ RangeOn("transaction_buffers", h) = <<16, 1024>>
         /\ RangeOn("notify_buffers", h) = <<16, 64>>
<1>1. ASSUME NEW k \in DOMAIN NativeRange
      PROVE  RangeOn(k, h) = FixedRange(k)
  <2>1. k \notin DOMAIN RamRange /\ k \notin DOMAIN CpuRange /\ k \notin DOMAIN DiskRange
    BY NumbersAre
  <2> QED BY <2>1 DEF RangeOn
<1>2. ASSUME NEW k, NEW a \in Int, NEW b \in Int, NEW c \in Int, NEW d \in Int,
             NativeRange[k] = <<a, b>>, TuningRange[k] = <<c, d>>, c <= b, a <= d, c <= d, a <= b
      PROVE  FixedRange(k) = <<IF a >= c THEN a ELSE c, IF b <= d THEN b ELSE d>>
  <2>1. /\ Max({a, c}) = IF a >= c THEN a ELSE c
        /\ Min({b, d}) = IF b <= d THEN b ELSE d
    BY MaxOfTwo, MinOfTwo
  <2> QED BY <1>2, <2>1 DEF FixedRange
<1>3. RangeOn("max_connections", h) = <<50, 200>>
  <2>1. "max_connections" \in DOMAIN NativeRange
        /\ NativeRange["max_connections"] = <<1, 262143>>
        /\ TuningRange["max_connections"] = <<50, 200>>
    BY NumbersAre DEF NativeRange, TuningRange
  <2> QED BY <1>1, <1>2, <2>1
<1>4. RangeOn("reserved_connections", h) = <<0, 5>>
  <2>1. "reserved_connections" \in DOMAIN NativeRange
        /\ NativeRange["reserved_connections"] = <<0, 262143>>
        /\ TuningRange["reserved_connections"] = <<0, 5>>
    BY NumbersAre DEF NativeRange, TuningRange
  <2> QED BY <1>1, <1>2, <2>1
<1>5. RangeOn("superuser_reserved_connections", h) = <<0, 5>>
  <2>1. "superuser_reserved_connections" \in DOMAIN NativeRange
        /\ NativeRange["superuser_reserved_connections"] = <<0, 262143>>
        /\ TuningRange["superuser_reserved_connections"] = <<0, 5>>
    BY NumbersAre DEF NativeRange, TuningRange
  <2> QED BY <1>1, <1>2, <2>1
<1>6. RangeOn("max_wal_senders", h) = <<0, 10>>
  <2>1. "max_wal_senders" \in DOMAIN NativeRange
        /\ NativeRange["max_wal_senders"] = <<0, 262143>>
        /\ TuningRange["max_wal_senders"] = <<0, 10>>
    BY NumbersAre DEF NativeRange, TuningRange
  <2> QED BY <1>1, <1>2, <2>1
<1>7. RangeOn("max_logical_replication_workers", h) = <<0, 10>>
  <2>1. "max_logical_replication_workers" \in DOMAIN NativeRange
        /\ NativeRange["max_logical_replication_workers"] = <<0, 262143>>
        /\ TuningRange["max_logical_replication_workers"] = <<0, 10>>
    BY NumbersAre DEF NativeRange, TuningRange
  <2> QED BY <1>1, <1>2, <2>1
<1>8. RangeOn("min_wal_size", h) = <<80, 2048>>
  <2>1. "min_wal_size" \in DOMAIN NativeRange
        /\ NativeRange["min_wal_size"] = <<2, 1000000>>
        /\ TuningRange["min_wal_size"] = <<80, 2048>>
    BY NumbersAre DEF NativeRange, TuningRange
  <2> QED BY <1>1, <1>2, <2>1
<1>9. RangeOn("max_wal_size", h) = <<80, 10240>>
  <2>1. "max_wal_size" \in DOMAIN NativeRange
        /\ NativeRange["max_wal_size"] = <<2, 1000000>>
        /\ TuningRange["max_wal_size"] = <<80, 10240>>
    BY NumbersAre DEF NativeRange, TuningRange
  <2> QED BY <1>1, <1>2, <2>1
<1>10. RangeOn("transaction_buffers", h) = <<16, 1024>>
  <2>1. "transaction_buffers" \in DOMAIN NativeRange
        /\ NativeRange["transaction_buffers"] = <<0, 131072>>
        /\ TuningRange["transaction_buffers"] = <<16, 1024>>
    BY NumbersAre DEF NativeRange, TuningRange
  <2> QED BY <1>1, <1>2, <2>1
<1>11. RangeOn("notify_buffers", h) = <<16, 64>>
  <2>1. "notify_buffers" \in DOMAIN NativeRange
        /\ NativeRange["notify_buffers"] = <<16, 131072>>
        /\ TuningRange["notify_buffers"] = <<4, 64>>
    BY NumbersAre DEF NativeRange, TuningRange
  <2> QED BY <1>1, <1>2, <2>1
<1> QED BY <1>3, <1>4, <1>5, <1>6, <1>7, <1>8, <1>9, <1>10, <1>11

LEMMA DiskRanges ==
  ASSUME NEW h \in Hosts
  PROVE  RangeOn("effective_io_concurrency", h) \in {<<100, 200>>, <<1, 4>>, <<1, 200>>}
<1>1. h.disk = "SSD" \/ h.disk = "HDD" \/ h.disk = "unknown"
  BY DEF Hosts
<1>2. RangeOn("effective_io_concurrency", h) = DiskRange["effective_io_concurrency"][h.disk]
  BY DEF RangeOn, RamRange, CpuRange, DiskRange
<1> QED BY <1>1, <1>2 DEF DiskRange

\* The range of a number on any host: an interval, whose ends lie on the grid.
LEMMA RangeType ==
  ASSUME NEW k \in Numbers, NEW h \in Hosts
  PROVE  /\ RangeOn(k, h)[1] \in Nat /\ RangeOn(k, h)[2] \in Nat
         /\ RangeOn(k, h)[1] <= RangeOn(k, h)[2]
         /\ GridOf(k) = 1 \/ (GridOf(k) = 16 /\ RangeOn(k, h)[1] = 16
                              /\ RangeOn(k, h)[2] \in {64, 1024})
<1>0. h.ram \in Nat /\ h.cpu \in Nat
  BY DEF Hosts
<1>1. CASE k \in DOMAIN RamRange
  BY <1>0, <1>1, NumbersAre, RamRanges DEF GridOf
<1>2. CASE k \in DOMAIN CpuRange
  <2>1. ASSUME NEW f \in Nat, NEW n \in Nat, NEW m \in Nat, n <= m
        PROVE  /\ AtLeast(f, Rounded(n, 1000)) \in Nat /\ AtLeast(f, Rounded(m, 1000)) \in Nat
               /\ AtLeast(f, Rounded(n, 1000)) <= AtLeast(f, Rounded(m, 1000))
    <3>1. /\ Rounded(n, 1000) \in Int /\ Rounded(m, 1000) \in Int
          /\ Rounded(n, 1000) <= Rounded(m, 1000)
      BY <2>1, RoundedInt, RoundedMonotone
    <3> QED BY <3>1, AtLeastIs
  <2>2. k = "max_worker_processes" \/ k = "max_parallel_workers"
          \/ k = "max_parallel_maintenance_workers"
    BY <1>2, NumbersAre
  <2> DEFINE none == h.cpu * 0
             quarter == h.cpu * 250
             half == h.cpu * 500
             all == h.cpu * 1000
             twice == h.cpu * 2000
  <2>3. /\ none \in Nat /\ quarter \in Nat /\ half \in Nat /\ all \in Nat /\ twice \in Nat
        /\ none <= half /\ quarter <= all /\ half <= twice
    BY <1>0
  <2>4. GridOf(k) = 1
    BY <2>2 DEF GridOf
  <2>5. CASE k = "max_worker_processes"
    <3>1. RangeOn(k, h) = <<AtLeast(4, Rounded(half, 1000)), AtLeast(4, Rounded(twice, 1000))>>
      BY <2>5, CpuRanges
    <3> HIDE DEF half, twice
    <3> QED BY <2>1, <2>3, <2>4, <3>1
  <2>6. CASE k = "max_parallel_workers"
    <3>1. RangeOn(k, h) = <<AtLeast(0, Rounded(quarter, 1000)), AtLeast(0, Rounded(all, 1000))>>
      BY <2>6, CpuRanges
    <3> HIDE DEF quarter, all
    <3> QED BY <2>1, <2>3, <2>4, <3>1
  <2>7. CASE k = "max_parallel_maintenance_workers"
    <3>1. RangeOn(k, h) = <<AtLeast(0, Rounded(none, 1000)), AtLeast(0, Rounded(half, 1000))>>
      BY <2>7, CpuRanges
    <3> HIDE DEF none, half
    <3> QED BY <2>1, <2>3, <2>4, <3>1
  <2> QED BY <2>2, <2>5, <2>6, <2>7
<1>3. CASE k \in DOMAIN DiskRange
  <2>1. k = "effective_io_concurrency"
    BY <1>3, NumbersAre
  <2>2. GridOf(k) = 1
    BY <2>1 DEF GridOf
  <2>3. RangeOn(k, h) = <<100, 200>> \/ RangeOn(k, h) = <<1, 4>> \/ RangeOn(k, h) = <<1, 200>>
    BY <2>1, DiskRanges
  <2> QED BY <2>2, <2>3
<1>4. CASE k \in DOMAIN NativeRange
  BY <1>4, NumbersAre, FixedRanges DEF GridOf
<1> QED BY <1>1, <1>2, <1>3, <1>4, NumbersAre
-----------------------------------------------------------------------------
(* Normalization and perturbation of a number                              *)

LEMMA ClampIs ==
  ASSUME NEW k \in Numbers, NEW h \in Hosts, NEW v \in Int
  PROVE  Clamp(k, v, h) = IF v < RangeOn(k, h)[1] THEN RangeOn(k, h)[1]
                          ELSE IF v > RangeOn(k, h)[2] THEN RangeOn(k, h)[2] ELSE v
<1> DEFINE lo == RangeOn(k, h)[1]
           hi == RangeOn(k, h)[2]
<1>1. lo \in Nat /\ hi \in Nat /\ lo <= hi
  BY RangeType
<1>2. Clamp(k, v, h) = Min({Max({v, lo}), hi})
  BY DEF Clamp
<1> HIDE DEF lo, hi
<1>3. Max({v, lo}) = IF v >= lo THEN v ELSE lo
  BY <1>1, MaxOfTwo
<1>4. Min({Max({v, lo}), hi}) = IF Max({v, lo}) <= hi THEN Max({v, lo}) ELSE hi
  BY <1>1, <1>3, MinOfTwo
<1>5. Clamp(k, v, h) = IF v < lo THEN lo ELSE IF v > hi THEN hi ELSE v
  BY <1>1, <1>2, <1>3, <1>4
<1> QED BY <1>5 DEF lo, hi

\* On a grid, the grid point nearest to the clamped number.
LEMMA NormalizeIs ==
  ASSUME NEW k \in Numbers, NEW h \in Hosts, NEW n \in Int, NEW d \in Nat \ {0}
  PROVE  LET c == Clamp(k, Rounded(n, d), h)
         IN  Normalize(k, n, d, h) = IF GridOf(k) = 1 THEN c ELSE 16 + Rounded(c - 16, 16) * 16
<1> DEFINE lo == RangeOn(k, h)[1]
           hi == RangeOn(k, h)[2]
           c == Clamp(k, Rounded(n, d), h)
           g == lo + Rounded(c - lo, GridOf(k)) * GridOf(k)
<1>1. lo \in Nat /\ hi \in Nat /\ lo <= hi
      /\ (GridOf(k) = 1 \/ (GridOf(k) = 16 /\ lo = 16 /\ hi \in {64, 1024}))
  BY RangeType
<1>2. c \in Int /\ lo <= c /\ c <= hi
  <2>1. Rounded(n, d) \in Int
    BY RoundedInt
  <2>2. c = IF Rounded(n, d) < lo THEN lo ELSE IF Rounded(n, d) > hi THEN hi ELSE Rounded(n, d)
    BY <2>1, ClampIs
  <2> HIDE DEF c, lo, hi
  <2> QED BY <1>1, <2>1, <2>2
<1>3. Normalize(k, n, d, h) = IF GridOf(k) = 1 THEN c ELSE Clamp(k, g, h)
  BY DEF Normalize
<1>4. CASE GridOf(k) = 1
  BY <1>3, <1>4
<1>5. CASE GridOf(k) # 1
  <2>1. GridOf(k) = 16 /\ lo = 16 /\ (hi = 64 \/ hi = 1024)
    BY <1>1, <1>5
  <2> DEFINE r == Rounded(c - 16, 16)
  <2> HIDE DEF c, lo, hi
  <2>2. r \in Int /\ r * 16 >= c - 24 /\ r * 16 <= c - 8
    <3>1. c - 16 \in Int /\ 16 \in Nat \ {0}
      BY <1>2
    <3>2. r \in Int
      BY <3>1, RoundedInt
    <3>3. 2 * 16 * r - 2 * (c - 16) <= 16 /\ 2 * (c - 16) - 2 * 16 * r <= 16
      BY <3>1, RoundedNear
    <3> QED BY <1>2, <3>2, <3>3
  <2>3. 16 + r * 16 >= lo /\ 16 + r * 16 <= hi
    BY <1>2, <2>1, <2>2
  <2>4. Clamp(k, 16 + r * 16, h) = 16 + r * 16
    <3>1. 16 + r * 16 \in Int
      BY <2>2
    <3>2. Clamp(k, 16 + r * 16, h) = IF 16 + r * 16 < lo THEN lo
                                     ELSE IF 16 + r * 16 > hi THEN hi ELSE 16 + r * 16
      BY <3>1, ClampIs DEF lo, hi
    <3> QED BY <2>3, <1>1, <3>1, <3>2
  <2>5. g = 16 + r * 16
    BY <2>1
  <2> QED BY <1>3, <1>5, <2>4, <2>5 DEF c
<1> QED BY <1>4, <1>5

LEMMA NormalizeInRange ==
  ASSUME NEW k \in Numbers, NEW h \in Hosts, NEW n \in Int, NEW d \in Nat \ {0}
  PROVE  /\ Normalize(k, n, d, h) \in Nat
         /\ InRange(k, Normalize(k, n, d, h), h)
<1> DEFINE lo == RangeOn(k, h)[1]
           hi == RangeOn(k, h)[2]
           c == Clamp(k, Rounded(n, d), h)
           r == Rounded(c - 16, 16)
           v == Normalize(k, n, d, h)
<1>1. lo \in Nat /\ hi \in Nat /\ lo <= hi
      /\ (GridOf(k) = 1 \/ (GridOf(k) = 16 /\ lo = 16 /\ hi \in {64, 1024}))
  BY RangeType
<1>2. c \in Int /\ lo <= c /\ c <= hi
  <2>1. Rounded(n, d) \in Int
    BY RoundedInt
  <2>2. c = IF Rounded(n, d) < lo THEN lo ELSE IF Rounded(n, d) > hi THEN hi ELSE Rounded(n, d)
    BY <2>1, ClampIs
  <2> HIDE DEF c, lo, hi
  <2> QED BY <1>1, <2>1, <2>2
<1>3. v = IF GridOf(k) = 1 THEN c ELSE 16 + r * 16
  BY NormalizeIs
<1>4. v \in Nat /\ lo <= v /\ v <= hi /\ (v - lo) % GridOf(k) = 0
  <2> HIDE DEF c, lo, hi, v
  <2>1. r \in Int /\ r * 16 >= c - 24 /\ r * 16 <= c - 8
    <3>1. c - 16 \in Int /\ 16 \in Nat \ {0}
      BY <1>2
    <3>2. r \in Int
      BY <3>1, RoundedInt
    <3>3. 2 * 16 * r - 2 * (c - 16) <= 16 /\ 2 * (c - 16) - 2 * 16 * r <= 16
      BY <3>1, RoundedNear
    <3> QED BY <1>2, <3>2, <3>3
  <2>2. CASE GridOf(k) = 1
    BY <1>1, <1>2, <1>3, <2>2
  <2>3. CASE GridOf(k) = 16
    <3> HIDE DEF r
    <3>1. lo = 16 /\ (hi = 64 \/ hi = 1024) /\ v = 16 + r * 16
      BY <1>1, <1>3, <2>3
    <3>2. (v - lo) % 16 = 0
      BY <2>1, <3>1
    <3> QED BY <1>2, <2>1, <2>3, <3>1, <3>2
  <2> QED BY <1>1, <2>2, <2>3
<1> QED BY <1>4 DEF InRange

\* A value that is in range and on the grid is kept.
LEMMA NormalizeKeeps ==
  ASSUME NEW k \in Numbers, NEW h \in Hosts, NEW n \in Int, NEW d \in Nat \ {0},
         InRange(k, Rounded(n, d), h)
  PROVE  Normalize(k, n, d, h) = Rounded(n, d)
<1> DEFINE lo == RangeOn(k, h)[1]
           hi == RangeOn(k, h)[2]
           v == Rounded(n, d)
<1>1. lo \in Nat /\ hi \in Nat
      /\ (GridOf(k) = 1 \/ (GridOf(k) = 16 /\ lo = 16 /\ hi \in {64, 1024}))
  BY RangeType
<1>2. v \in Int
  BY RoundedInt
<1>3. lo <= v /\ v <= hi /\ (v - lo) % GridOf(k) = 0
  BY DEF InRange
<1>4. Clamp(k, v, h) = v
  BY <1>1, <1>2, <1>3, ClampIs
<1>5. Normalize(k, n, d, h) = IF GridOf(k) = 1 THEN v ELSE 16 + Rounded(v - 16, 16) * 16
  BY <1>4, NormalizeIs
<1> HIDE DEF lo, hi, v
<1>6. CASE GridOf(k) = 16
  <2>1. v - 16 = ((v - 16) \div 16) * 16 /\ (v - 16) \div 16 \in Int
    BY <1>1, <1>2, <1>3, <1>6
  <2>2. Rounded(v - 16, 16) = (v - 16) \div 16
    BY <2>1, RoundedOfMultiple
  <2> DEFINE m == (v - 16) \div 16
  <2> HIDE DEF m
  <2>3. 16 + Rounded(v - 16, 16) * 16 = v
    <3>1. v - 16 = m * 16 /\ m \in Int /\ Rounded(v - 16, 16) = m
      BY <2>1, <2>2 DEF m
    <3> QED BY <1>2, <3>1
  <2> QED BY <1>5, <1>6, <2>3 DEF v
<1> QED BY <1>1, <1>5, <1>6 DEF v

\* A number beyond the next grid point is brought there or to the end of the
\* range, and not back.
LEMMA NormalizeUp ==
  ASSUME NEW k \in Numbers, NEW h \in Hosts, NEW n \in Int, NEW d \in Nat \ {0},
         NEW v \in Nat, InRange(k, v, h), Rounded(n, d) >= v + GridOf(k)
  PROVE  Normalize(k, n, d, h) >= v + GridOf(k) \/ Normalize(k, n, d, h) = RangeOn(k, h)[2]
<1> DEFINE lo == RangeOn(k, h)[1]
           hi == RangeOn(k, h)[2]
           x == Rounded(n, d)
           c == Clamp(k, x, h)
<1>1. lo \in Nat /\ hi \in Nat
      /\ (GridOf(k) = 1 \/ (GridOf(k) = 16 /\ lo = 16 /\ (hi = 64 \/ hi = 1024)))
  BY RangeType
<1>2. x \in Int
  BY RoundedInt
<1>3. lo <= v /\ v <= hi /\ (v - lo) % GridOf(k) = 0
  BY DEF InRange
<1>4. c = IF x < lo THEN lo ELSE IF x > hi THEN hi ELSE x
  BY <1>2, ClampIs
<1>5. Normalize(k, n, d, h) = IF GridOf(k) = 1 THEN c ELSE 16 + Rounded(c - 16, 16) * 16
  BY NormalizeIs
<1>6. x >= v + GridOf(k)
  OBVIOUS
<1> HIDE DEF lo, hi, x, c
<1>7. CASE GridOf(k) = 1
  BY <1>1, <1>2, <1>3, <1>4, <1>5, <1>6, <1>7 DEF hi
<1>8. CASE GridOf(k) = 16
  <2> DEFINE m == (v - 16) \div 16
             M == (hi - 16) \div 16
             least == IF m + 1 <= M THEN m + 1 ELSE M
             r == Rounded(c - 16, 16)
  <2>1. m \in Int /\ M \in Int /\ v = 16 + m * 16 /\ hi = 16 + M * 16 /\ m <= M
    BY <1>1, <1>3, <1>8
  <2> HIDE DEF m, M
  <2>2. c \in Int /\ c <= hi /\ least \in Int /\ least * 16 <= c - 16
    BY <1>1, <1>2, <1>3, <1>4, <1>6, <1>8, <2>1
  <2> HIDE DEF least
  <2>3. Rounded(least * 16, 16) <= r /\ Rounded(least * 16, 16) = least
    <3>1. c - 16 \in Int /\ least * 16 \in Int /\ 16 \in Nat \ {0}
      BY <2>2
    <3> QED BY <2>2, <3>1, RoundedMonotone, RoundedOfMultiple
  <2>4. r \in Int /\ Rounded(M * 16, 16) = M /\ r <= Rounded(M * 16, 16)
    <3>1. c - 16 \in Int /\ M * 16 \in Int /\ 16 \in Nat \ {0} /\ c - 16 <= M * 16
      BY <2>1, <2>2
    <3> QED BY <2>1, <3>1, RoundedInt, RoundedMonotone, RoundedOfMultiple
  <2>5. r >= least /\ r <= M
    BY <2>3, <2>4
  <2>6. Normalize(k, n, d, h) = 16 + r * 16
    BY <1>5, <1>8
  <2> HIDE DEF r
  <2>7. r >= m + 1 \/ r = M
    BY <2>1, <2>2, <2>4, <2>5 DEF least
  <2> QED BY <1>8, <2>1, <2>4, <2>6, <2>7 DEF hi
<1> QED BY <1>1, <1>7, <1>8

LEMMA NormalizeDown ==
  ASSUME NEW k \in Numbers, NEW h \in Hosts, NEW n \in Int, NEW d \in Nat \ {0},
         NEW v \in Nat, InRange(k, v, h), Rounded(n, d) <= v - GridOf(k)
  PROVE  Normalize(k, n, d, h) <= v - GridOf(k) \/ Normalize(k, n, d, h) = RangeOn(k, h)[1]
<1> DEFINE lo == RangeOn(k, h)[1]
           hi == RangeOn(k, h)[2]
           x == Rounded(n, d)
           c == Clamp(k, x, h)
<1>1. lo \in Nat /\ hi \in Nat
      /\ (GridOf(k) = 1 \/ (GridOf(k) = 16 /\ lo = 16 /\ (hi = 64 \/ hi = 1024)))
  BY RangeType
<1>2. x \in Int
  BY RoundedInt
<1>3. lo <= v /\ v <= hi /\ (v - lo) % GridOf(k) = 0
  BY DEF InRange
<1>4. c = IF x < lo THEN lo ELSE IF x > hi THEN hi ELSE x
  BY <1>2, ClampIs
<1>5. Normalize(k, n, d, h) = IF GridOf(k) = 1 THEN c ELSE 16 + Rounded(c - 16, 16) * 16
  BY NormalizeIs
<1>6. x <= v - GridOf(k)
  OBVIOUS
<1> HIDE DEF lo, hi, x, c
<1>7. CASE GridOf(k) = 1
  BY <1>1, <1>2, <1>3, <1>4, <1>5, <1>6, <1>7 DEF lo
<1>8. CASE GridOf(k) = 16
  <2> DEFINE m == (v - 16) \div 16
             most == IF m >= 1 THEN m - 1 ELSE 0
             r == Rounded(c - 16, 16)
  <2>1. m \in Int /\ v = 16 + m * 16 /\ m >= 0 /\ lo = 16
    BY <1>1, <1>3, <1>8
  <2> HIDE DEF m
  <2>2. c \in Int /\ c >= 16 /\ most \in Int /\ c - 16 <= most * 16
    BY <1>1, <1>2, <1>3, <1>4, <1>6, <1>8, <2>1
  <2> HIDE DEF most
  <2>3. r <= Rounded(most * 16, 16) /\ Rounded(most * 16, 16) = most
    <3>1. c - 16 \in Int /\ most * 16 \in Int /\ 16 \in Nat \ {0}
      BY <2>2
    <3> QED BY <2>2, <3>1, RoundedMonotone, RoundedOfMultiple
  <2>4. r \in Int /\ Rounded(0 * 16, 16) = 0 /\ Rounded(0 * 16, 16) <= r
    <3>1. c - 16 \in Int /\ 0 * 16 \in Int /\ 16 \in Nat \ {0} /\ 0 * 16 <= c - 16
      BY <2>2
    <3>2. r \in Int
      BY <3>1, RoundedInt
    <3>3. Rounded(0 * 16, 16) = 0
      BY <3>1, RoundedOfMultiple
    <3>4. Rounded(0 * 16, 16) <= r
      BY <3>1, RoundedMonotone
    <3> QED BY <3>2, <3>3, <3>4
  <2>5. Normalize(k, n, d, h) = 16 + r * 16
    BY <1>5, <1>8
  <2> HIDE DEF r
  <2>6. r <= m - 1 \/ r = 0
    BY <2>1, <2>2, <2>3, <2>4 DEF most
  <2> QED BY <1>8, <2>1, <2>4, <2>5, <2>6 DEF lo
<1> QED BY <1>1, <1>7, <1>8

\* A factor moves a number of the range its own way.
LEMMA FactorMoves ==
  ASSUME NEW k \in Numbers, NEW h \in Hosts, NEW v \in Nat, InRange(k, v, h),
         NEW f \in Nat, f # 100
  PROVE  LET p == PerturbedNumber(k, v, f, h)
         IN  /\ p \in Nat /\ InRange(k, p, h)
             /\ f > 100 => p >= v + GridOf(k) \/ p = RangeOn(k, h)[2]
             /\ f < 100 => p <= v - GridOf(k) \/ p = RangeOn(k, h)[1]
<1> DEFINE delta == v * (f - 100)
           p == PerturbedNumber(k, v, f, h)
<1>1. delta \in Int /\ (f > 100 => delta >= 0) /\ (f < 100 => delta <= 0)
  OBVIOUS
<1>2. GridOf(k) = 1 \/ GridOf(k) = 16
  BY RangeType
<1>3. p = IF delta < 100 * GridOf(k) /\ -delta < 100 * GridOf(k)
          THEN Normalize(k, v + (IF f > 100 THEN GridOf(k) ELSE -GridOf(k)), 1, h)
          ELSE Normalize(k, 100 * v + delta, 100, h)
  BY DEF PerturbedNumber
<1> HIDE DEF delta, p
<1>4. CASE delta < 100 * GridOf(k) /\ -delta < 100 * GridOf(k)
  <2>1. CASE f > 100
    <3>1. p = Normalize(k, v + GridOf(k), 1, h) /\ v + GridOf(k) \in Int
      BY <1>2, <1>3, <1>4, <2>1
    <3>2. Rounded(v + GridOf(k), 1) = v + GridOf(k)
      BY <3>1, RoundedWhole
    <3>3. p >= v + GridOf(k) \/ p = RangeOn(k, h)[2]
      BY <1>2, <3>1, <3>2, NormalizeUp
    <3>4. p \in Nat /\ InRange(k, p, h)
      BY <3>1, NormalizeInRange
    <3> QED BY <2>1, <3>3, <3>4 DEF p
  <2>2. CASE f < 100
    <3>1. p = Normalize(k, v - GridOf(k), 1, h) /\ v - GridOf(k) \in Int
      BY <1>2, <1>3, <1>4, <2>2
    <3>2. Rounded(v - GridOf(k), 1) = v - GridOf(k)
      BY <3>1, RoundedWhole
    <3>3. p <= v - GridOf(k) \/ p = RangeOn(k, h)[1]
      BY <1>2, <3>1, <3>2, NormalizeDown
    <3>4. p \in Nat /\ InRange(k, p, h)
      BY <3>1, NormalizeInRange
    <3> QED BY <2>2, <3>3, <3>4 DEF p
  <2> QED BY <2>1, <2>2
<1>5. CASE ~(delta < 100 * GridOf(k) /\ -delta < 100 * GridOf(k))
  <2> DEFINE n == 100 * v + delta
  <2>1. p = Normalize(k, n, 100, h) /\ n \in Int
    BY <1>1, <1>3, <1>5
  <2>2. p \in Nat /\ InRange(k, p, h)
    BY <2>1, NormalizeInRange
  <2>3. CASE f > 100
    <3>1. v + GridOf(k) \in Int /\ (v + GridOf(k)) * 100 <= n
      BY <1>1, <1>2, <1>5, <2>3
    <3> HIDE DEF n
    <3>2. Rounded(n, 100) >= v + GridOf(k)
      <4>1. (v + GridOf(k)) * 100 \in Int
        BY <3>1
      <4> QED BY <2>1, <3>1, <4>1, RoundedMonotone, RoundedOfMultiple
    <3>3. p >= v + GridOf(k) \/ p = RangeOn(k, h)[2]
      BY <2>1, <3>2, NormalizeUp
    <3> QED BY <2>2, <2>3, <3>3 DEF p
  <2>4. CASE f < 100
    <3>1. v - GridOf(k) \in Int /\ n <= (v - GridOf(k)) * 100
      BY <1>1, <1>2, <1>5, <2>4
    <3> HIDE DEF n
    <3>2. Rounded(n, 100) <= v - GridOf(k)
      <4>1. (v - GridOf(k)) * 100 \in Int
        BY <3>1
      <4> QED BY <2>1, <3>1, <4>1, RoundedMonotone, RoundedOfMultiple
    <3>3. p <= v - GridOf(k) \/ p = RangeOn(k, h)[1]
      BY <2>1, <3>2, NormalizeDown
    <3> QED BY <2>2, <2>4, <3>3 DEF p
  <2> QED BY <2>3, <2>4
<1> QED BY <1>4, <1>5
-----------------------------------------------------------------------------
(* The rules of the repair                                                 *)

Words(k) == EnumValues[k] \cup {"off"}
Typed(c) ==
    /\ DOMAIN c \subseteq Knobs
    /\ \A k \in DOMAIN c : IF k \in Numbers THEN c[k] \in Nat ELSE c[k] \in Words(k)

WalKnobs == {"archive_mode", "max_wal_senders"}
WalSafe(c) ==
    Has(c, "wal_level", {"minimal"}) =>
        /\ WalKnobs \subseteq DOMAIN c
        /\ c["archive_mode"] = "off" /\ c["max_wal_senders"] = 0
        /\ ~Has(c, "summarize_wal", {"true"})
HugeSafe(c) ==
    /\ ~(Has(c, "huge_pages", {"on", "try"}) /\ Has(c, "shared_memory_type", {"sysv"}))
    /\ ~Has(c, "huge_pages", {"on"})
WordKnobs == {"wal_level", "archive_mode", "huge_pages", "shared_memory_type", "summarize_wal"}

LEMMA KnobsAre ==
  /\ Numbers \subseteq Knobs /\ WordKnobs \subseteq Knobs /\ WordKnobs \cap Numbers = {}
  /\ Knobs = Numbers \cup WordKnobs
  /\ IsFiniteSet(Knobs)
<1>1. DOMAIN EnumValues = WordKnobs
  BY DEF EnumValues, WordKnobs
<1>2. WordKnobs \subseteq Knobs
  BY DEF WordKnobs, Knobs, Default
<1>3. IsFiniteSet(Knobs)
  <2>1. ASSUME NEW a, NEW b, NEW c PROVE IsFiniteSet({a, b, c})
    <3>1. IsFiniteSet({a}) /\ IsFiniteSet({b}) /\ IsFiniteSet({c})
      BY FS_Singleton
    <3>2. IsFiniteSet({a} \cup {b})
      BY <3>1, FS_Union
    <3>3. IsFiniteSet(({a} \cup {b}) \cup {c})
      BY <3>1, <3>2, FS_Union
    <3>4. {a, b, c} = ({a} \cup {b}) \cup {c}
      OBVIOUS
    <3> QED BY <3>3, <3>4
  <2> DEFINE A == {"shared_buffers", "work_mem", "maintenance_work_mem"}
             B == {"max_worker_processes", "max_parallel_workers",
                   "max_parallel_maintenance_workers"}
             C == {"max_connections", "reserved_connections", "superuser_reserved_connections"}
             D == {"max_wal_senders", "max_logical_replication_workers", "min_wal_size"}
             E == {"max_wal_size", "transaction_buffers", "notify_buffers"}
             F == {"effective_io_concurrency", "wal_level", "archive_mode"}
             G == {"huge_pages", "shared_memory_type", "summarize_wal"}
  <2>2. Knobs = A \cup (B \cup (C \cup (D \cup (E \cup (F \cup G)))))
    BY DEF Knobs, Default
  <2>3. /\ IsFiniteSet(A) /\ IsFiniteSet(B) /\ IsFiniteSet(C) /\ IsFiniteSet(D)
        /\ IsFiniteSet(E) /\ IsFiniteSet(F) /\ IsFiniteSet(G)
    <3>1. IsFiniteSet(A)
      BY <2>1
    <3>2. IsFiniteSet(B)
      BY <2>1
    <3>3. IsFiniteSet(C)
      BY <2>1
    <3>4. IsFiniteSet(D)
      BY <2>1
    <3>5. IsFiniteSet(E)
      BY <2>1
    <3>6. IsFiniteSet(F)
      BY <2>1
    <3>7. IsFiniteSet(G)
      BY <2>1
    <3> QED BY <3>1, <3>2, <3>3, <3>4, <3>5, <3>6, <3>7
  <2> HIDE DEF A, B, C, D, E, F, G
  <2>4. IsFiniteSet(E \cup (F \cup G))
    BY <2>3, FS_Union
  <2>5. IsFiniteSet(C \cup (D \cup (E \cup (F \cup G))))
    BY <2>3, <2>4, FS_Union
  <2>6. IsFiniteSet(A \cup (B \cup (C \cup (D \cup (E \cup (F \cup G))))))
    BY <2>3, <2>5, FS_Union
  <2> QED BY <2>2, <2>6
<1> QED BY <1>1, <1>2, <1>3 DEF Numbers, Numeric

LEMMA WordsAre ==
  /\ \A k : "off" \in Words(k)
  /\ "mmap" \in Words("shared_memory_type") /\ "try" \in Words("huge_pages")
BY DEF Words, EnumValues

LEMMA WalRepairedIs ==
  ASSUME NEW c, Typed(c)
  PROVE  LET d == WalRepaired(c)
         IN  /\ Typed(d) /\ WalSafe(d)
             /\ DOMAIN c \subseteq DOMAIN d /\ DOMAIN d \subseteq DOMAIN c \cup WalKnobs
             /\ \A k \in DOMAIN c \ (WalKnobs \cup {"summarize_wal"}) : d[k] = c[k]
             /\ "max_wal_senders" \in DOMAIN d =>
                   d["max_wal_senders"] = 0
                     \/ ("max_wal_senders" \in DOMAIN c
                           /\ d["max_wal_senders"] = c["max_wal_senders"])
<1> DEFINE d == WalRepaired(c)
<1>1. CASE ~Has(c, "wal_level", {"minimal"})
  BY <1>1 DEF WalRepaired, WalSafe
<1>2. CASE Has(c, "wal_level", {"minimal"})
  <2>1. d = [k \in DOMAIN c \cup {"archive_mode", "max_wal_senders"} |->
             CASE k = "archive_mode" -> "off"
               [] k = "max_wal_senders" -> 0
               [] k = "summarize_wal" /\ c[k] = "true" -> "off"
               [] OTHER -> c[k]]
    BY <1>2 DEF WalRepaired
  <2> HIDE DEF d
  <2>2. DOMAIN d = DOMAIN c \cup WalKnobs
    BY <2>1 DEF WalKnobs
  <2>3. d["archive_mode"] = "off" /\ d["max_wal_senders"] = 0
    BY <2>1
  <2>4. ASSUME NEW k \in DOMAIN c \ (WalKnobs \cup {"summarize_wal"}) PROVE d[k] = c[k]
    BY <2>1 DEF WalKnobs
  <2>5. "summarize_wal" \in DOMAIN c =>
          d["summarize_wal"] = IF c["summarize_wal"] = "true" THEN "off" ELSE c["summarize_wal"]
    BY <2>1
  <2>6. Typed(d)
    <3>1. "archive_mode" \in Knobs \ Numbers /\ "max_wal_senders" \in Numbers
          /\ "summarize_wal" \in Knobs \ Numbers
      BY KnobsAre, NumbersAre DEF WordKnobs
    <3>2. DOMAIN d \subseteq Knobs
      BY <2>2, <3>1, KnobsAre DEF Typed, WalKnobs
    <3>3. ASSUME NEW k \in DOMAIN d
          PROVE  IF k \in Numbers THEN d[k] \in Nat ELSE d[k] \in Words(k)
      <4>1. CASE k = "archive_mode"
        BY <2>3, <3>1, <4>1, WordsAre
      <4>2. CASE k = "max_wal_senders"
        BY <2>3, <3>1, <4>2
      <4>3. CASE k = "summarize_wal"
        <5>1. k \in DOMAIN c
          BY <2>2, <4>3 DEF WalKnobs
        <5> QED BY <2>5, <3>1, <4>3, <5>1, WordsAre DEF Typed
      <4>4. CASE k \notin WalKnobs \cup {"summarize_wal"}
        BY <2>2, <2>4, <4>4 DEF Typed
      <4> QED BY <4>1, <4>2, <4>3, <4>4 DEF WalKnobs
    <3> QED BY <3>2, <3>3 DEF Typed
  <2>7. WalSafe(d)
    <3>1. ~Has(d, "summarize_wal", {"true"})
      <4>1. "summarize_wal" \in DOMAIN d => "summarize_wal" \in DOMAIN c
        BY <2>2 DEF WalKnobs
      <4> QED BY <2>5, <4>1 DEF Has
    <3> QED BY <2>2, <2>3, <3>1 DEF WalSafe
  <2> QED BY <2>2, <2>3, <2>4, <2>6, <2>7 DEF d
<1> QED BY <1>1, <1>2

LEMMA HugePagesRepairedIs ==
  ASSUME NEW c, Typed(c)
  PROVE  LET d == HugePagesRepaired(c)
         IN  /\ Typed(d) /\ HugeSafe(d) /\ DOMAIN d = DOMAIN c
             /\ \A k \in DOMAIN c \ {"huge_pages", "shared_memory_type"} : d[k] = c[k]
<1> DEFINE d == HugePagesRepaired(c)
<1>1. d = [k \in DOMAIN c |->
        CASE k = "shared_memory_type"
             /\ Has(c, "huge_pages", {"on", "try"}) /\ c[k] = "sysv" -> "mmap"
          [] k = "huge_pages" /\ c[k] = "on" -> "try"
          [] OTHER -> c[k]]
  BY DEF HugePagesRepaired
<1> HIDE DEF d
<1>2. DOMAIN d = DOMAIN c
  BY <1>1
<1>3. ASSUME NEW k \in DOMAIN c \ {"huge_pages", "shared_memory_type"} PROVE d[k] = c[k]
  BY <1>1
<1>4. "huge_pages" \in DOMAIN c =>
        d["huge_pages"] = IF c["huge_pages"] = "on" THEN "try" ELSE c["huge_pages"]
  BY <1>1
<1>5. "shared_memory_type" \in DOMAIN c =>
        d["shared_memory_type"] =
          IF Has(c, "huge_pages", {"on", "try"}) /\ c["shared_memory_type"] = "sysv"
          THEN "mmap" ELSE c["shared_memory_type"]
  BY <1>1
<1>6. Typed(d)
  <2>1. {"huge_pages", "shared_memory_type"} \subseteq Knobs \ Numbers
    BY KnobsAre DEF WordKnobs
  <2>2. ASSUME NEW k \in DOMAIN d
        PROVE  IF k \in Numbers THEN d[k] \in Nat ELSE d[k] \in Words(k)
    <3>1. CASE k = "huge_pages"
      BY <1>2, <1>4, <2>1, <3>1, WordsAre DEF Typed
    <3>2. CASE k = "shared_memory_type"
      BY <1>2, <1>5, <2>1, <3>2, WordsAre DEF Typed
    <3>3. CASE k \notin {"huge_pages", "shared_memory_type"}
      BY <1>2, <1>3, <3>3 DEF Typed
    <3> QED BY <3>1, <3>2, <3>3
  <2> QED BY <1>2, <2>2 DEF Typed
<1>7. HugeSafe(d)
  BY <1>2, <1>4, <1>5 DEF HugeSafe, Has
<1> QED BY <1>2, <1>3, <1>6, <1>7 DEF d

LEMMA PoolsRepairedIs ==
  ASSUME NEW c, Typed(c)
  PROVE  LET d == PoolsRepaired(c)
         IN  /\ Typed(d) /\ DOMAIN d = DOMAIN c
             /\ \A k \in DOMAIN c \ WorkerBounded : d[k] = c[k]
             /\ "max_worker_processes" \in DOMAIN c =>
                   \A k \in WorkerBounded \cap DOMAIN c : d[k] <= c["max_worker_processes"]
<1> DEFINE d == PoolsRepaired(c)
<1>1. d = [k \in DOMAIN c |->
             IF k \in WorkerBounded
             THEN Min({c[k], Get(c, "max_worker_processes", c[k])}) ELSE c[k]]
  BY DEF PoolsRepaired
<1> HIDE DEF d
<1>2. DOMAIN d = DOMAIN c
  BY <1>1
<1>3. ASSUME NEW k \in DOMAIN c \ WorkerBounded PROVE d[k] = c[k]
  BY <1>1
<1>4. "max_worker_processes" \in Numbers /\ WorkerBounded \subseteq Numbers
  BY NumbersAre DEF WorkerBounded
<1>5. ASSUME NEW k \in WorkerBounded \cap DOMAIN c
      PROVE  /\ d[k] \in Nat
             /\ "max_worker_processes" \in DOMAIN c => d[k] <= c["max_worker_processes"]
  <2> DEFINE m == Get(c, "max_worker_processes", c[k])
  <2>1. d[k] = Min({c[k], m})
    BY <1>1
  <2>2. c[k] \in Nat /\ m \in Nat
    BY <1>4 DEF Typed, Get
  <2>3. "max_worker_processes" \in DOMAIN c => m = c["max_worker_processes"]
    BY DEF Get
  <2> HIDE DEF m
  <2>4. Min({c[k], m}) = IF c[k] <= m THEN c[k] ELSE m
    BY <2>2, MinOfTwo
  <2> QED BY <2>1, <2>2, <2>3, <2>4
<1>6. Typed(d)
  BY <1>2, <1>3, <1>4, <1>5 DEF Typed
<1> QED BY <1>2, <1>3, <1>5, <1>6 DEF d

LEMMA WalSizesRepairedIs ==
  ASSUME NEW c, Typed(c)
  PROVE  LET d == WalSizesRepaired(c)
         IN  /\ Typed(d) /\ DOMAIN d = DOMAIN c
             /\ \A k \in DOMAIN c \ {"min_wal_size"} : d[k] = c[k]
             /\ ({"min_wal_size", "max_wal_size"} \subseteq DOMAIN c /\ c["max_wal_size"] >= 1) =>
                   d["min_wal_size"] <= c["max_wal_size"]
<1> DEFINE d == WalSizesRepaired(c)
<1>1. d = [k \in DOMAIN c |->
             IF k = "min_wal_size" /\ c[k] > Get(c, "max_wal_size", c[k])
             THEN Max({1, c["max_wal_size"] \div 2}) ELSE c[k]]
  BY DEF WalSizesRepaired
<1> HIDE DEF d
<1>2. DOMAIN d = DOMAIN c
  BY <1>1
<1>3. ASSUME NEW k \in DOMAIN c \ {"min_wal_size"} PROVE d[k] = c[k]
  BY <1>1
<1>4. {"min_wal_size", "max_wal_size"} \subseteq Numbers
  BY NumbersAre
<1>5. ASSUME "min_wal_size" \in DOMAIN c
      PROVE  /\ d["min_wal_size"] \in Nat
             /\ ("max_wal_size" \in DOMAIN c /\ c["max_wal_size"] >= 1) =>
                   d["min_wal_size"] <= c["max_wal_size"]
  <2> DEFINE a == c["min_wal_size"]
             b == c["max_wal_size"]
  <2>1. d["min_wal_size"] = IF a > Get(c, "max_wal_size", a) THEN Max({1, b \div 2}) ELSE a
    BY <1>1, <1>5
  <2>2. a \in Nat
    BY <1>4, <1>5 DEF Typed
  <2>3. CASE "max_wal_size" \notin DOMAIN c
    BY <2>1, <2>2, <2>3 DEF Get
  <2>4. CASE "max_wal_size" \in DOMAIN c
    <3>1. b \in Nat
      BY <1>4, <2>4 DEF Typed
    <3>2. d["min_wal_size"] = IF a > b THEN Max({1, b \div 2}) ELSE a
      BY <2>1, <2>4 DEF Get
    <3> HIDE DEF a, b
    <3>3. Max({1, b \div 2}) = IF 1 >= b \div 2 THEN 1 ELSE b \div 2
      BY <3>1, MaxOfTwo
    <3>4. b \div 2 \in Nat /\ b \div 2 <= b
      BY <3>1
    <3>5. d["min_wal_size"] \in Nat /\ (b >= 1 => d["min_wal_size"] <= b)
      BY <2>2, <3>1, <3>2, <3>3, <3>4
    <3> QED BY <3>5 DEF b
  <2> QED BY <2>3, <2>4
<1>6. Typed(d)
  BY <1>2, <1>3, <1>4, <1>5 DEF Typed
<1> QED BY <1>2, <1>3, <1>5, <1>6 DEF d

LEMMA ReservedType ==
  ASSUME NEW c, Typed(c)
  PROVE  Reserved(c) \in Nat
<1>1. {"reserved_connections", "superuser_reserved_connections"} \subseteq Numbers
  BY NumbersAre
<1>2. /\ Get(c, "reserved_connections", 0) \in Nat
      /\ Get(c, "superuser_reserved_connections", 0) \in Nat
  BY <1>1 DEF Typed, Get
<1> QED BY <1>2 DEF Reserved

LEMMA SlotsRepairedIs ==
  ASSUME NEW c, Typed(c)
  PROVE  LET d == SlotsRepaired(c)
         IN  /\ Typed(d) /\ DOMAIN d = DOMAIN c
             /\ \A k \in DOMAIN c \ {"max_connections"} : d[k] = c[k]
             /\ ("max_connections" \in DOMAIN c /\ Reserved(c) < c["max_connections"]) =>
                   d["max_connections"] = c["max_connections"]
<1> DEFINE d == SlotsRepaired(c)
<1>1. d = [k \in DOMAIN c |->
             IF k = "max_connections" /\ Reserved(c) >= c[k] THEN Reserved(c) + 10 ELSE c[k]]
  BY DEF SlotsRepaired
<1> HIDE DEF d
<1>2. DOMAIN d = DOMAIN c
  BY <1>1
<1>3. ASSUME NEW k \in DOMAIN c \ {"max_connections"} PROVE d[k] = c[k]
  BY <1>1
<1>4. "max_connections" \in Numbers /\ Reserved(c) \in Nat
  BY NumbersAre, ReservedType
<1>5. ASSUME "max_connections" \in DOMAIN c
      PROVE  /\ d["max_connections"] \in Nat
             /\ Reserved(c) < c["max_connections"] => d["max_connections"] = c["max_connections"]
  <2>1. d["max_connections"] = IF Reserved(c) >= c["max_connections"]
                               THEN Reserved(c) + 10 ELSE c["max_connections"]
    BY <1>1, <1>5
  <2>2. c["max_connections"] \in Nat
    BY <1>4, <1>5 DEF Typed
  <2> QED BY <1>4, <2>1, <2>2
<1>6. Typed(d)
  BY <1>2, <1>3, <1>4, <1>5 DEF Typed
<1> QED BY <1>2, <1>3, <1>5, <1>6 DEF d
Rules(c) ==
    SlotsRepaired(WalSizesRepaired(PoolsRepaired(HugePagesRepaired(WalRepaired(c)))))
Normalized(d, V, h) ==
    [k \in DOMAIN d |-> IF k \in V /\ Numeric(k) THEN Normalize(k, d[k], 1, h) ELSE d[k]]

LEMMA RepairedFactors ==
  ASSUME NEW c, NEW V, NEW h
  PROVE  Repaired(c, V, h) = BudgetRepaired(Normalized(Rules(c), V, h), V, h)
BY DEF Repaired, Rules, Normalized

\* What is said of words survives what changes numbers alone.
LEMMA SafeKept ==
  ASSUME NEW c, NEW d, DOMAIN d = DOMAIN c,
         \A k \in DOMAIN c \cap WordKnobs : d[k] = c[k],
         ("max_wal_senders" \in DOMAIN c /\ c["max_wal_senders"] = 0) => d["max_wal_senders"] = 0
  PROVE  (WalSafe(c) => WalSafe(d)) /\ (HugeSafe(c) => HugeSafe(d))
BY DEF WalSafe, HugeSafe, Has, WordKnobs, WalKnobs

LEMMA RulesAre ==
  ASSUME NEW c, Typed(c)
  PROVE  LET d == Rules(c)
         IN  /\ Typed(d) /\ WalSafe(d) /\ HugeSafe(d)
             /\ DOMAIN c \subseteq DOMAIN d /\ DOMAIN d \subseteq DOMAIN c \cup WalKnobs
<1> DEFINE c1 == WalRepaired(c)
           c2 == HugePagesRepaired(c1)
           c3 == PoolsRepaired(c2)
           c4 == WalSizesRepaired(c3)
           c5 == SlotsRepaired(c4)
<1>1. /\ Typed(c1) /\ WalSafe(c1)
      /\ DOMAIN c \subseteq DOMAIN c1 /\ DOMAIN c1 \subseteq DOMAIN c \cup WalKnobs
  BY WalRepairedIs
<1> HIDE DEF c1
<1>2. /\ Typed(c2) /\ HugeSafe(c2) /\ DOMAIN c2 = DOMAIN c1
      /\ \A k \in DOMAIN c1 \ {"huge_pages", "shared_memory_type"} : c2[k] = c1[k]
  BY <1>1, HugePagesRepairedIs
<1>3. WalSafe(c2)
  BY <1>1, <1>2 DEF WalSafe, Has, WalKnobs
<1> HIDE DEF c2
<1>4. Typed(c3) /\ DOMAIN c3 = DOMAIN c2 /\ \A k \in DOMAIN c2 \ WorkerBounded : c3[k] = c2[k]
  BY <1>2, PoolsRepairedIs
<1> HIDE DEF c3
<1>5. Typed(c4) /\ DOMAIN c4 = DOMAIN c3 /\ \A k \in DOMAIN c3 \ {"min_wal_size"} : c4[k] = c3[k]
  BY <1>4, WalSizesRepairedIs
<1> HIDE DEF c4
<1>6. Typed(c5) /\ DOMAIN c5 = DOMAIN c4 /\ \A k \in DOMAIN c4 \ {"max_connections"} : c5[k] = c4[k]
  BY <1>5, SlotsRepairedIs
<1>7. Rules(c) = c5
  BY DEF Rules, c1, c2, c3, c4
<1> HIDE DEF c5
<1>8. DOMAIN c5 = DOMAIN c2
  BY <1>4, <1>5, <1>6
<1>9. ASSUME NEW k \in DOMAIN c2, k \in WordKnobs \cup {"max_wal_senders"}
      PROVE  c5[k] = c2[k]
  <2>1. k \notin WorkerBounded /\ k # "min_wal_size" /\ k # "max_connections"
    BY <1>9 DEF WordKnobs, WorkerBounded
  <2> QED BY <1>4, <1>5, <1>6, <2>1
<1>10. WalSafe(c5) /\ HugeSafe(c5)
  BY <1>2, <1>3, <1>8, <1>9, SafeKept
<1> QED BY <1>1, <1>2, <1>6, <1>7, <1>8, <1>10

LEMMA NormalizedIs ==
  ASSUME NEW d, Typed(d), NEW V, NEW h \in Hosts
  PROVE  LET e == Normalized(d, V, h)
         IN  /\ Typed(e) /\ DOMAIN e = DOMAIN d
             /\ \A k \in V \cap DOMAIN d \cap Numbers :
                   e[k] = Normalize(k, d[k], 1, h) /\ InRange(k, e[k], h)
             /\ \A k \in DOMAIN d \ (V \cap Numbers) : e[k] = d[k]
<1> DEFINE e == Normalized(d, V, h)
<1>1. \A k \in DOMAIN d : Numeric(k) <=> k \in Numbers
  BY DEF Typed, Numbers
<1>2. e = [k \in DOMAIN d |-> IF k \in V /\ k \in Numbers THEN Normalize(k, d[k], 1, h) ELSE d[k]]
  BY <1>1 DEF Normalized
<1> HIDE DEF e
<1>3. ASSUME NEW k \in V \cap DOMAIN d \cap Numbers
      PROVE  e[k] = Normalize(k, d[k], 1, h) /\ InRange(k, e[k], h) /\ e[k] \in Nat
  <2>1. e[k] = Normalize(k, d[k], 1, h) /\ d[k] \in Int
    BY <1>2 DEF Typed
  <2> QED BY <2>1, NormalizeInRange
<1>4. \A k \in DOMAIN d \ (V \cap Numbers) : e[k] = d[k]
  BY <1>2
<1>5. DOMAIN e = DOMAIN d
  BY <1>2
<1>6. Typed(e)
  BY <1>3, <1>4, <1>5 DEF Typed
<1> QED BY <1>3, <1>4, <1>5, <1>6 DEF e

LEMMA ClaimedType ==
  ASSUME NEW c, Typed(c)
  PROVE  Claimed(c) \in Nat
<1>1. {"shared_buffers", "work_mem", "maintenance_work_mem", "max_connections"} \subseteq Numbers
  BY NumbersAre
<1>2. /\ Get(c, "shared_buffers", 0) \in Nat /\ Get(c, "max_connections", 100) \in Nat
      /\ Get(c, "work_mem", 0) \in Nat /\ Get(c, "maintenance_work_mem", 0) \in Nat
  BY <1>1 DEF Typed, Get
<1>3. \A a, b \in Nat : a * b \in Nat
  OBVIOUS
<1> QED BY <1>2, <1>3 DEF Claimed

LEMMA BudgetRepairedIs ==
  ASSUME NEW c, Typed(c), NEW V, NEW h \in Hosts,
         \A k \in V \cap DOMAIN c \cap Numbers : InRange(k, c[k], h)
  PROVE  LET d == BudgetRepaired(c, V, h)
         IN  /\ Typed(d) /\ DOMAIN d = DOMAIN c
             /\ \A k \in V \cap DOMAIN c \cap Numbers : InRange(k, d[k], h)
             /\ \A k \in DOMAIN c \ (MemoryKnobs \cap V) : d[k] = c[k]
<1> DEFINE d == BudgetRepaired(c, V, h)
<1>1. Claimed(c) \in Nat /\ Budget(h) \in Nat
  <2>1. h.ram \in Nat
    BY DEF Hosts
  <2>2. (h.ram * 4) \div 5 \in Nat
    BY <2>1
  <2> QED BY <2>2, ClaimedType DEF Budget
<1>2. CASE Claimed(c) <= Budget(h)
  <2>1. d = c
    BY <1>2 DEF BudgetRepaired
  <2> QED BY <2>1
<1>3. CASE ~(Claimed(c) <= Budget(h))
  <2>1. d = [k \in DOMAIN c |->
             IF k \in MemoryKnobs \cap V
             THEN Normalize(k, c[k] * Budget(h), Claimed(c), h) ELSE c[k]]
    BY <1>3 DEF BudgetRepaired
  <2> HIDE DEF d
  <2>2. MemoryKnobs \subseteq Numbers
    BY NumbersAre DEF MemoryKnobs
  <2>3. ASSUME NEW k \in MemoryKnobs \cap V, k \in DOMAIN c
        PROVE  d[k] \in Nat /\ InRange(k, d[k], h)
    <3>1. c[k] \in Nat
      BY <2>2, <2>3 DEF Typed
    <3>2. c[k] * Budget(h) \in Int /\ Claimed(c) \in Nat \ {0}
      BY <1>1, <1>3, <3>1
    <3> QED BY <2>1, <2>2, <2>3, <3>2, NormalizeInRange
  <2>4. DOMAIN d = DOMAIN c /\ \A k \in DOMAIN c \ (MemoryKnobs \cap V) : d[k] = c[k]
    BY <2>1
  <2>5. Typed(d)
    BY <2>2, <2>3, <2>4 DEF Typed
  <2>6. \A k \in V \cap DOMAIN c \cap Numbers : InRange(k, d[k], h)
    BY <2>3, <2>4
  <2> QED BY <2>4, <2>5, <2>6 DEF d
<1> QED BY <1>2, <1>3

\* However the configuration came about, its repair can be applied as far as
\* words and ranges go.
LEMMA RepairedIs ==
  ASSUME NEW c, Typed(c), NEW V, NEW h \in Hosts
  PROVE  LET r == Repaired(c, V, h)
         IN  /\ Typed(r) /\ WalSafe(r) /\ HugeSafe(r)
             /\ DOMAIN c \subseteq DOMAIN r /\ DOMAIN r \subseteq DOMAIN c \cup WalKnobs
             /\ \A k \in V \cap DOMAIN r \cap Numbers : InRange(k, r[k], h)
<1> DEFINE d == Rules(c)
           e == Normalized(d, V, h)
           r == BudgetRepaired(e, V, h)
<1>1. /\ Typed(d) /\ WalSafe(d) /\ HugeSafe(d)
      /\ DOMAIN c \subseteq DOMAIN d /\ DOMAIN d \subseteq DOMAIN c \cup WalKnobs
  BY RulesAre
<1> HIDE DEF d
<1>2. /\ Typed(e) /\ DOMAIN e = DOMAIN d
      /\ \A k \in V \cap DOMAIN d \cap Numbers :
            e[k] = Normalize(k, d[k], 1, h) /\ InRange(k, e[k], h)
      /\ \A k \in DOMAIN d \ (V \cap Numbers) : e[k] = d[k]
  BY <1>1, NormalizedIs
<1> HIDE DEF e
<1>3. /\ Typed(r) /\ DOMAIN r = DOMAIN e
      /\ \A k \in V \cap DOMAIN e \cap Numbers : InRange(k, r[k], h)
      /\ \A k \in DOMAIN e \ (MemoryKnobs \cap V) : r[k] = e[k]
  BY <1>2, BudgetRepairedIs
<1>4. Repaired(c, V, h) = r
  BY RepairedFactors DEF d, e
<1> HIDE DEF r
<1>5. DOMAIN r = DOMAIN d
  BY <1>2, <1>3
<1>6. \A k \in DOMAIN d \cap WordKnobs : r[k] = d[k]
  <2>1. WordKnobs \cap Numbers = {} /\ WordKnobs \cap MemoryKnobs = {}
    BY KnobsAre DEF WordKnobs, MemoryKnobs
  <2> QED BY <1>2, <1>3, <2>1
<1>7. ("max_wal_senders" \in DOMAIN d /\ d["max_wal_senders"] = 0) => r["max_wal_senders"] = 0
  <2> SUFFICES ASSUME "max_wal_senders" \in DOMAIN d, d["max_wal_senders"] = 0
               PROVE  r["max_wal_senders"] = 0
    OBVIOUS
  <2>1. "max_wal_senders" \in Numbers /\ "max_wal_senders" \notin MemoryKnobs
    BY NumbersAre DEF MemoryKnobs
  <2>2. r["max_wal_senders"] = e["max_wal_senders"]
    BY <1>2, <1>3, <2>1
  <2>3. CASE "max_wal_senders" \in V
    <3>1. e["max_wal_senders"] = Normalize("max_wal_senders", 0, 1, h)
      BY <1>2, <2>1, <2>3
    <3>2. InRange("max_wal_senders", 0, h) /\ Rounded(0, 1) = 0
      BY FixedRanges, RoundedWhole DEF InRange, GridOf
    <3>3. Normalize("max_wal_senders", 0, 1, h) = 0
      BY <2>1, <3>2, NormalizeKeeps
    <3> QED BY <2>2, <3>1, <3>3
  <2>4. CASE "max_wal_senders" \notin V
    BY <1>2, <2>2, <2>4
  <2> QED BY <2>3, <2>4
<1>8. WalSafe(r) /\ HugeSafe(r)
  BY <1>1, <1>5, <1>6, <1>7, SafeKept
<1> QED BY <1>1, <1>2, <1>3, <1>4, <1>5, <1>8
-----------------------------------------------------------------------------
(* What is drawn, perturbed, restored and suggested                        *)

\* The workers' hosts.
Served == {h \in Hosts : h.ram >= 4000}

\* A configuration whose numbers in V are in their ranges.
Ranged(c, V, h) == Typed(c) /\ \A k \in V \cap DOMAIN c \cap Numbers : InRange(k, c[k], h)

LEMMA EndsInRange ==
  ASSUME NEW k \in Numbers, NEW h \in Hosts
  PROVE  InRange(k, RangeOn(k, h)[1], h) /\ InRange(k, RangeOn(k, h)[2], h)
<1> DEFINE lo == RangeOn(k, h)[1]
           hi == RangeOn(k, h)[2]
<1>1. lo \in Nat /\ hi \in Nat /\ lo <= hi
      /\ (GridOf(k) = 1 \/ (GridOf(k) = 16 /\ lo = 16 /\ (hi = 64 \/ hi = 1024)))
  BY RangeType
<1> HIDE DEF lo, hi
<1>2. (lo - lo) % GridOf(k) = 0 /\ (hi - lo) % GridOf(k) = 0
  BY <1>1
<1> QED BY <1>1, <1>2 DEF InRange, lo, hi

LEMMA DrawIs ==
  ASSUME NEW k \in Knobs, NEW h \in Hosts, NEW v \in Draw(k, h)
  PROVE  IF k \in Numbers THEN v \in Nat /\ InRange(k, v, h) ELSE v \in Words(k)
<1>1. CASE k \in Numbers
  <2>1. /\ RangeOn(k, h)[1] \in Nat /\ RangeOn(k, h)[2] \in Nat
    BY <1>1, RangeType
  <2>2. v = RangeOn(k, h)[1] \/ v = RangeOn(k, h)[2]
          \/ v = Normalize(k, RangeOn(k, h)[1] + RangeOn(k, h)[2], 2, h)
    BY <1>1 DEF Draw, Numbers
  <2>3. RangeOn(k, h)[1] + RangeOn(k, h)[2] \in Int /\ 2 \in Nat \ {0}
    BY <2>1
  <2>4. Normalize(k, RangeOn(k, h)[1] + RangeOn(k, h)[2], 2, h) \in Nat
        /\ InRange(k, Normalize(k, RangeOn(k, h)[1] + RangeOn(k, h)[2], 2, h), h)
    BY <1>1, <2>3, NormalizeInRange
  <2> QED BY <1>1, <2>1, <2>2, <2>4, EndsInRange
<1>2. CASE k \notin Numbers
  BY <1>2 DEF Draw, Numbers, Words
<1> QED BY <1>1, <1>2

LEMMA DrawsAre ==
  ASSUME NEW ks \in SUBSET Knobs, NEW h \in Hosts, NEW c \in Draws(ks, h)
  PROVE  \E d : Ranged(d, ks, h) /\ DOMAIN d = ks /\ c = Repaired(d, ks, h)
<1> DEFINE values == [k \in ks |-> Draw(k, h)]
<1>1. PICK d \in Product(values) : c = Repaired(d, ks, h)
  BY DEF Draws
<1>2. IsFiniteSet(DOMAIN values) /\ DOMAIN values = ks
  BY KnobsAre, FS_Subset
<1>3. DOMAIN d = ks /\ \A k \in ks : d[k] \in Draw(k, h)
  <2>1. DOMAIN d = DOMAIN values /\ \A k \in DOMAIN values : d[k] \in values[k]
    <3> HIDE DEF values
    <3> QED BY <1>2, ProductValues
  <2> QED BY <2>1
<1>4. Ranged(d, ks, h)
  BY <1>3, DrawIs DEF Ranged, Typed
<1> QED BY <1>1, <1>3, <1>4

LEMMA PerturbedType ==
  ASSUME NEW k \in Numbers, NEW h \in Hosts, NEW v \in Nat, NEW f \in Nat
  PROVE  /\ PerturbedNumber(k, v, f, h) \in Nat
         /\ InRange(k, PerturbedNumber(k, v, f, h), h)
<1> DEFINE delta == v * (f - 100)
           step == IF f > 100 THEN GridOf(k) ELSE -GridOf(k)
           p == PerturbedNumber(k, v, f, h)
<1>1. delta \in Int /\ step \in Int
  BY RangeType
<1>2. p = Normalize(k, v + step, 1, h) \/ p = Normalize(k, 100 * v + delta, 100, h)
  BY DEF PerturbedNumber
<1> HIDE DEF delta, step, p
<1>3. v + step \in Int /\ 100 * v + delta \in Int
  BY <1>1
<1> QED BY <1>2, <1>3, NormalizeInRange DEF p

LEMMA MovesAre ==
  ASSUME NEW k \in Knobs, NEW h \in Hosts, NEW v, NEW fs \in SUBSET Nat,
         IF k \in Numbers THEN v \in Nat ELSE v \in Words(k), NEW m \in Moves(k, v, h, fs)
  PROVE  IF k \in Numbers THEN m \in Nat /\ InRange(k, m, h) ELSE m \in Words(k)
<1>1. CASE k \in Numbers
  <2>1. k # "summarize_wal"
    BY <1>1, KnobsAre DEF WordKnobs
  <2>2. PICK f \in fs : m = PerturbedNumber(k, v, f, h)
    BY <1>1, <2>1 DEF Moves, Numbers
  <2> QED BY <1>1, <2>2, PerturbedType
<1>2. CASE k \notin Numbers /\ k = "summarize_wal"
  <2>1. m = v \/ m = Flipped(v)
    BY <1>2 DEF Moves, Numbers
  <2>2. Flipped(v) \in Words("summarize_wal")
    BY DEF Flipped, Words, EnumValues
  <2> QED BY <1>2, <2>1, <2>2
<1>3. CASE k \notin Numbers /\ k # "summarize_wal"
  <2>1. ~Numeric(k)
    BY <1>3 DEF Numbers
  <2> QED BY <1>3, <2>1 DEF Moves, Words
<1> QED BY <1>1, <1>2, <1>3

LEMMA PerturbationsAre ==
  ASSUME NEW c, Typed(c), NEW V, NEW h \in Hosts, NEW fs \in SUBSET Nat,
         NEW e \in Perturbations(c, V, h, fs)
  PROVE  \E d : /\ Ranged(d, V, h) /\ DOMAIN d = DOMAIN c
                /\ \A k \in DOMAIN c \ V : d[k] = c[k]
                /\ e = Repaired(d, V, h)
<1> DEFINE values == [k \in DOMAIN c |-> IF k \in V THEN Moves(k, c[k], h, fs) ELSE {c[k]}]
<1>1. PICK d \in Product(values) : e = Repaired(d, V, h)
  BY DEF Perturbations
<1>2. IsFiniteSet(DOMAIN values) /\ DOMAIN values = DOMAIN c
  BY KnobsAre, FS_Subset DEF Typed
<1>3. DOMAIN d = DOMAIN c /\ \A k \in DOMAIN c : d[k] \in values[k]
  <2> HIDE DEF values
  <2> QED BY <1>2, ProductValues
<1>4. ASSUME NEW k \in DOMAIN c
      PROVE  /\ IF k \in Numbers THEN d[k] \in Nat ELSE d[k] \in Words(k)
             /\ (k \in V /\ k \in Numbers) => InRange(k, d[k], h)
             /\ k \notin V => d[k] = c[k]
  <2>1. k \in Knobs /\ IF k \in Numbers THEN c[k] \in Nat ELSE c[k] \in Words(k)
    BY DEF Typed
  <2>2. d[k] \in IF k \in V THEN Moves(k, c[k], h, fs) ELSE {c[k]}
    BY <1>3
  <2>3. CASE k \in V
    <3>1. d[k] \in Moves(k, c[k], h, fs)
      BY <2>2, <2>3
    <3> QED BY <2>1, <2>3, <3>1, MovesAre
  <2>4. CASE k \notin V
    BY <2>1, <2>2, <2>4
  <2> QED BY <2>3, <2>4
<1> HIDE DEF values
<1>5. Ranged(d, V, h)
  BY <1>3, <1>4 DEF Ranged, Typed
<1> QED BY <1>1, <1>3, <1>4, <1>5

LEMMA DefaultsAre ==
  ASSUME NEW k \in Knobs
  PROVE  IF k \in Numbers THEN Default[k] \in Nat ELSE Default[k] \in Words(k)
<1>1. CASE k \in Numbers
  <2>1. k \notin WordKnobs
    BY <1>1, KnobsAre
  <2> QED BY <1>1, <2>1 DEF Knobs, Default, WordKnobs
<1>2. CASE k \notin Numbers
  <2>1. k \in WordKnobs
    BY <1>2, KnobsAre
  <2> QED BY <1>2, <2>1 DEF Default, WordKnobs, Words, EnumValues
<1> QED BY <1>1, <1>2

LEMMA DefaultConfigIs ==
  ASSUME NEW ks \in SUBSET Knobs
  PROVE  Typed(DefaultConfig(ks)) /\ DOMAIN DefaultConfig(ks) = ks
BY DefaultsAre DEF DefaultConfig, Typed

LEMMA RelativesAre ==
  ASSUME NEW k, Relative(k)
  PROVE  k \in Numbers /\ GridOf(k) = 1 /\ k \in Knobs
BY NumbersAre, KnobsAre DEF Relative, GridOf

LEMMA ResourceType ==
  ASSUME NEW k, NEW h \in Served
  PROVE  ResourceOf(k, h) \in Nat \ {0}
BY DEF ResourceOf, Served, Hosts

\* What a session may have saved.
SavedAs(s, c, ks, h) == s = ToFractions(c, ks, h) /\ Typed(c) /\ h \in Served

LEMMA FractionsAre ==
  ASSUME NEW s, NEW c, NEW ks, NEW h, SavedAs(s, c, ks, h)
  PROVE  /\ DOMAIN s = DOMAIN c
         /\ \A k \in DOMAIN c :
               /\ s[k].value = c[k]
               /\ s[k].of = IF k \in ks /\ Relative(k) THEN ResourceOf(k, h) ELSE 1
               /\ s[k].of \in Nat \ {0}
BY ResourceType DEF SavedAs, ToFractions

LEMMA FromFractionsTyped ==
  ASSUME NEW s, NEW c, NEW cs, NEW g, SavedAs(s, c, cs, g), NEW ks, NEW h \in Served
  PROVE  /\ Typed(FromFractions(s, ks, h)) /\ DOMAIN FromFractions(s, ks, h) = DOMAIN c
         /\ \A k \in DOMAIN c :
               IF k \in ks /\ Relative(k)
               THEN InRange(k, FromFractions(s, ks, h)[k], h)
               ELSE FromFractions(s, ks, h)[k] = c[k]
<1> DEFINE b == FromFractions(s, ks, h)
<1>1. DOMAIN s = DOMAIN c /\ \A k \in DOMAIN c : s[k].value = c[k] /\ s[k].of \in Nat \ {0}
  BY FractionsAre
<1>2. b = [k \in DOMAIN s |->
        IF k \in ks /\ Relative(k)
        THEN Normalize(k, s[k].value * ResourceOf(k, h), s[k].of, h)
        ELSE s[k].value]
  BY DEF FromFractions
<1> HIDE DEF b
<1>3. DOMAIN b = DOMAIN c
  BY <1>1, <1>2
<1>4. ASSUME NEW k \in DOMAIN c
      PROVE  /\ IF k \in Numbers THEN b[k] \in Nat ELSE b[k] \in Words(k)
             /\ IF k \in ks /\ Relative(k) THEN InRange(k, b[k], h) ELSE b[k] = c[k]
  <2>1. k \in Knobs /\ IF k \in Numbers THEN c[k] \in Nat ELSE c[k] \in Words(k)
    BY DEF SavedAs, Typed
  <2>2. CASE k \in ks /\ Relative(k)
    <3>1. b[k] = Normalize(k, c[k] * ResourceOf(k, h), s[k].of, h)
      BY <1>1, <1>2, <2>2
    <3>2. k \in Numbers /\ c[k] \in Nat /\ h \in Hosts
      BY <2>1, <2>2, RelativesAre DEF Served
    <3>3. ResourceOf(k, h) \in Nat
      BY ResourceType
    <3>4. c[k] * ResourceOf(k, h) \in Int /\ s[k].of \in Nat \ {0}
      BY <1>1, <3>2, <3>3
    <3> QED BY <2>2, <3>1, <3>2, <3>4, NormalizeInRange
  <2>3. CASE ~(k \in ks /\ Relative(k))
    BY <1>1, <1>2, <2>1, <2>3
  <2> QED BY <2>2, <2>3
<1>5. Typed(b)
  BY <1>3, <1>4 DEF Typed, SavedAs
<1> QED BY <1>3, <1>4, <1>5 DEF b

\* The fractions resolve to the numbers they were made of.
LEMMA FractionsRestore ==
  ASSUME NEW s, NEW c, NEW ks, NEW h, SavedAs(s, c, ks, h), NEW k \in DOMAIN c,
         (k \in ks /\ Relative(k)) => InRange(k, c[k], h)
  PROVE  FromFractions(s, ks, h)[k] = c[k]
<1>1. CASE ~(k \in ks /\ Relative(k))
  BY <1>1, FromFractionsTyped DEF SavedAs
<1>2. CASE k \in ks /\ Relative(k)
  <2> DEFINE R == ResourceOf(k, h)
  <2>1. k \in Numbers /\ h \in Hosts
    BY <1>2, RelativesAre DEF SavedAs, Served
  <2>2. c[k] \in Nat /\ R \in Nat \ {0}
    BY <2>1, ResourceType DEF SavedAs, Typed
  <2>3. FromFractions(s, ks, h)[k] = Normalize(k, c[k] * R, R, h)
    BY <1>2, FractionsAre DEF FromFractions
  <2> HIDE DEF R
  <2>4. Rounded(c[k] * R, R) = c[k]
    BY <2>2, RoundedOfMultiple
  <2>5. c[k] * R \in Int
    BY <2>2
  <2>6. InRange(k, Rounded(c[k] * R, R), h)
    BY <1>2, <2>4
  <2>7. Normalize(k, c[k] * R, R, h) = Rounded(c[k] * R, R)
    BY <2>1, <2>2, <2>5, <2>6, NormalizeKeeps
  <2> QED BY <2>3, <2>4, <2>7
<1> QED BY <1>1, <1>2

LEMMA WarmStartsAre ==
  ASSUME NEW s, NEW c, NEW cs, NEW g, SavedAs(s, c, cs, g), NEW ks \in SUBSET Knobs,
         NEW h \in Served, NEW e \in WarmStarts(s, ks, h)
  PROVE  \E d : /\ Typed(d) /\ DOMAIN d = ks /\ e = Repaired(d, ks, h)
                /\ \A k \in ks : IF k \in DOMAIN c /\ ~Relative(k) THEN d[k] = c[k]
                                 ELSE k \in Numbers => InRange(k, d[k], h)
<1> DEFINE b == FromFractions(s, ks, h)
<1>1. /\ Typed(b) /\ DOMAIN b = DOMAIN c
      /\ \A k \in DOMAIN c : IF k \in ks /\ Relative(k) THEN InRange(k, b[k], h) ELSE b[k] = c[k]
  BY FromFractionsTyped
<1>2. PICK w \in Draws(ks, h) :
         e = Repaired([k \in ks |-> IF k \in DOMAIN b THEN b[k] ELSE w[k]], ks, h)
  BY DEF WarmStarts
<1> HIDE DEF b
<1> DEFINE d == [k \in ks |-> IF k \in DOMAIN b THEN b[k] ELSE w[k]]
<1>3. Typed(w) /\ ks \subseteq DOMAIN w /\ \A k \in ks \cap Numbers : InRange(k, w[k], h)
  <2>1. h \in Hosts
    BY DEF Served
  <2>2. PICK v : Ranged(v, ks, h) /\ DOMAIN v = ks /\ w = Repaired(v, ks, h)
    BY <2>1, DrawsAre
  <2>3. /\ Typed(w) /\ DOMAIN v \subseteq DOMAIN w
        /\ \A k \in ks \cap DOMAIN w \cap Numbers : InRange(k, w[k], h)
    BY <2>1, <2>2, RepairedIs DEF Ranged
  <2> QED BY <2>2, <2>3
<1>4. Typed(d) /\ DOMAIN d = ks
  BY <1>1, <1>3 DEF Typed
<1>5. ASSUME NEW k \in ks
      PROVE  IF k \in DOMAIN c /\ ~Relative(k) THEN d[k] = c[k]
             ELSE k \in Numbers => InRange(k, d[k], h)
  BY <1>1, <1>3
<1> QED BY <1>2, <1>4, <1>5

-----------------------------------------------------------------------------
(* The optimizer's coding                                                  *)

LEMMA CodingIs ==
  ASSUME NEW k \in Numbers, NEW h \in Served
  PROVE  /\ GridOf(k) = 16 => BaseOf(k, h) = 16 /\ ~Constant(k, h)
         /\ GridOf(k) = 1 => BaseOf(k, h) = RangeOn(k, h)[1]
         /\ k \in LogScale => RangeOn(k, h)[1] >= 1
<1>1. h \in Hosts /\ h.ram \in Nat /\ h.ram >= 4000
  BY DEF Served, Hosts
<1>2. ASSUME GridOf(k) = 16 PROVE BaseOf(k, h) = 16 /\ ~Constant(k, h)
  <2>1. RangeOn(k, h)[1] = 16 /\ (RangeOn(k, h)[2] = 64 \/ RangeOn(k, h)[2] = 1024)
    BY <1>1, <1>2, RangeType
  <2>2. Max({1, 16}) = 16
    BY MaxOfTwo
  <2> QED BY <2>1, <2>2 DEF BaseOf, Constant
<1>3. GridOf(k) = 1 => k \notin NonZeroKnobs
  BY DEF GridOf, NonZeroKnobs
<1>4. ASSUME k \in LogScale PROVE RangeOn(k, h)[1] >= 1
  <2>1. CASE k \in {"shared_buffers", "work_mem", "maintenance_work_mem"}
    BY <1>1, <2>1, RamRanges
  <2>2. CASE k \in {"min_wal_size", "max_wal_size", "transaction_buffers", "notify_buffers"}
    BY <1>1, <2>2, FixedRanges
  <2> QED BY <1>4, <2>1, <2>2 DEF LogScale
<1> QED BY <1>2, <1>3, <1>4 DEF BaseOf

\* A number searched decodes to one that can be applied.
LEMMA SearchedIs ==
  ASSUME NEW k \in Numbers, NEW h \in Served, NEW v \in Searched(k, h)
  PROVE  DecodedValue(k, v, h) \in Nat /\ InRange(k, DecodedValue(k, v, h), h)
<1> DEFINE lo == RangeOn(k, h)[1]
           hi == RangeOn(k, h)[2]
           b == BoundsOf(k, h)
           x == DecodedValue(k, v, h)
<1>0. h \in Hosts
  BY DEF Served
<1>1. lo \in Nat /\ hi \in Nat /\ lo <= hi
      /\ (GridOf(k) = 1 \/ (GridOf(k) = 16 /\ lo = 16 /\ (hi = 64 \/ hi = 1024)))
  BY <1>0, RangeType
<1>2. /\ GridOf(k) = 16 => BaseOf(k, h) = 16 /\ ~Constant(k, h)
      /\ GridOf(k) = 1 => BaseOf(k, h) = lo
      /\ k \in LogScale => lo >= 1
  BY CodingIs
<1>3. IF Constant(k, h) THEN v = lo ELSE v = b[1] \/ v = b[2] \/ v = (b[1] + b[2]) \div 2
  BY DEF Searched, Numbers
<1>4. Constant(k, h) <=> lo = hi
  BY DEF Constant, Numbers
<1>5. x = IF GridOf(k) > 1 /\ ~Constant(k, h) THEN BaseOf(k, h) + (v - 1) * GridOf(k) ELSE v
  BY DEF DecodedValue
<1>6. x \in Nat /\ lo <= x /\ x <= hi /\ (x - lo) % GridOf(k) = 0
  <2>1. CASE GridOf(k) = 1
    <3>1. b = <<IF k \in LogScale THEN Max({1, lo}) ELSE lo, hi>>
      BY <1>2, <2>1 DEF BoundsOf
    <3>2. Max({1, lo}) = IF 1 >= lo THEN 1 ELSE lo
      BY <1>1, MaxOfTwo
    <3>3. b = <<lo, hi>>
      BY <1>1, <1>2, <3>1, <3>2
    <3> HIDE DEF lo, hi, b, x
    <3>4. x = v /\ v \in Nat /\ lo <= v /\ v <= hi
      BY <1>1, <1>3, <1>4, <1>5, <2>1, <3>3
    <3> QED BY <1>1, <2>1, <3>4
  <2>2. CASE GridOf(k) = 16
    <3>1. b = <<1, ((hi - 16) \div 16) + 1>>
      BY <1>2, <2>2 DEF BoundsOf
    <3> HIDE DEF lo, hi, b, x
    <3>2. lo = 16 /\ (hi = 64 \/ hi = 1024) /\ x = 16 + (v - 1) * 16
      BY <1>1, <1>2, <1>5, <2>2
    <3>3. v = b[1] \/ v = b[2] \/ v = (b[1] + b[2]) \div 2
      BY <1>2, <1>3, <2>2
    <3>4. v \in Int /\ 1 <= v /\ 16 * v <= hi
      BY <3>1, <3>2, <3>3
    <3> QED BY <2>2, <3>2, <3>4
  <2> QED BY <1>1, <2>1, <2>2
<1> QED BY <1>6 DEF InRange

LEMMA EncodingReturns ==
  ASSUME NEW k \in Numbers, NEW h \in Served, NEW v \in Nat, InRange(k, v, h)
  PROVE  DecodedValue(k, EncodedValue(k, v, h), h) = v
<1> DEFINE lo == RangeOn(k, h)[1]
           hi == RangeOn(k, h)[2]
           b == BoundsOf(k, h)
           i == IF GridOf(k) > 1 THEN ((v - BaseOf(k, h)) \div GridOf(k)) + 1 ELSE v
           x == EncodedValue(k, v, h)
<1>0. h \in Hosts
  BY DEF Served
<1>1. lo \in Nat /\ hi \in Nat /\ lo <= hi
      /\ (GridOf(k) = 1 \/ (GridOf(k) = 16 /\ lo = 16 /\ (hi = 64 \/ hi = 1024)))
  BY <1>0, RangeType
<1>2. /\ GridOf(k) = 16 => BaseOf(k, h) = 16 /\ ~Constant(k, h)
      /\ GridOf(k) = 1 => BaseOf(k, h) = lo
      /\ k \in LogScale => lo >= 1
  BY CodingIs
<1>3. lo <= v /\ v <= hi /\ (v - lo) % GridOf(k) = 0
  BY DEF InRange
<1>4. Constant(k, h) <=> lo = hi
  BY DEF Constant, Numbers
<1>5. x = IF Constant(k, h) THEN lo ELSE Max({b[1], Min({b[2], i})})
  <2>1. Numeric(k)
    BY DEF Numbers
  <2>2. k # "summarize_wal"
    BY KnobsAre DEF WordKnobs
  <2> QED BY <2>1, <2>2 DEF EncodedValue
<1>6. DecodedValue(k, x, h) = IF GridOf(k) > 1 /\ ~Constant(k, h)
                              THEN BaseOf(k, h) + (x - 1) * GridOf(k) ELSE x
  BY DEF DecodedValue
<1>7. CASE Constant(k, h)
  <2> HIDE DEF x, lo, hi
  <2>1. DecodedValue(k, x, h) = v
    BY <1>1, <1>3, <1>4, <1>5, <1>6, <1>7
  <2> QED BY <2>1 DEF x
<1>8. CASE ~Constant(k, h) /\ GridOf(k) = 1
  <2>1. b = <<IF k \in LogScale THEN Max({1, lo}) ELSE lo, hi>>
    BY <1>2, <1>8 DEF BoundsOf
  <2>2. Max({1, lo}) = IF 1 >= lo THEN 1 ELSE lo
    BY <1>1, MaxOfTwo
  <2>3. b = <<lo, hi>>
    BY <1>1, <1>2, <2>1, <2>2
  <2>4. i = v
    BY <1>8
  <2> HIDE DEF b, i, x, lo, hi
  <2>5. Min({hi, v}) = v
    BY <1>1, <1>3, MinOfTwo
  <2>6. Max({lo, v}) = v
    BY <1>1, <1>3, MaxOfTwo
  <2>7. x = v
    BY <1>5, <1>8, <2>3, <2>4, <2>5, <2>6
  <2>8. DecodedValue(k, x, h) = v
    BY <1>6, <1>8, <2>7
  <2> QED BY <2>8 DEF x
<1>9. CASE ~Constant(k, h) /\ GridOf(k) = 16
  <2>1. b = <<1, ((hi - 16) \div 16) + 1>>
    BY <1>2, <1>9 DEF BoundsOf
  <2>2. i = ((v - 16) \div 16) + 1
    BY <1>2, <1>9
  <2> HIDE DEF b, i, x, lo, hi
  <2>3. lo = 16 /\ (hi = 64 \/ hi = 1024) /\ (v - 16) % 16 = 0
    BY <1>1, <1>3, <1>9
  <2>4. i \in Int /\ 1 <= i /\ i <= b[2] /\ b[2] \in Int /\ 16 + (i - 1) * 16 = v
    BY <1>3, <2>1, <2>2, <2>3
  <2>5. Min({b[2], i}) = i
    BY <2>4, MinOfTwo
  <2>6. Max({1, i}) = i
    BY <2>4, MaxOfTwo
  <2>7. x = i
    BY <1>5, <1>9, <2>1, <2>5, <2>6
  <2>8. DecodedValue(k, x, h) = v
    BY <1>2, <1>6, <1>9, <2>4, <2>7
  <2> QED BY <2>8 DEF x
<1> QED BY <1>1, <1>7, <1>8, <1>9

LEMMA DecodedAre ==
  ASSUME NEW ks \in SUBSET Knobs, NEW h \in Served, NEW s \in Suggestions(ks, h)
  PROVE  LET d == Decoded(s, ks, h)
         IN  /\ DOMAIN d = ks /\ Ranged(d, ks, h)
             /\ "summarize_wal" \in ks => d["summarize_wal"] \in {"true", "false"}
<1> DEFINE values == [k \in ks |-> Searched(k, h)]
           d == Decoded(s, ks, h)
<1>1. PICK c \in Product(values) : s = [k \in {j \in ks : Active(j, c)} |-> c[k]]
  BY DEF Suggestions
<1>2. IsFiniteSet(DOMAIN values) /\ DOMAIN values = ks
  BY KnobsAre, FS_Subset
<1>3. \A k \in ks : c[k] \in Searched(k, h)
  <2>1. \A k \in DOMAIN values : c[k] \in values[k]
    <3> HIDE DEF values
    <3> QED BY <1>2, ProductValues
  <2> QED BY <2>1
<1>4. d = [k \in ks |-> IF k \in DOMAIN s THEN DecodedValue(k, s[k], h) ELSE Default[k]]
  BY DEF Decoded
<1> HIDE DEF d, values
<1>5. DOMAIN d = ks
  BY <1>4
<1>6. h \in Hosts
  BY DEF Served
<1>7. ASSUME NEW k \in ks
      PROVE  IF k \in Numbers THEN d[k] \in Nat /\ InRange(k, d[k], h)
             ELSE d[k] \in Words(k) /\ (k = "summarize_wal" => d[k] \in {"true", "false"})
  <2>1. CASE k \in DOMAIN s /\ k \in Numbers
    <3>1. d[k] = DecodedValue(k, c[k], h)
      BY <1>1, <1>4, <2>1
    <3> QED BY <1>3, <2>1, <3>1, SearchedIs
  <2>2. CASE k \in DOMAIN s /\ k \notin Numbers
    <3>1. d[k] = DecodedValue(k, c[k], h)
      BY <1>1, <1>4, <2>2
    <3>2. GridOf(k) = 1
      <4>1. k \in WordKnobs
        BY <2>2, KnobsAre
      <4> QED BY <4>1 DEF GridOf, WordKnobs
    <3>3. c[k] \in EnumValues[k]
      <4>1. ~Numeric(k)
        BY <2>2 DEF Numbers
      <4> QED BY <1>3, <4>1 DEF Searched
    <3>4. d[k] = c[k]
      BY <3>1, <3>2 DEF DecodedValue
    <3>5. EnumValues["summarize_wal"] = {"true", "false"}
      BY DEF EnumValues
    <3> QED BY <2>2, <3>3, <3>4, <3>5 DEF Words
  <2>3. CASE k \notin DOMAIN s
    <3>1. d[k] = Default[k]
      BY <1>4, <2>3
    <3>2. k \in InactiveInMinimal
      BY <1>1, <2>3 DEF Active
    <3>3. k = "archive_mode" \/ k = "max_wal_senders" \/ k = "summarize_wal"
      BY <3>2 DEF InactiveInMinimal
    <3>4. InRange("max_wal_senders", 10, h)
      BY <1>6, FixedRanges DEF InRange, GridOf
    <3>5. Default["max_wal_senders"] = 10 /\ Default["summarize_wal"] = "false"
      BY DEF Default
    <3>6. "summarize_wal" \notin Numbers /\ "archive_mode" \notin Numbers
      BY KnobsAre DEF WordKnobs
    <3> QED BY <3>1, <3>3, <3>4, <3>5, <3>6, DefaultsAre
  <2> QED BY <2>1, <2>2, <2>3
<1>8. Ranged(d, ks, h)
  BY <1>5, <1>7 DEF Ranged, Typed
<1>9. "summarize_wal" \notin Numbers
  BY KnobsAre DEF WordKnobs
<1> QED BY <1>5, <1>7, <1>8, <1>9 DEF d
-----------------------------------------------------------------------------
(* The invariant of the session                                            *)

SavedInv == saved # Nothing => SavedAs(saved.knobs, saved.config, saved.tier, saved.host)
KnobInv ==
    /\ session \in Sessions /\ host = ResourcesOf(session)
    /\ tier \in Tiers /\ view \in Views(tier)
    /\ Typed(knob_config) /\ DOMAIN knob_config \subseteq tier \cup WalKnobs
    /\ origin \in {"default", "repaired"} /\ steps \in 0..MaxSteps
    /\ SavedInv /\ ToldIsEvaluated

LEMMA PlacesAre ==
  ASSUME NEW s \in Sessions, NEW ks \in Tiers, NEW V \in Views(ks)
  PROVE  ResourcesOf(s) \in Served /\ ks \in SUBSET Knobs /\ V \in SUBSET ks
BY ResourcesType, TiersAssumption DEF Served, Knobs, Views

LEMMA RepairStays ==
  ASSUME NEW d, Typed(d), NEW V, NEW h \in Served, NEW ks, DOMAIN d \subseteq ks \cup WalKnobs
  PROVE  Typed(Repaired(d, V, h)) /\ DOMAIN Repaired(d, V, h) \subseteq ks \cup WalKnobs
<1>1. h \in Hosts
  BY DEF Served
<1> QED BY <1>1, RepairedIs

LEMMA DrawsStay ==
  ASSUME NEW ks \in SUBSET Knobs, NEW h \in Served, NEW c \in Draws(ks, h)
  PROVE  Typed(c) /\ DOMAIN c \subseteq ks \cup WalKnobs
<1>1. h \in Hosts
  BY DEF Served
<1>2. PICK d : Ranged(d, ks, h) /\ DOMAIN d = ks /\ c = Repaired(d, ks, h)
  BY <1>1, DrawsAre
<1> QED BY <1>2, RepairStays DEF Ranged

LEMMA PerturbationsStay ==
  ASSUME NEW c, Typed(c), NEW V, NEW h \in Served, NEW fs \in SUBSET Nat,
         NEW e \in Perturbations(c, V, h, fs), NEW ks, DOMAIN c \subseteq ks \cup WalKnobs
  PROVE  Typed(e) /\ DOMAIN e \subseteq ks \cup WalKnobs
<1>1. h \in Hosts
  BY DEF Served
<1>2. PICK d : Ranged(d, V, h) /\ DOMAIN d = DOMAIN c /\ e = Repaired(d, V, h)
  BY <1>1, PerturbationsAre
<1> QED BY <1>2, RepairStays DEF Ranged

\* Words that no rule touches are kept, and the summarizer with WAL for replicas.
LEMMA WordsKept ==
  ASSUME NEW c, Typed(c), NEW V, NEW h \in Hosts
  PROVE  LET r == Repaired(c, V, h)
         IN  /\ "wal_level" \in DOMAIN c => r["wal_level"] = c["wal_level"]
             /\ ("summarize_wal" \in DOMAIN c /\ ~Has(c, "wal_level", {"minimal"})) =>
                   r["summarize_wal"] = c["summarize_wal"]
<1> DEFINE c1 == WalRepaired(c)
           c2 == HugePagesRepaired(c1)
           c3 == PoolsRepaired(c2)
           c4 == WalSizesRepaired(c3)
           c5 == SlotsRepaired(c4)
           c6 == Normalized(c5, V, h)
           c7 == BudgetRepaired(c6, V, h)
<1>1. /\ Typed(c1) /\ DOMAIN c \subseteq DOMAIN c1
      /\ \A k \in DOMAIN c \ (WalKnobs \cup {"summarize_wal"}) : c1[k] = c[k]
      /\ ~Has(c, "wal_level", {"minimal"}) => c1 = c
  BY WalRepairedIs DEF WalRepaired
<1> HIDE DEF c1
<1>2. /\ Typed(c2) /\ DOMAIN c2 = DOMAIN c1
      /\ \A k \in DOMAIN c1 \ {"huge_pages", "shared_memory_type"} : c2[k] = c1[k]
  BY <1>1, HugePagesRepairedIs
<1> HIDE DEF c2
<1>3. Typed(c3) /\ DOMAIN c3 = DOMAIN c2 /\ \A k \in DOMAIN c2 \ WorkerBounded : c3[k] = c2[k]
  BY <1>2, PoolsRepairedIs
<1> HIDE DEF c3
<1>4. Typed(c4) /\ DOMAIN c4 = DOMAIN c3 /\ \A k \in DOMAIN c3 \ {"min_wal_size"} : c4[k] = c3[k]
  BY <1>3, WalSizesRepairedIs
<1> HIDE DEF c4
<1>5. Typed(c5) /\ DOMAIN c5 = DOMAIN c4 /\ \A k \in DOMAIN c4 \ {"max_connections"} : c5[k] = c4[k]
  BY <1>4, SlotsRepairedIs
<1> HIDE DEF c5
<1>6. /\ Typed(c6) /\ DOMAIN c6 = DOMAIN c5
      /\ \A k \in V \cap DOMAIN c5 \cap Numbers : InRange(k, c6[k], h)
      /\ \A k \in DOMAIN c5 \ (V \cap Numbers) : c6[k] = c5[k]
  BY <1>5, NormalizedIs
<1> HIDE DEF c6
<1>7. /\ DOMAIN c7 = DOMAIN c6
      /\ \A k \in DOMAIN c6 \ (MemoryKnobs \cap V) : c7[k] = c6[k]
  BY <1>6, BudgetRepairedIs
<1> HIDE DEF c7
<1>8. Repaired(c, V, h) = c7
  BY RepairedFactors DEF Rules, c1, c2, c3, c4, c5, c6, c7
<1>9. ASSUME NEW k \in {"wal_level", "summarize_wal"}, k \in DOMAIN c1
      PROVE  c7[k] = c1[k]
  <2>1. /\ k \notin {"huge_pages", "shared_memory_type", "min_wal_size", "max_connections"}
        /\ k \notin WorkerBounded /\ k \notin MemoryKnobs /\ k \notin Numbers
    BY KnobsAre DEF WordKnobs, WorkerBounded, MemoryKnobs
  <2> QED BY <1>2, <1>3, <1>4, <1>5, <1>6, <1>7, <1>9, <2>1
<1>10. "wal_level" \notin WalKnobs \cup {"summarize_wal"}
  BY DEF WalKnobs
<1> QED BY <1>1, <1>8, <1>9, <1>10

\* What the optimizer is told of a trial, decoded, is what was evaluated.
LEMMA TrialTells ==
  ASSUME NEW V \in SUBSET Knobs, NEW h \in Served, NEW s \in Suggestions(V, h)
  PROVE  LET c == Repaired(Decoded(s, V, h), V, h)
             t == Encoded(c, V, h)
         IN  \A k \in DOMAIN t : Active(k, t) => DecodedValue(k, t[k], h) = c[k]
<1> DEFINE d == Decoded(s, V, h)
           c == Repaired(d, V, h)
           t == Encoded(c, V, h)
<1>0. h \in Hosts
  BY DEF Served
<1>1. /\ DOMAIN d = V /\ Typed(d)
      /\ "summarize_wal" \in V => d["summarize_wal"] \in {"true", "false"}
  BY DecodedAre DEF Ranged
<1> HIDE DEF d
<1>2. /\ Typed(c) /\ DOMAIN d \subseteq DOMAIN c
      /\ \A k \in V \cap DOMAIN c \cap Numbers : InRange(k, c[k], h)
  BY <1>0, <1>1, RepairedIs
<1>3. /\ "wal_level" \in DOMAIN d => c["wal_level"] = d["wal_level"]
      /\ ("summarize_wal" \in DOMAIN d /\ ~Has(d, "wal_level", {"minimal"})) =>
            c["summarize_wal"] = d["summarize_wal"]
  BY <1>0, <1>1, WordsKept
<1> HIDE DEF c
<1>4. t = [k \in V \cap DOMAIN c |-> EncodedValue(k, c[k], h)]
  BY DEF Encoded
<1> HIDE DEF t
<1>5. SUFFICES ASSUME NEW k \in DOMAIN t, Active(k, t)
               PROVE  DecodedValue(k, t[k], h) = c[k]
  BY DEF t, c, d
<1>6. k \in V /\ k \in DOMAIN c /\ t[k] = EncodedValue(k, c[k], h)
  BY <1>4
<1>7. CASE k \in Numbers
  <2>1. c[k] \in Nat /\ InRange(k, c[k], h)
    BY <1>2, <1>6, <1>7 DEF Typed
  <2> QED BY <1>6, <1>7, <2>1, EncodingReturns
<1>8. CASE k \notin Numbers
  <2>1. k \in Knobs /\ k \in WordKnobs
    BY <1>2, <1>6, <1>8, KnobsAre DEF Typed
  <2>2. ~Numeric(k) /\ GridOf(k) = 1
    BY <1>8, <2>1 DEF Numbers, GridOf, WordKnobs
  <2>3. DecodedValue(k, t[k], h) = t[k]
    BY <2>2 DEF DecodedValue
  <2>4. CASE k # "summarize_wal"
    <3>1. EncodedValue(k, c[k], h) = c[k]
      BY <2>2, <2>4 DEF EncodedValue
    <3> QED BY <1>6, <2>3, <3>1
  <2>5. CASE k = "summarize_wal"
    <3>1. EncodedValue(k, c[k], h) = IF c[k] = "false" THEN "false" ELSE "true"
      BY <2>2, <2>5 DEF EncodedValue
    <3>2. ~Has(t, "wal_level", {"minimal"})
      BY <1>5, <2>5 DEF Active, InactiveInMinimal
    <3>3. ~Has(d, "wal_level", {"minimal"})
      <4> SUFFICES ASSUME "wal_level" \in DOMAIN d, d["wal_level"] = "minimal" PROVE FALSE
        BY DEF Has
      <4>1. "wal_level" \in V /\ "wal_level" \in DOMAIN c /\ c["wal_level"] = "minimal"
        BY <1>1, <1>2, <1>3
      <4>2. "wal_level" \in DOMAIN t /\ t["wal_level"] = EncodedValue("wal_level", "minimal", h)
        BY <1>4, <4>1
      <4>3. ~Numeric("wal_level")
        BY KnobsAre DEF WordKnobs, Numbers
      <4>4. EncodedValue("wal_level", "minimal", h) = "minimal"
        BY <4>3 DEF EncodedValue
      <4> QED BY <3>2, <4>2, <4>4 DEF Has
    <3>4. c[k] = d[k] /\ d[k] \in {"true", "false"}
      BY <1>1, <1>3, <1>6, <2>5, <3>3
    <3> QED BY <1>6, <2>3, <3>1, <3>4
  <2> QED BY <2>4, <2>5
<1> QED BY <1>7, <1>8

LEMMA KnobInitInv == KnobInit => KnobInv
<1> SUFFICES ASSUME KnobInit PROVE KnobInv
  OBVIOUS
<1> USE DEF KnobInit
<1>1. host \in Served /\ tier \in SUBSET Knobs
  BY PlacesAre
<1>2. Typed(knob_config) /\ DOMAIN knob_config \subseteq tier \cup WalKnobs
  BY <1>1, DrawsStay, DefaultConfigIs
<1>3. steps \in 0..MaxSteps
  BY KnobSpaceAssumption
<1> QED BY <1>2, <1>3 DEF KnobInv, SavedInv, ToldIsEvaluated

LEMMA KnobNextInv ==
  ASSUME KnobInv, [KnobNext]_knobVars
  PROVE  KnobInv'
<1> USE DEF KnobInv
<1>1. host \in Served /\ tier \in SUBSET Knobs /\ view \in SUBSET tier
  BY PlacesAre
<1>2. ASSUME Step PROVE steps' \in 0..MaxSteps
  BY <1>2, KnobSpaceAssumption DEF Step
<1>3. ASSUME Explore PROVE KnobInv'
  <2>1. Factors \in SUBSET Nat
    BY KnobSpaceAssumption
  <2>2. (Typed(knob_config) /\ DOMAIN knob_config \subseteq tier \cup WalKnobs)'
    BY <1>1, <1>3, <2>1, PerturbationsStay DEF Explore, place
  <2> QED BY <1>2, <1>3, <2>2 DEF Explore, place, SavedInv, ToldIsEvaluated
<1>4. ASSUME Redraw PROVE KnobInv'
  <2>1. {50, 150} \in SUBSET Nat /\ view \in SUBSET Knobs
    BY <1>1
  <2>2. Typed(knob_config') /\ DOMAIN knob_config' \subseteq tier \cup WalKnobs
    <3>1. CASE knob_config' \in Draws(view, host)
      BY <1>1, <2>1, <3>1, DrawsStay
    <3>2. CASE knob_config' \in Perturbations(knob_config, view, host, {50, 150})
      BY <1>1, <2>1, <3>2, PerturbationsStay
    <3> QED BY <1>4, <3>1, <3>2 DEF Redraw
  <2>3. (Typed(knob_config) /\ DOMAIN knob_config \subseteq tier \cup WalKnobs)'
    BY <1>4, <2>2 DEF Redraw, place
  <2> QED BY <1>2, <1>4, <2>3 DEF Redraw, place, SavedInv, ToldIsEvaluated
<1>5. ASSUME SaveBest PROVE KnobInv'
  <2>1. SavedAs(ToFractions(knob_config, tier, host), knob_config, tier, host)
    BY <1>1 DEF SavedAs
  <2>2. SavedInv'
    BY <1>5, <2>1 DEF SaveBest, SavedInv
  <2>3. ToldIsEvaluated'
    BY <1>5 DEF SaveBest, place, ToldIsEvaluated
  <2> QED BY <1>2, <1>5, <2>2, <2>3 DEF SaveBest, place
<1>6. ASSUME WarmStart PROVE KnobInv'
  <2>1. SavedAs(saved.knobs, saved.config, saved.tier, saved.host)
    BY <1>6 DEF WarmStart, Running, SavedInv
  <2>2. PICK s \in Sessions, ks \in Tiers :
          /\ session' = s /\ host' = ResourcesOf(s) /\ tier' = ks /\ view' \in Views(ks)
          /\ knob_config' \in WarmStarts(saved.knobs, ks, host')
    BY <1>6 DEF WarmStart
  <2>3. host' \in Served /\ ks \in SUBSET Knobs
    BY <2>2, PlacesAre
  <2>4. PICK d : Typed(d) /\ DOMAIN d = ks /\ knob_config' = Repaired(d, ks, host')
    BY <2>1, <2>2, <2>3, WarmStartsAre
  <2>5. (Typed(knob_config) /\ DOMAIN knob_config \subseteq tier \cup WalKnobs)'
    BY <2>2, <2>3, <2>4, RepairStays
  <2> QED BY <1>2, <1>6, <2>2, <2>5 DEF WarmStart, SavedInv, ToldIsEvaluated
<1>7. ASSUME Trial PROVE KnobInv'
  <2>1. view \in SUBSET Knobs
    BY <1>1
  <2>2. PICK s \in Suggestions(view, host) :
          /\ knob_config' = Repaired(Decoded(s, view, host), view, host)
          /\ told' = Encoded(Repaired(Decoded(s, view, host), view, host), view, host)
    BY <1>7 DEF Trial
  <2>3. Typed(Decoded(s, view, host)) /\ DOMAIN Decoded(s, view, host) = view
    BY <1>1, <2>1, DecodedAre DEF Ranged
  <2>4. (Typed(knob_config) /\ DOMAIN knob_config \subseteq tier \cup WalKnobs)'
    BY <1>1, <1>7, <2>2, <2>3, RepairStays DEF Trial, place
  <2>5. \A k \in DOMAIN told' : Active(k, told') => DecodedValue(k, told'[k], host) = knob_config'[k]
    BY <1>1, <2>1, <2>2, TrialTells
  <2>6. ToldIsEvaluated'
    BY <1>7, <2>5 DEF Trial, place, ToldIsEvaluated
  <2> QED BY <1>2, <1>7, <2>4, <2>6 DEF Trial, place, SavedInv
<1>8. ASSUME UNCHANGED knobVars PROVE KnobInv'
  BY <1>8 DEF knobVars, place, SavedInv, ToldIsEvaluated
<1> QED BY <1>3, <1>4, <1>5, <1>6, <1>7, <1>8 DEF KnobNext, Finished

\* Every configuration a session draws, perturbs, repairs, restores or decodes has
\* a value of its kind for each of its knobs, and no saved fraction divides by 0.
THEOREM KnobTypeCorrect == KnobSpec => []KnobTypeOK
<1>1. KnobInv => KnobTypeOK
  <2> SUFFICES ASSUME KnobInv PROVE KnobTypeOK
    OBVIOUS
  <2>1. ASSUME NEW k \in DOMAIN knob_config
        PROVE  IF Numeric(k) THEN knob_config[k] \in Nat
               ELSE knob_config[k] \in EnumValues[k] \cup {"off"}
    BY DEF KnobInv, Typed, Numbers, Words
  <2>2. ASSUME saved # Nothing PROVE \A k \in DOMAIN saved.knobs : saved.knobs[k].of > 0
    BY <2>2, FractionsAre DEF KnobInv, SavedInv
  <2> QED BY <2>1, <2>2 DEF KnobInv, KnobTypeOK
<1> QED BY <1>1, KnobInitInv, KnobNextInv, PTL DEF KnobSpec

\* Exploration is not stuck (_perturb_knob_by_factor): each factor moves each
\* number its own way by a grid step at least, or to the end of the range.
THEOREM FactorsMove == KnobSpec => []EveryFactorMoves
<1>1. KnobInv => EveryFactorMoves
  <2> SUFFICES ASSUME KnobInv, NEW k \in view \cap DOMAIN knob_config, NEW f \in Factors,
                      Numeric(k), InRange(k, knob_config[k], host)
               PROVE  LET r == RangeOn(k, host)
                          v == PerturbedNumber(k, knob_config[k], f, host)
                      IN  IF f > 100
                          THEN v >= knob_config[k] + GridOf(k) \/ v = r[2]
                          ELSE v <= knob_config[k] - GridOf(k) \/ v = r[1]
    BY DEF EveryFactorMoves
  <2>1. k \in Numbers /\ knob_config[k] \in Nat
    BY DEF KnobInv, Typed, Numbers
  <2>2. host \in Hosts
    BY PlacesAre DEF KnobInv, Served
  <2>3. f \in Nat /\ f # 100
    BY KnobSpaceAssumption
  <2> QED BY <2>1, <2>2, <2>3, FactorMoves
<1> QED BY <1>1, KnobInitInv, KnobNextInv, PTL DEF KnobSpec

\* The fractions a session saves resolve to the numbers they were made of
\* (knobs_to_fractions), and what the surrogate is told of a trial decodes to
\* what was evaluated (knobs_to_configspace).
THEOREM NothingIsLost == KnobSpec => []EncodingsLoseNothing
<1>1. KnobInv => EncodingsLoseNothing
  <2> SUFFICES ASSUME KnobInv, saved # Nothing, NEW k \in DOMAIN saved.config,
                      (k \in saved.tier /\ Relative(k)) => InRange(k, saved.config[k], saved.host)
               PROVE  TunedKnobs[k] = saved.config[k]
    BY DEF EncodingsLoseNothing, TunedIsMeasured, KnobInv
  <2> QED BY FractionsRestore DEF KnobInv, SavedInv, TunedKnobs
<1> QED BY <1>1, KnobInitInv, KnobNextInv, PTL DEF KnobSpec
-----------------------------------------------------------------------------
(* What the repair guarantees                                              *)

Within(c, k, lo, hi) == k \in DOMAIN c => lo <= c[k] /\ c[k] <= hi
\* The knobs the rules compare with, where every session keeps them.
Steady(c) ==
    /\ Within(c, "max_connections", 50, 200)
    /\ Within(c, "reserved_connections", 0, 5)
    /\ Within(c, "superuser_reserved_connections", 0, 5)
    /\ Within(c, "max_wal_size", 80, 10240)
SteadyKnobs == {"max_connections", "reserved_connections",
                "superuser_reserved_connections", "max_wal_size"}

\* The least of max_parallel_workers: a pool smaller than that is overtaken
\* when the numbers are brought back into their ranges.
Floor(h) == RangeOn("max_parallel_workers", h)[1]
Pooled(c, h) ==
    "max_worker_processes" \in DOMAIN c => Floor(h) <= c["max_worker_processes"]
PoolRanged(c, V, h) ==
    ("max_worker_processes" \in DOMAIN c /\ "max_worker_processes" \in V) =>
        InRange("max_worker_processes", c["max_worker_processes"], h)

LEMMA SteadyRanges ==
  ASSUME NEW h \in Hosts, NEW k \in SteadyKnobs, NEW v \in Nat
  PROVE  /\ k \in Numbers
         /\ InRange(k, v, h) <=> RangeOn(k, h)[1] <= v /\ v <= RangeOn(k, h)[2]
<1>1. k \in Numbers
  BY NumbersAre DEF SteadyKnobs
<1>2. GridOf(k) = 1
  BY DEF GridOf, SteadyKnobs
<1>3. RangeOn(k, h)[1] \in Nat /\ (v - RangeOn(k, h)[1]) % 1 = 0
  BY <1>1, RangeType
<1> QED BY <1>1, <1>2, <1>3 DEF InRange

LEMMA SteadyIs ==
  ASSUME NEW c, Typed(c), NEW h \in Hosts
  PROVE  Steady(c) <=> \A k \in SteadyKnobs \cap DOMAIN c : InRange(k, c[k], h)
<1>1. \A k \in SteadyKnobs \cap DOMAIN c : c[k] \in Nat
  BY NumbersAre DEF SteadyKnobs, Typed
<1>2. "max_connections" \in DOMAIN c =>
        (InRange("max_connections", c["max_connections"], h)
           <=> 50 <= c["max_connections"] /\ c["max_connections"] <= 200)
  BY <1>1, SteadyRanges, FixedRanges DEF SteadyKnobs
<1>3. "max_wal_size" \in DOMAIN c =>
        (InRange("max_wal_size", c["max_wal_size"], h)
           <=> 80 <= c["max_wal_size"] /\ c["max_wal_size"] <= 10240)
  BY <1>1, SteadyRanges, FixedRanges DEF SteadyKnobs
<1>4. "reserved_connections" \in DOMAIN c =>
        (InRange("reserved_connections", c["reserved_connections"], h)
           <=> 0 <= c["reserved_connections"] /\ c["reserved_connections"] <= 5)
  BY <1>1, SteadyRanges, FixedRanges DEF SteadyKnobs
<1>5. "superuser_reserved_connections" \in DOMAIN c =>
        (InRange("superuser_reserved_connections", c["superuser_reserved_connections"], h)
           <=> 0 <= c["superuser_reserved_connections"]
                 /\ c["superuser_reserved_connections"] <= 5)
  BY <1>1, SteadyRanges, FixedRanges DEF SteadyKnobs
<1> QED BY <1>2, <1>3, <1>4, <1>5 DEF Steady, Within, SteadyKnobs

LEMMA SteadyReserves ==
  ASSUME NEW c, Typed(c), Steady(c)
  PROVE  Reserved(c) <= 10
<1>1. {"reserved_connections", "superuser_reserved_connections"} \subseteq Numbers
  BY NumbersAre
<1>2. /\ Get(c, "reserved_connections", 0) \in 0..5
      /\ Get(c, "superuser_reserved_connections", 0) \in 0..5
  BY <1>1 DEF Typed, Steady, Within, Get
<1> QED BY <1>2 DEF Reserved

LEMMA NormalizeAtMost ==
  ASSUME NEW k \in Numbers, GridOf(k) = 1, NEW h \in Hosts, NEW n \in Int, NEW d \in Nat \ {0}
  PROVE  Normalize(k, n, d, h) <= RangeOn(k, h)[1] \/ Normalize(k, n, d, h) <= Rounded(n, d)
<1>1. Rounded(n, d) \in Int
  BY RoundedInt
<1>2. Normalize(k, n, d, h) = Clamp(k, Rounded(n, d), h)
  BY NormalizeIs
<1>3. RangeOn(k, h)[1] \in Nat /\ RangeOn(k, h)[2] \in Nat
  BY RangeType
<1> QED BY <1>1, <1>2, <1>3, ClampIs

LEMMA PoolFloors ==
  ASSUME NEW h \in Hosts
  PROVE  /\ Floor(h) \in Nat
         /\ \A k \in WorkerBounded : RangeOn(k, h)[1] <= Floor(h)
         /\ Floor(h) <= RangeOn("max_worker_processes", h)[1]
         /\ h.cpu <= 34 => Floor(h) <= 8
<1> DEFINE none == h.cpu * 0
           quarter == h.cpu * 250
           half == h.cpu * 500
<1>1. /\ none \in Int /\ quarter \in Int /\ half \in Int /\ none = 0 /\ 0 <= quarter
      /\ quarter <= half /\ (h.cpu <= 34 => quarter <= 8500)
  BY DEF Hosts
<1>2. /\ RangeOn("max_worker_processes", h)[1] = AtLeast(4, Rounded(half, 1000))
      /\ Floor(h) = AtLeast(0, Rounded(quarter, 1000))
      /\ RangeOn("max_parallel_maintenance_workers", h)[1] = AtLeast(0, Rounded(none, 1000))
  BY CpuRanges DEF Floor
<1> HIDE DEF none, quarter, half
<1>3. /\ Rounded(none, 1000) \in Int /\ Rounded(quarter, 1000) \in Int /\ Rounded(half, 1000) \in Int
      /\ Rounded(none, 1000) <= Rounded(quarter, 1000)
      /\ Rounded(quarter, 1000) <= Rounded(half, 1000)
  <2>1. 1000 \in Nat \ {0} /\ none <= quarter
    BY <1>1
  <2>2. Rounded(none, 1000) \in Int /\ Rounded(quarter, 1000) \in Int /\ Rounded(half, 1000) \in Int
    BY <1>1, <2>1, RoundedInt
  <2>3. Rounded(none, 1000) <= Rounded(quarter, 1000)
    BY <1>1, <2>1, RoundedMonotone
  <2>4. Rounded(quarter, 1000) <= Rounded(half, 1000)
    BY <1>1, <2>1, RoundedMonotone
  <2> QED BY <2>2, <2>3, <2>4
<1>4. Rounded(8500, 1000) = 8
  BY DEF Rounded
<1>5. h.cpu <= 34 => Rounded(quarter, 1000) <= 8
  <2>1. 1000 \in Nat \ {0} /\ 8500 \in Int
    OBVIOUS
  <2>2. h.cpu <= 34 => Rounded(quarter, 1000) <= Rounded(8500, 1000)
    BY <1>1, <2>1, RoundedMonotone
  <2> QED BY <1>4, <2>2
<1>6. /\ AtLeast(4, Rounded(half, 1000)) >= Rounded(half, 1000)
      /\ AtLeast(4, Rounded(half, 1000)) >= 4
      /\ AtLeast(4, Rounded(half, 1000)) \in Int
  BY <1>3, AtLeastIs
<1>7. AtLeast(0, Rounded(quarter, 1000)) = IF 0 >= Rounded(quarter, 1000) THEN 0
                                           ELSE Rounded(quarter, 1000)
  BY <1>3, AtLeastIs
<1>8. AtLeast(0, Rounded(none, 1000)) = IF 0 >= Rounded(none, 1000) THEN 0 ELSE Rounded(none, 1000)
  BY <1>3, AtLeastIs
<1>9. Floor(h) \in Nat /\ (h.cpu <= 34 => Floor(h) <= 8)
  BY <1>2, <1>3, <1>5, <1>7
<1>10. Floor(h) <= RangeOn("max_worker_processes", h)[1]
  BY <1>2, <1>3, <1>6, <1>7
<1>11. RangeOn("max_parallel_maintenance_workers", h)[1] <= Floor(h)
  BY <1>2, <1>3, <1>7, <1>8
<1>12. RangeOn("max_logical_replication_workers", h)[1] = 0
  BY FixedRanges
<1>13. \A k \in WorkerBounded : RangeOn(k, h)[1] <= Floor(h)
  BY <1>9, <1>11, <1>12 DEF WorkerBounded, Floor
<1> QED BY <1>9, <1>10, <1>13

LEMMA NormalizedSame ==
  ASSUME NEW k \in Numbers, NEW h \in Hosts, NEW v \in Nat, InRange(k, v, h)
  PROVE  Normalize(k, v, 1, h) = v
<1>1. Rounded(v, 1) = v /\ v \in Int
  BY RoundedWhole
<1> QED BY <1>1, NormalizeKeeps

\* A configuration that starts with enough workers and its bounds in their
\* ranges can be applied when it is repaired.
LEMMA RepairedApplies ==
  ASSUME NEW c, Typed(c), NEW V, NEW h \in Hosts, Steady(c), Pooled(c, h), PoolRanged(c, V, h)
  PROVE  LET r == Repaired(c, V, h)
         IN  Applicable(r) /\ Steady(r) /\ Pooled(r, h)
<1> DEFINE c1 == WalRepaired(c)
           c2 == HugePagesRepaired(c1)
           c3 == PoolsRepaired(c2)
           c4 == WalSizesRepaired(c3)
           c5 == SlotsRepaired(c4)
           c6 == Normalized(c5, V, h)
           c7 == BudgetRepaired(c6, V, h)
           mwp == "max_worker_processes"
<1>0. /\ SteadyKnobs \cup WorkerBounded \cup {mwp, "min_wal_size"} \subseteq Numbers
      /\ \A k \in SteadyKnobs \cup WorkerBounded \cup {mwp, "min_wal_size"} :
            /\ k \notin WalKnobs \cup {"summarize_wal"}
            /\ k \notin {"huge_pages", "shared_memory_type"}
            /\ k # "max_connections" => k \notin MemoryKnobs
      /\ mwp \notin WorkerBounded /\ mwp \notin SteadyKnobs /\ mwp # "min_wal_size"
      /\ SteadyKnobs \cap WorkerBounded = {}
      /\ "min_wal_size" \notin SteadyKnobs \cup WorkerBounded
      /\ mwp # "max_connections" /\ mwp \notin MemoryKnobs
  BY NumbersAre DEF SteadyKnobs, WorkerBounded, WalKnobs, MemoryKnobs
<1>1. /\ Typed(c1) /\ DOMAIN c \subseteq DOMAIN c1 /\ DOMAIN c1 \subseteq DOMAIN c \cup WalKnobs
      /\ \A k \in DOMAIN c \ (WalKnobs \cup {"summarize_wal"}) : c1[k] = c[k]
  BY WalRepairedIs
<1> HIDE DEF c1
<1>2. /\ Typed(c2) /\ DOMAIN c2 = DOMAIN c1
      /\ \A k \in DOMAIN c1 \ {"huge_pages", "shared_memory_type"} : c2[k] = c1[k]
  BY <1>1, HugePagesRepairedIs
<1> HIDE DEF c2
<1>3. /\ Typed(c3) /\ DOMAIN c3 = DOMAIN c2 /\ \A k \in DOMAIN c2 \ WorkerBounded : c3[k] = c2[k]
      /\ mwp \in DOMAIN c2 => \A k \in WorkerBounded \cap DOMAIN c2 : c3[k] <= c2[mwp]
  BY <1>2, PoolsRepairedIs
<1> HIDE DEF c3
<1>4. /\ Typed(c4) /\ DOMAIN c4 = DOMAIN c3 /\ \A k \in DOMAIN c3 \ {"min_wal_size"} : c4[k] = c3[k]
      /\ ({"min_wal_size", "max_wal_size"} \subseteq DOMAIN c3 /\ c3["max_wal_size"] >= 1) =>
            c4["min_wal_size"] <= c3["max_wal_size"]
  BY <1>3, WalSizesRepairedIs
<1> HIDE DEF c4
<1>5. /\ Typed(c5) /\ DOMAIN c5 = DOMAIN c4 /\ \A k \in DOMAIN c4 \ {"max_connections"} : c5[k] = c4[k]
      /\ ("max_connections" \in DOMAIN c4 /\ Reserved(c4) < c4["max_connections"]) =>
            c5["max_connections"] = c4["max_connections"]
  BY <1>4, SlotsRepairedIs
<1> HIDE DEF c5
<1>6. /\ Typed(c6) /\ DOMAIN c6 = DOMAIN c5
      /\ \A k \in V \cap DOMAIN c5 \cap Numbers :
            c6[k] = Normalize(k, c5[k], 1, h) /\ InRange(k, c6[k], h)
      /\ \A k \in DOMAIN c5 \ (V \cap Numbers) : c6[k] = c5[k]
  BY <1>5, NormalizedIs
<1> HIDE DEF c6
<1>7. /\ Typed(c7) /\ DOMAIN c7 = DOMAIN c6
      /\ \A k \in V \cap DOMAIN c6 \cap Numbers : InRange(k, c7[k], h)
      /\ \A k \in DOMAIN c6 \ (MemoryKnobs \cap V) : c7[k] = c6[k]
  BY <1>6, BudgetRepairedIs
<1> HIDE DEF c7
<1>8. Repaired(c, V, h) = c7
  BY RepairedFactors DEF Rules, c1, c2, c3, c4, c5, c6, c7
<1>9. /\ DOMAIN c7 = DOMAIN c1 /\ DOMAIN c5 = DOMAIN c1 /\ DOMAIN c4 = DOMAIN c1
      /\ DOMAIN c3 = DOMAIN c1 /\ DOMAIN c2 = DOMAIN c1 /\ DOMAIN c6 = DOMAIN c1
  BY <1>2, <1>3, <1>4, <1>5, <1>6, <1>7
<1>10. ASSUME NEW k \in SteadyKnobs, k \in DOMAIN c1 PROVE k \in DOMAIN c /\ c4[k] = c[k]
  BY <1>0, <1>1, <1>2, <1>3, <1>4, <1>9, <1>10
<1>11. Steady(c4) /\ Reserved(c4) <= 10
  <2>1. Steady(c4)
    BY <1>9, <1>10 DEF Steady, Within, SteadyKnobs
  <2> QED BY <1>4, <2>1, SteadyReserves
<1>12. ASSUME NEW k \in SteadyKnobs, k \in DOMAIN c1 PROVE c5[k] = c4[k]
  <2>1. CASE k # "max_connections"
    BY <1>5, <1>9, <1>12, <2>1
  <2>2. CASE k = "max_connections"
    <3>1. c4[k] >= 50 /\ c4[k] \in Nat
      BY <1>0, <1>4, <1>9, <1>11, <1>12, <2>2 DEF Steady, Within, Typed
    <3>2. Reserved(c4) \in Nat
      BY <1>4, ReservedType
    <3>3. Reserved(c4) < c4[k]
      BY <1>11, <3>1, <3>2
    <3> QED BY <1>5, <1>9, <1>12, <2>2, <3>3
  <2> QED BY <2>1, <2>2
<1>13. ASSUME NEW k \in SteadyKnobs, k \in DOMAIN c1 PROVE c6[k] = c[k] /\ InRange(k, c7[k], h)
  <2>1. c5[k] = c[k] /\ k \in DOMAIN c
    BY <1>10, <1>12, <1>13
  <2>2. InRange(k, c[k], h) /\ c[k] \in Nat /\ k \in Numbers
    BY <1>0, <2>1, SteadyIs DEF Typed
  <2>3. Normalize(k, c[k], 1, h) = c[k]
    BY <2>2, NormalizedSame
  <2>4. CASE k \in V
    BY <1>6, <1>7, <1>9, <1>13, <2>1, <2>2, <2>3, <2>4
  <2>5. CASE k \notin V
    BY <1>6, <1>7, <1>9, <1>13, <2>1, <2>2, <2>5
  <2> QED BY <2>4, <2>5
<1>14. Steady(c7)
  <2>1. \A k \in SteadyKnobs \cap DOMAIN c7 : InRange(k, c7[k], h)
    BY <1>9, <1>13
  <2> QED BY <1>7, <2>1, SteadyIs
<1>15. ASSUME mwp \in DOMAIN c1
       PROVE  mwp \in DOMAIN c /\ c2[mwp] = c[mwp] /\ c7[mwp] = c[mwp] /\ c[mwp] \in Nat
  <2>1. mwp \in DOMAIN c /\ c2[mwp] = c[mwp] /\ c5[mwp] = c[mwp] /\ mwp \in Numbers
    BY <1>0, <1>1, <1>2, <1>3, <1>4, <1>5, <1>9, <1>15
  <2>2. c[mwp] \in Nat
    BY <2>1 DEF Typed
  <2>3. c6[mwp] = c[mwp]
    <3>1. CASE mwp \in V
      <4>1. Normalize(mwp, c[mwp], 1, h) = c[mwp]
        BY <2>1, <2>2, <3>1, NormalizedSame DEF PoolRanged
      <4> QED BY <1>6, <1>9, <1>15, <2>1, <3>1, <4>1
    <3>2. CASE mwp \notin V
      BY <1>6, <1>9, <1>15, <2>1, <3>2
    <3> QED BY <3>1, <3>2
  <2>4. c7[mwp] = c6[mwp]
    BY <1>0, <1>7, <1>9, <1>15
  <2> QED BY <2>1, <2>2, <2>3, <2>4
<1>16. Pooled(c7, h)
  BY <1>9, <1>15 DEF Pooled
<1>17. ASSUME mwp \in DOMAIN c1, NEW k \in WorkerBounded, k \in DOMAIN c1
       PROVE  c7[k] \in Nat /\ c7[k] <= c7[mwp]
  <2>1. k \in Numbers /\ GridOf(k) = 1
    BY <1>0 DEF GridOf, WorkerBounded
  <2>2. c3[k] <= c2[mwp] /\ c5[k] = c3[k] /\ c7[k] = c6[k]
    <3>1. k # "min_wal_size" /\ k # "max_connections" /\ k \notin MemoryKnobs
      BY DEF WorkerBounded, MemoryKnobs
    <3> QED BY <1>3, <1>4, <1>5, <1>7, <1>9, <1>17, <3>1
  <2>3. c5[k] \in Nat /\ c7[k] \in Nat /\ c5[k] <= c7[mwp] /\ c7[mwp] \in Nat
    BY <1>5, <1>7, <1>9, <1>15, <1>17, <2>1, <2>2 DEF Typed
  <2>4. CASE k \in V
    <3>1. c7[k] = Normalize(k, c5[k], 1, h)
      BY <1>6, <1>9, <1>17, <2>1, <2>2, <2>4
    <3>2. c7[k] <= RangeOn(k, h)[1] \/ c7[k] <= c5[k]
      BY <2>1, <2>3, <3>1, NormalizeAtMost, RoundedWhole
    <3>3. RangeOn(k, h)[1] \in Nat /\ RangeOn(k, h)[1] <= Floor(h) /\ Floor(h) \in Nat
      BY <2>1, PoolFloors, RangeType
    <3>4. Floor(h) <= c7[mwp]
      BY <1>9, <1>16, <1>17 DEF Pooled
    <3> QED BY <2>3, <3>2, <3>3, <3>4
  <2>5. CASE k \notin V
    BY <1>6, <1>9, <1>17, <2>2, <2>3, <2>5
  <2> QED BY <2>4, <2>5
<1>18. ASSUME {"min_wal_size", "max_wal_size"} \subseteq DOMAIN c1
       PROVE  /\ c7["min_wal_size"] \in Nat /\ c7["max_wal_size"] \in Nat
              /\ c7["min_wal_size"] <= c7["max_wal_size"]
  <2>1. /\ "max_wal_size" \in SteadyKnobs /\ "max_wal_size" \notin MemoryKnobs
        /\ "min_wal_size" \notin MemoryKnobs /\ "min_wal_size" # "max_connections"
        /\ {"min_wal_size", "max_wal_size"} \subseteq Numbers /\ GridOf("min_wal_size") = 1
    BY NumbersAre DEF SteadyKnobs, MemoryKnobs, GridOf
  <2>2. c7["max_wal_size"] = c["max_wal_size"] /\ c3["max_wal_size"] = c["max_wal_size"]
    BY <1>4, <1>7, <1>9, <1>10, <1>13, <1>18, <2>1
  <2>3. c["max_wal_size"] >= 80 /\ c["max_wal_size"] \in Nat
    BY <1>10, <1>18, <2>1 DEF Steady, Within, Typed
  <2>4. c4["min_wal_size"] <= c["max_wal_size"]
    BY <1>4, <1>9, <1>18, <2>2, <2>3
  <2>5. c5["min_wal_size"] = c4["min_wal_size"] /\ c7["min_wal_size"] = c6["min_wal_size"]
    BY <1>5, <1>7, <1>9, <1>18, <2>1
  <2>6. c5["min_wal_size"] \in Nat /\ c7["min_wal_size"] \in Nat
    BY <1>5, <1>7, <1>9, <1>18, <2>1 DEF Typed
  <2>7. CASE "min_wal_size" \in V
    <3>1. c7["min_wal_size"] = Normalize("min_wal_size", c5["min_wal_size"], 1, h)
      BY <1>6, <1>9, <1>18, <2>1, <2>5, <2>7
    <3>2. c7["min_wal_size"] <= RangeOn("min_wal_size", h)[1]
            \/ c7["min_wal_size"] <= c5["min_wal_size"]
      BY <2>1, <2>6, <3>1, NormalizeAtMost, RoundedWhole
    <3>3. RangeOn("min_wal_size", h)[1] = 80
      BY FixedRanges
    <3> QED BY <2>2, <2>3, <2>4, <2>5, <2>6, <3>2, <3>3
  <2>8. CASE "min_wal_size" \notin V
    BY <1>6, <1>9, <1>18, <2>1, <2>2, <2>3, <2>4, <2>5, <2>6, <2>8
  <2> QED BY <2>7, <2>8
<1>19. WalSafe(c7) /\ HugeSafe(c7)
  BY <1>8, RepairedIs
<1>20. ~Forbidden(c7)
  <2>1. ~\E k \in WorkerBounded \cap DOMAIN c7 : Get(c7, mwp, c7[k]) < c7[k]
    <3> SUFFICES ASSUME NEW k \in WorkerBounded \cap DOMAIN c7, Get(c7, mwp, c7[k]) < c7[k]
                 PROVE  FALSE
      OBVIOUS
    <3>1. c7[k] \in Nat
      BY <1>0, <1>7 DEF Typed
    <3>2. CASE mwp \in DOMAIN c7
      <4>1. c7[mwp] \in Nat /\ c7[k] <= c7[mwp] /\ Get(c7, mwp, c7[k]) = c7[mwp]
        BY <1>9, <1>15, <1>17, <3>2 DEF Get
      <4> QED BY <3>1, <4>1
    <3>3. CASE mwp \notin DOMAIN c7
      BY <3>1, <3>3 DEF Get
    <3> QED BY <3>2, <3>3
  <2>2. ~("min_wal_size" \in DOMAIN c7
           /\ c7["min_wal_size"] > Get(c7, "max_wal_size", c7["min_wal_size"]))
    <3> SUFFICES ASSUME "min_wal_size" \in DOMAIN c7,
                        c7["min_wal_size"] > Get(c7, "max_wal_size", c7["min_wal_size"])
                 PROVE  FALSE
      OBVIOUS
    <3>1. c7["min_wal_size"] \in Nat
      BY <1>0, <1>7 DEF Typed
    <3>2. CASE "max_wal_size" \in DOMAIN c7
      BY <1>9, <1>18, <3>2 DEF Get
    <3>3. CASE "max_wal_size" \notin DOMAIN c7
      BY <3>1, <3>3 DEF Get
    <3> QED BY <3>2, <3>3
  <2> QED BY <1>19, <2>1, <2>2 DEF Forbidden, HugeSafe
<1>21. ASSUME "max_connections" \in DOMAIN c7 PROVE Reserved(c7) < c7["max_connections"]
  <2>1. c7["max_connections"] >= 50 /\ c7["max_connections"] \in Nat
    BY <1>0, <1>7, <1>14, <1>21 DEF Steady, Within, Typed, SteadyKnobs
  <2>2. Reserved(c7) \in Nat /\ Reserved(c7) <= 10
    BY <1>7, <1>14, ReservedType, SteadyReserves
  <2> QED BY <2>1, <2>2
<1>22. Applicable(c7)
  BY <1>19, <1>20, <1>21 DEF Applicable, WalSafe
<1> QED BY <1>8, <1>14, <1>16, <1>22
\* What every repair leaves: a configuration that applies and stays repairable.
Fit(c, V, h) ==
    /\ Applicable(c) /\ Steady(c) /\ Pooled(c, h)
    /\ \A k \in V \cap DOMAIN c \cap Numbers : InRange(k, c[k], h)

LEMMA RepairedFits ==
  ASSUME NEW d, Typed(d), NEW V, NEW h \in Hosts,
         \A k \in SteadyKnobs \cap DOMAIN d : InRange(k, d[k], h),
         "max_worker_processes" \in DOMAIN d =>
            Pooled(d, h) \/ InRange("max_worker_processes", d["max_worker_processes"], h),
         PoolRanged(d, V, h)
  PROVE  Fit(Repaired(d, V, h), V, h)
<1>1. Steady(d)
  BY SteadyIs
<1>2. Pooled(d, h)
  <2> SUFFICES ASSUME "max_worker_processes" \in DOMAIN d,
                      InRange("max_worker_processes", d["max_worker_processes"], h)
               PROVE  Floor(h) <= d["max_worker_processes"]
    BY DEF Pooled
  <2>1. "max_worker_processes" \in Numbers
    BY NumbersAre
  <2>2. d["max_worker_processes"] \in Nat
    BY <2>1 DEF Typed
  <2>3. RangeOn("max_worker_processes", h)[1] <= d["max_worker_processes"]
    BY DEF InRange
  <2>4. RangeOn("max_worker_processes", h)[1] \in Nat
    BY <2>1, RangeType
  <2> QED BY <2>2, <2>3, <2>4, PoolFloors
<1> QED BY <1>1, <1>2, RepairedApplies, RepairedIs DEF Fit

LEMMA DrawsFit ==
  ASSUME NEW ks \in SUBSET Knobs, NEW h \in Hosts, NEW c \in Draws(ks, h)
  PROVE  Fit(c, ks, h)
<1>1. PICK d : Ranged(d, ks, h) /\ DOMAIN d = ks /\ c = Repaired(d, ks, h)
  BY DrawsAre
<1>2. SteadyKnobs \subseteq Numbers /\ "max_worker_processes" \in Numbers
  BY NumbersAre DEF SteadyKnobs
<1> QED BY <1>1, <1>2, RepairedFits DEF Ranged, PoolRanged

LEMMA PerturbationsFit ==
  ASSUME NEW c, Typed(c), Steady(c), NEW V, NEW h \in Hosts, Pooled(c, h),
         NEW fs \in SUBSET Nat, NEW e \in Perturbations(c, V, h, fs)
  PROVE  Fit(e, V, h)
<1>1. PICK d : /\ Ranged(d, V, h) /\ DOMAIN d = DOMAIN c
               /\ \A k \in DOMAIN c \ V : d[k] = c[k]
               /\ e = Repaired(d, V, h)
  BY PerturbationsAre
<1>2. SteadyKnobs \subseteq Numbers /\ "max_worker_processes" \in Numbers
  BY NumbersAre DEF SteadyKnobs
<1>3. \A k \in SteadyKnobs \cap DOMAIN d : InRange(k, d[k], h)
  BY <1>1, <1>2, SteadyIs DEF Ranged
<1>4. "max_worker_processes" \in DOMAIN d =>
        Pooled(d, h) \/ InRange("max_worker_processes", d["max_worker_processes"], h)
  BY <1>1, <1>2 DEF Ranged, Pooled
<1>5. PoolRanged(d, V, h)
  BY <1>1, <1>2 DEF Ranged, PoolRanged
<1> QED BY <1>1, <1>3, <1>4, <1>5, RepairedFits DEF Ranged

LEMMA WarmStartsFit ==
  ASSUME NEW s, NEW c, NEW cs, NEW g, SavedAs(s, c, cs, g), Steady(c), NEW ks \in SUBSET Knobs,
         NEW h \in Served, NEW e \in WarmStarts(s, ks, h)
  PROVE  Fit(e, ks, h)
<1>0. h \in Hosts /\ Typed(c)
  BY DEF Served, SavedAs
<1>1. PICK d : /\ Typed(d) /\ DOMAIN d = ks /\ e = Repaired(d, ks, h)
               /\ \A k \in ks : IF k \in DOMAIN c /\ ~Relative(k) THEN d[k] = c[k]
                                ELSE k \in Numbers => InRange(k, d[k], h)
  BY WarmStartsAre
<1>2. SteadyKnobs \subseteq Numbers /\ "max_worker_processes" \in Numbers
      /\ Relative("max_worker_processes")
  BY NumbersAre DEF SteadyKnobs, Relative
<1>3. \A k \in SteadyKnobs \cap DOMAIN d : InRange(k, d[k], h)
  BY <1>0, <1>1, <1>2, SteadyIs
<1>4. "max_worker_processes" \in DOMAIN d =>
        InRange("max_worker_processes", d["max_worker_processes"], h)
  BY <1>1, <1>2
<1>5. PoolRanged(d, ks, h)
  BY <1>4 DEF PoolRanged
<1> QED BY <1>0, <1>1, <1>3, <1>4, <1>5, RepairedFits

LEMMA SuggestionsFit ==
  ASSUME NEW ks \in SUBSET Knobs, NEW h \in Served, NEW s \in Suggestions(ks, h)
  PROVE  Fit(Repaired(Decoded(s, ks, h), ks, h), ks, h)
<1> DEFINE d == Decoded(s, ks, h)
<1>0. h \in Hosts
  BY DEF Served
<1>1. DOMAIN d = ks /\ Ranged(d, ks, h)
  BY DecodedAre
<1> HIDE DEF d
<1>2. SteadyKnobs \subseteq Numbers /\ "max_worker_processes" \in Numbers
  BY NumbersAre DEF SteadyKnobs
<1>3. Fit(Repaired(d, ks, h), ks, h)
  BY <1>0, <1>1, <1>2, RepairedFits DEF Ranged, PoolRanged
<1> QED BY <1>3 DEF d

LEMMA DefaultFits ==
  ASSUME NEW ks \in SUBSET Knobs, NEW h \in Hosts, h.cpu <= 34
  PROVE  Steady(DefaultConfig(ks)) /\ Pooled(DefaultConfig(ks), h)
<1>1. /\ Default["max_connections"] = 100 /\ Default["reserved_connections"] = 0
      /\ Default["superuser_reserved_connections"] = 3 /\ Default["max_wal_size"] = 1024
      /\ Default["max_worker_processes"] = 8
  BY DEF Default
<1>2. Floor(h) <= 8
  BY PoolFloors
<1> QED BY <1>1, <1>2 DEF Steady, Within, Pooled, DefaultConfig

\* The invariant: the configuration is one that the repair can make applicable.
FitInv ==
    /\ KnobInv
    /\ Steady(knob_config) /\ Pooled(knob_config, host)
    /\ origin = "repaired" => Fit(knob_config, view, host)
    /\ saved # Nothing => Steady(saved.config)

LEMMA FitInit ==
  ASSUME \A s \in Sessions : ResourcesOf(s).cpu <= 34, KnobInit
  PROVE  FitInv
<1>1. KnobInv
  BY KnobInitInv
<1>2. host \in Hosts /\ tier \in SUBSET Knobs /\ view \in SUBSET tier /\ host.cpu <= 34
  BY PlacesAre DEF KnobInit, Served
<1>3. CASE origin = "default"
  BY <1>1, <1>2, <1>3, DefaultFits DEF KnobInit, FitInv
<1>4. CASE origin = "repaired"
  <2>1. Fit(knob_config, tier, host)
    BY <1>2, <1>4, DrawsFit DEF KnobInit
  <2>2. Fit(knob_config, view, host)
    BY <1>2, <2>1 DEF Fit
  <2> QED BY <1>1, <2>2 DEF KnobInit, FitInv, Fit
<1> QED BY <1>3, <1>4 DEF KnobInit

LEMMA FitNext ==
  ASSUME FitInv, [KnobNext]_knobVars
  PROVE  FitInv'
<1> USE DEF FitInv
<1>0. KnobInv'
  BY KnobNextInv
<1>1. /\ host \in Served /\ host \in Hosts /\ view \in SUBSET Knobs
      /\ Typed(knob_config)
  BY PlacesAre DEF KnobInv, Served
<1>2. ASSUME Explore PROVE FitInv'
  <2>1. Factors \in SUBSET Nat
    BY KnobSpaceAssumption
  <2>2. Fit(knob_config', view, host)
    BY <1>1, <1>2, <2>1, PerturbationsFit DEF Explore
  <2> QED BY <1>0, <1>2, <2>2 DEF Explore, place, Fit
<1>3. ASSUME Redraw PROVE FitInv'
  <2>1. {50, 150} \in SUBSET Nat
    OBVIOUS
  <2>4. Fit(knob_config', view, host)
    <3>1. CASE knob_config' \in Draws(view, host)
      BY <1>1, <3>1, DrawsFit
    <3>2. CASE knob_config' \in Perturbations(knob_config, view, host, {50, 150})
      BY <1>1, <2>1, <3>2, PerturbationsFit
    <3> QED BY <1>3, <3>1, <3>2 DEF Redraw
  <2> QED BY <1>0, <1>3, <2>4 DEF Redraw, place, Fit
<1>4. ASSUME SaveBest PROVE FitInv'
  BY <1>0, <1>4 DEF SaveBest, place
<1>5. ASSUME WarmStart PROVE FitInv'
  <2>1. /\ SavedAs(saved.knobs, saved.config, saved.tier, saved.host)
        /\ Steady(saved.config)
    BY <1>5 DEF WarmStart, Running, KnobInv, SavedInv
  <2>2. PICK s \in Sessions, ks \in Tiers :
          /\ session' = s /\ host' = ResourcesOf(s) /\ tier' = ks /\ view' \in Views(ks)
          /\ knob_config' \in WarmStarts(saved.knobs, ks, host')
    BY <1>5 DEF WarmStart
  <2>3. host' \in Served /\ ks \in SUBSET Knobs /\ view' \in SUBSET ks
    BY <2>2, PlacesAre
  <2>4. Fit(knob_config', ks, host')
    BY <2>1, <2>2, <2>3, WarmStartsFit
  <2>5. Fit(knob_config', view', host')
    BY <2>3, <2>4 DEF Fit
  <2> QED BY <1>0, <1>5, <2>5 DEF WarmStart, Fit
<1>6. ASSUME Trial PROVE FitInv'
  <2>1. Fit(knob_config', view, host)
    BY <1>1, <1>6, SuggestionsFit DEF Trial
  <2> QED BY <1>0, <1>6, <2>1 DEF Trial, place, Fit
<1>7. ASSUME UNCHANGED knobVars PROVE FitInv'
  BY <1>0, <1>7 DEF knobVars, place
<1> QED BY <1>2, <1>3, <1>4, <1>5, <1>6, <1>7 DEF KnobNext, Finished

\* With workers of at most 34 cores PostgreSQL can start with whatever
\* validate_and_repair returns.  With more, its default max_worker_processes,
\* which ONLINE tuning leaves alone, is below the least max_parallel_workers,
\* and the clamp undoes the rule.
THEOREM RepairsApply ==
  ASSUME \A s \in Sessions : ResourcesOf(s).cpu <= 34
  PROVE  KnobSpec => []RepairedIsApplicable
<1>1. KnobInit => FitInv
  BY FitInit
<1>2. FitInv => RepairedIsApplicable
  <2> SUFFICES ASSUME FitInv, origin = "repaired"
               PROVE  /\ Applicable(knob_config)
                      /\ \A k \in view \cap DOMAIN knob_config :
                            Numeric(k) => InRange(k, knob_config[k], host)
    BY DEF RepairedIsApplicable
  <2> QED BY DEF FitInv, Fit, KnobInv, Typed, Numbers
<1> QED BY <1>1, <1>2, FitNext, PTL DEF KnobSpec
-----------------------------------------------------------------------------
(* The memory a repaired configuration claims                              *)

\* Shares scaled to the budget, each rounded or held by the least of its range,
\* stay within the memory: the least values are 15 and 1 percent of it.
LEMMA SharesFit ==
  ASSUME NEW R \in Nat, R >= 4000, NEW B \in Nat, 5 * B <= 4 * R,
         NEW S \in Nat, NEW P \in Nat, NEW M \in Nat, NEW T \in Nat \ {0}, T = S + P + M,
         NEW s \in Nat, NEW p \in Nat, NEW m \in Nat,
         20 * (T * s) <= 20 * (S * B) + 3 * (R * T) + 10 * T,
         100 * (T * m) <= 100 * (M * B) + R * T + 50 * T,
         40 * (T * p) <= 40 * (P * B) + R * T
  PROVE  s + p + m <= R
<1>1. T * B = S * B + P * B + M * B
  OBVIOUS
<1>2. T * (s + p + m) = T * s + T * p + T * m
  OBVIOUS
<1>3. 5 * (T * B) <= 4 * (R * T)
  OBVIOUS
<1>4. 4000 * T <= R * T
  OBVIOUS
<1>5. /\ T * s \in Nat /\ T * p \in Nat /\ T * m \in Nat /\ T * B \in Nat /\ R * T \in Nat
      /\ S * B \in Nat /\ P * B \in Nat /\ M * B \in Nat /\ T * (s + p + m) \in Nat
  OBVIOUS
<1>6. 200 * (T * (s + p + m)) <= 200 * (T * B) + 37 * (R * T) + 200 * T
  BY <1>1, <1>2, <1>5
<1>7. T * (s + p + m) <= R * T
  BY <1>3, <1>4, <1>5, <1>6
<1>8. T * (s + p + m) <= T * R
  BY <1>7
<1> DEFINE sum == s + p + m
<1>9. sum \in Nat /\ T * sum <= T * R
  BY <1>8
<1> HIDE DEF sum
<1>10. sum <= R
  <2> SUFFICES ASSUME sum >= R + 1 PROVE FALSE
    BY <1>9
  <2>1. T * sum >= T * (R + 1) /\ T * (R + 1) = T * R + T
    BY <1>9
  <2> QED BY <1>9, <2>1
<1> QED BY <1>10 DEF sum

LEMMA ScaledDown ==
  ASSUME NEW k \in Numbers, GridOf(k) = 1, NEW h \in Hosts, NEW n \in Nat, NEW d \in Nat \ {0}
  PROVE  \/ Normalize(k, n, d, h) <= RangeOn(k, h)[1]
         \/ 2 * (d * Normalize(k, n, d, h)) <= 2 * n + d
<1> DEFINE v == Normalize(k, n, d, h)
           q == Rounded(n, d)
<1>1. v \in Nat /\ q \in Int
  BY NormalizeInRange, RoundedInt
<1>2. v <= RangeOn(k, h)[1] \/ v <= q
  BY NormalizeAtMost
<1>3. 2 * d * q - 2 * n <= d
  BY RoundedNear
<1> HIDE DEF v, q
<1>4. v <= q => 2 * (d * v) <= 2 * n + d
  <2> SUFFICES ASSUME v <= q PROVE 2 * (d * v) <= 2 * n + d
    OBVIOUS
  <2>1. d * v <= d * q
    BY <1>1
  <2>2. 2 * d * q = 2 * (d * q) /\ d * q \in Int /\ d * v \in Int
    BY <1>1
  <2> QED BY <1>3, <2>1, <2>2
<1> QED BY <1>2, <1>4 DEF v

\* What one memory knob is scaled to.
LEMMA ShareOf ==
  ASSUME NEW k \in Numbers, GridOf(k) = 1, NEW h \in Hosts, NEW v \in Nat, NEW B \in Nat,
         NEW T \in Nat \ {0}
  PROVE  LET w == Normalize(k, v * B, T, h)
         IN  /\ w \in Nat /\ w <= RangeOn(k, h)[2]
             /\ w <= RangeOn(k, h)[1] \/ 2 * (T * w) <= 2 * (v * B) + T
             /\ (B <= T /\ RangeOn(k, h)[1] <= v) => w <= v
<1> DEFINE w == Normalize(k, v * B, T, h)
<1>1. v * B \in Nat /\ v * B \in Int
  OBVIOUS
<1>2. w \in Nat /\ InRange(k, w, h)
  BY <1>1, NormalizeInRange
<1>3. w <= RangeOn(k, h)[1] \/ 2 * (T * w) <= 2 * (v * B) + T
  BY <1>1, ScaledDown
<1>4. w <= RangeOn(k, h)[1] \/ w <= Rounded(v * B, T)
  BY <1>1, NormalizeAtMost
<1>5. RangeOn(k, h)[1] \in Nat
  BY RangeType
<1> HIDE DEF w
<1>6. (B <= T /\ RangeOn(k, h)[1] <= v) => w <= v
  <2> SUFFICES ASSUME B <= T, RangeOn(k, h)[1] <= v PROVE w <= v
    OBVIOUS
  <2>1. v * B <= v * T /\ v * T \in Int
    OBVIOUS
  <2>2. Rounded(v * B, T) <= Rounded(v * T, T)
    BY <1>1, <2>1, RoundedMonotone
  <2>3. Rounded(v * T, T) = v
    BY RoundedOfMultiple
  <2>4. Rounded(v * B, T) \in Int
    BY <1>1, RoundedInt
  <2> QED BY <1>2, <1>4, <1>5, <2>2, <2>3, <2>4
<1> QED BY <1>2, <1>3, <1>6 DEF w, InRange

LEMMA BuffersShare ==
  ASSUME NEW h \in Hosts, NEW v \in Nat, NEW B \in Nat, NEW T \in Nat \ {0}
  PROVE  LET s == Normalize("shared_buffers", v * B, T, h)
         IN  /\ s \in Nat /\ 5 * s <= 2 * h.ram
             /\ 20 * (T * s) <= 20 * (v * B) + 3 * (h.ram * T) + 10 * T
<1> DEFINE R == h.ram
           lo == RangeOn("shared_buffers", h)[1]
           s == Normalize("shared_buffers", v * B, T, h)
<1>1. R \in Nat /\ "shared_buffers" \in Numbers /\ GridOf("shared_buffers") = 1
  BY NumbersAre DEF Hosts, GridOf
<1>2. lo = (R * 150) \div 1000 /\ RangeOn("shared_buffers", h)[2] = (R * 400) \div 1000
  BY RamRanges
<1>3. /\ s \in Nat /\ s <= RangeOn("shared_buffers", h)[2]
      /\ s <= lo \/ 2 * (T * s) <= 2 * (v * B) + T
  BY <1>1, ShareOf
<1> HIDE DEF lo, s, R
<1>4. lo \in Nat /\ 20 * lo <= 3 * R
  BY <1>1, <1>2
<1>5. 5 * s <= 2 * R
  BY <1>1, <1>2, <1>3
<1>6. T * s \in Nat /\ v * B \in Nat /\ R * T \in Nat
  BY <1>1, <1>3
<1>7. s <= lo => 20 * (T * s) <= 3 * (R * T)
  <2> SUFFICES ASSUME s <= lo PROVE 20 * (T * s) <= 3 * (R * T)
    OBVIOUS
  <2>1. 20 * s <= 3 * R
    BY <1>1, <1>3, <1>4
  <2>2. T * (20 * s) <= T * (3 * R)
    BY <1>1, <1>3, <2>1
  <2> QED BY <1>1, <1>3, <2>2
<1> QED BY <1>3, <1>5, <1>6, <1>7 DEF s, R

LEMMA MaintenanceShare ==
  ASSUME NEW h \in Hosts, NEW v \in Nat, NEW B \in Nat, NEW T \in Nat \ {0}
  PROVE  LET m == Normalize("maintenance_work_mem", v * B, T, h)
         IN  /\ m \in Nat /\ 20 * m <= h.ram
             /\ 100 * (T * m) <= 100 * (v * B) + h.ram * T + 50 * T
<1> DEFINE R == h.ram
           lo == RangeOn("maintenance_work_mem", h)[1]
           m == Normalize("maintenance_work_mem", v * B, T, h)
<1>1. R \in Nat /\ "maintenance_work_mem" \in Numbers /\ GridOf("maintenance_work_mem") = 1
  BY NumbersAre DEF Hosts, GridOf
<1>2. lo = (R * 10) \div 1000 /\ RangeOn("maintenance_work_mem", h)[2] = (R * 50) \div 1000
  BY RamRanges
<1>3. /\ m \in Nat /\ m <= RangeOn("maintenance_work_mem", h)[2]
      /\ m <= lo \/ 2 * (T * m) <= 2 * (v * B) + T
  BY <1>1, ShareOf
<1> HIDE DEF lo, m, R
<1>4. lo \in Nat /\ 100 * lo <= R
  BY <1>1, <1>2
<1>5. 20 * m <= R
  BY <1>1, <1>2, <1>3
<1>6. T * m \in Nat /\ v * B \in Nat /\ R * T \in Nat
  BY <1>1, <1>3
<1>7. m <= lo => 100 * (T * m) <= R * T
  <2> SUFFICES ASSUME m <= lo PROVE 100 * (T * m) <= R * T
    OBVIOUS
  <2>1. 100 * m <= R
    BY <1>1, <1>3, <1>4
  <2>2. T * (100 * m) <= T * R
    BY <1>1, <1>3, <2>1
  <2> QED BY <1>1, <1>3, <2>2
<1> QED BY <1>3, <1>5, <1>6, <1>7 DEF m, R

LEMMA WorkShare ==
  ASSUME NEW h \in Hosts, NEW v \in Nat, NEW B \in Nat, NEW T \in Nat \ {0}
  PROVE  LET w == Normalize("work_mem", v * B, T, h)
         IN  w \in Nat /\ (w <= RangeOn("work_mem", h)[1] \/ 2 * (T * w) <= 2 * (v * B) + T)
<1>1. "work_mem" \in Numbers /\ GridOf("work_mem") = 1
  BY NumbersAre DEF GridOf
<1> QED BY <1>1, ShareOf

\* The memory of all connections: at the least work_mem a fifth of the worker's,
\* otherwise its share, since scaling never adds a connection.
LEMMA ConnectionsShare ==
  ASSUME NEW h \in Served, NEW v \in Nat, NEW B \in Nat, NEW T \in Nat \ {0},
         NEW C \in Nat, C <= 200, NEW c \in Nat, c <= C
  PROVE  LET w == Normalize("work_mem", v * B, T, h)
         IN  /\ w \in Nat
             /\ \/ 5 * (c * w) <= h.ram
                \/ 40 * (T * (c * w)) <= 40 * ((C * v) * B) + h.ram * T
<1> DEFINE R == h.ram
           lo == RangeOn("work_mem", h)[1]
           w == Normalize("work_mem", v * B, T, h)
<1>1. R \in Nat /\ R >= 4000 /\ "work_mem" \in Numbers /\ GridOf("work_mem") = 1 /\ h \in Hosts
  BY NumbersAre DEF Served, Hosts, GridOf
<1>2. lo = (R * 1) \div 1000
  BY <1>1, RamRanges
<1>3. w \in Nat /\ (w <= lo \/ 2 * (T * w) <= 2 * (v * B) + T)
  BY <1>1, WorkShare
<1> HIDE DEF lo, w, R
<1>4. lo \in Nat /\ 1000 * lo <= R
  BY <1>1, <1>2
<1>5. w <= lo => 5 * (c * w) <= R
  <2> SUFFICES ASSUME w <= lo PROVE 5 * (c * w) <= R
    OBVIOUS
  <2>1. c * w <= 200 * w
    BY <1>3
  <2> QED BY <1>1, <1>3, <1>4, <2>1
<1>6. 2 * (T * w) <= 2 * (v * B) + T => 40 * (T * (c * w)) <= 40 * ((C * v) * B) + R * T
  <2> SUFFICES ASSUME 2 * (T * w) <= 2 * (v * B) + T
               PROVE  40 * (T * (c * w)) <= 40 * ((C * v) * B) + R * T
    OBVIOUS
  <2> DEFINE Tw == T * w
             vB == v * B
  <2>1. Tw \in Nat /\ vB \in Nat /\ 2 * Tw <= 2 * vB + T
    BY <1>3
  <2>2. T * (c * w) = c * Tw /\ (C * v) * B = C * vB
    BY <1>3
  <2> HIDE DEF Tw, vB
  <2>3. c * Tw <= C * Tw /\ C * Tw \in Nat /\ c * Tw \in Nat /\ C * vB \in Nat
    BY <2>1
  <2>4. C * (2 * Tw) <= C * (2 * vB + T)
    BY <2>1
  <2>5. C * (2 * Tw) = 2 * (C * Tw) /\ C * (2 * vB + T) = 2 * (C * vB) + C * T
    BY <2>1
  <2>6. C * T <= 200 * T /\ 4000 * T <= R * T /\ C * T \in Nat /\ R * T \in Nat
    BY <1>1
  <2>7. 40 * (c * Tw) <= 40 * (C * vB) + 20 * (C * T)
    BY <2>3, <2>4, <2>5, <2>6
  <2>8. 40 * (c * Tw) <= 40 * (C * vB) + R * T
    BY <2>3, <2>6, <2>7
  <2> QED BY <2>2, <2>8
<1> QED BY <1>3, <1>5, <1>6 DEF w, R

LEMMA BudgetFits ==
  ASSUME NEW e, Typed(e), NEW V, NEW h \in Served,
         \A k \in V \cap DOMAIN e \cap Numbers : InRange(k, e[k], h),
         DOMAIN e \cap MemoryKnobs \subseteq V
  PROVE  Claimed(BudgetRepaired(e, V, h)) <= h.ram
<1> DEFINE R == h.ram
           B == Budget(h)
           T == Claimed(e)
           d == BudgetRepaired(e, V, h)
<1>1. R \in Nat /\ R >= 4000 /\ h \in Hosts
  BY DEF Served, Hosts
<1>2. B \in Nat /\ 5 * B <= 4 * R
  <2> HIDE DEF R
  <2>1. B = (R * 4) \div 5
    BY DEF Budget, R
  <2> HIDE DEF B
  <2> QED BY <1>1, <2>1
<1>3. T \in Nat
  BY ClaimedType
<1>4. CASE T <= B
  <2>1. d = e
    BY <1>4 DEF BudgetRepaired
  <2> HIDE DEF R, B, T, d
  <2>2. T <= R
    BY <1>1, <1>2, <1>3, <1>4
  <2> QED BY <2>1, <2>2 DEF R, T, d
<1>5. CASE ~(T <= B)
  <2>1. MemoryKnobs \subseteq Numbers /\ (\A k \in MemoryKnobs : GridOf(k) = 1)
    BY NumbersAre DEF MemoryKnobs, GridOf
  <2>2. ASSUME NEW k \in MemoryKnobs, k \in DOMAIN e
        PROVE  d[k] = Normalize(k, e[k] * B, T, h) /\ e[k] \in Nat /\ k \in V
               /\ InRange(k, e[k], h)
    <3>1. k \in V /\ k \in Numbers
      BY <2>1, <2>2
    <3>2. d = [j \in DOMAIN e |->
             IF j \in MemoryKnobs \cap V THEN Normalize(j, e[j] * B, T, h) ELSE e[j]]
      BY <1>5 DEF BudgetRepaired
    <3> HIDE DEF d, B, T
    <3> QED BY <2>2, <3>1, <3>2 DEF Typed
  <2>3. DOMAIN d = DOMAIN e
    BY <1>5 DEF BudgetRepaired
  <2> DEFINE S == Get(e, "shared_buffers", 0)
             W == Get(e, "work_mem", 0)
             M == Get(e, "maintenance_work_mem", 0)
             C == Get(e, "max_connections", 100)
             s == Get(d, "shared_buffers", 0)
             w == Get(d, "work_mem", 0)
             m == Get(d, "maintenance_work_mem", 0)
             c == Get(d, "max_connections", 100)
  <2>4. T = S + C * W + M /\ Claimed(d) = s + c * w + m
    BY DEF Claimed
  <2> HIDE DEF R, B, T, d
  <2>5. T \in Nat \ {0} /\ B < T
    BY <1>2, <1>3, <1>5
  <2>6. /\ S \in Nat /\ s \in Nat /\ 5 * s <= 2 * R
        /\ 20 * (T * s) <= 20 * (S * B) + 3 * (R * T) + 10 * T
    <3>1. CASE "shared_buffers" \in DOMAIN e
      <4>1. /\ S = e["shared_buffers"] /\ S \in Nat
            /\ s = Normalize("shared_buffers", S * B, T, h)
        BY <2>2, <2>3, <3>1 DEF Get, MemoryKnobs
      <4> HIDE DEF S, s
      <4> QED BY <1>1, <1>2, <2>5, <4>1, BuffersShare DEF R
    <3>2. CASE "shared_buffers" \notin DOMAIN e
      <4>1. S = 0 /\ s = 0
        BY <2>3, <3>2 DEF Get
      <4> HIDE DEF S, s
      <4>2. R * T \in Nat
        BY <1>1, <2>5
      <4> QED BY <1>1, <1>2, <2>5, <4>1, <4>2
    <3> QED BY <3>1, <3>2
  <2>7. /\ M \in Nat /\ m \in Nat /\ 20 * m <= R
        /\ 100 * (T * m) <= 100 * (M * B) + R * T + 50 * T
    <3>1. CASE "maintenance_work_mem" \in DOMAIN e
      <4>1. /\ M = e["maintenance_work_mem"] /\ M \in Nat
            /\ m = Normalize("maintenance_work_mem", M * B, T, h)
        BY <2>2, <2>3, <3>1 DEF Get, MemoryKnobs
      <4> HIDE DEF M, m
      <4> QED BY <1>1, <1>2, <2>5, <4>1, MaintenanceShare DEF R
    <3>2. CASE "maintenance_work_mem" \notin DOMAIN e
      <4>1. M = 0 /\ m = 0
        BY <2>3, <3>2 DEF Get
      <4> HIDE DEF M, m
      <4>2. R * T \in Nat
        BY <1>1, <2>5
      <4> QED BY <1>1, <1>2, <2>5, <4>1, <4>2
    <3> QED BY <3>1, <3>2
  <2>8. C \in 0..200 /\ c \in 0..C
    <3>1. CASE "max_connections" \in DOMAIN e
      <4>1. /\ C = e["max_connections"] /\ C \in Nat /\ InRange("max_connections", C, h)
            /\ c = Normalize("max_connections", C * B, T, h)
        BY <2>2, <2>3, <3>1 DEF Get, MemoryKnobs
      <4> HIDE DEF C, c
      <4>2. RangeOn("max_connections", h) = <<50, 200>>
        BY <1>1, FixedRanges
      <4>3. 50 <= C /\ C <= 200
        BY <4>1, <4>2 DEF InRange
      <4>4. /\ "max_connections" \in Numbers /\ GridOf("max_connections") = 1
            /\ B <= T /\ RangeOn("max_connections", h)[1] <= C
        BY <1>2, <2>1, <2>5, <4>2, <4>3 DEF MemoryKnobs
      <4>5. c \in Nat /\ c <= C
        BY <1>1, <1>2, <2>5, <4>1, <4>4, ShareOf
      <4> QED BY <4>1, <4>3, <4>5
    <3>2. CASE "max_connections" \notin DOMAIN e
      BY <2>3, <3>2 DEF Get
    <3> QED BY <3>1, <3>2
  <2>9. /\ W \in Nat /\ w \in Nat
        /\ \/ 5 * (c * w) <= R
           \/ 40 * (T * (c * w)) <= 40 * ((C * W) * B) + R * T
    <3>1. CASE "work_mem" \in DOMAIN e
      <4>1. /\ W = e["work_mem"] /\ W \in Nat
            /\ w = Normalize("work_mem", W * B, T, h)
        BY <2>2, <2>3, <3>1 DEF Get, MemoryKnobs
      <4> HIDE DEF W, w, C, c
      <4>2. C \in Nat /\ C <= 200 /\ c \in Nat /\ c <= C
        BY <2>8
      <4>3. \/ 5 * (c * Normalize("work_mem", W * B, T, h)) <= h.ram
            \/ 40 * (T * (c * Normalize("work_mem", W * B, T, h)))
                  <= 40 * ((C * W) * B) + h.ram * T
        BY <1>2, <2>5, <4>1, <4>2, ConnectionsShare
      <4>4. w \in Nat
        BY <1>1, <1>2, <2>5, <4>1, WorkShare
      <4> QED BY <4>1, <4>3, <4>4 DEF R
    <3>2. CASE "work_mem" \notin DOMAIN e
      <4>1. W = 0 /\ w = 0
        BY <2>3, <3>2 DEF Get
      <4> HIDE DEF W, w, C, c
      <4> QED BY <1>1, <2>8, <4>1
    <3> QED BY <3>1, <3>2
  <2> HIDE DEF S, W, M, C, s, w, m, c
  <2> DEFINE P == C * W
             p == c * w
  <2>10. P \in Nat /\ p \in Nat /\ T = S + P + M
    BY <2>4, <2>6, <2>7, <2>8, <2>9
  <2>11. 5 * p <= R \/ 40 * (T * p) <= 40 * (P * B) + R * T
    BY <2>9
  <2> HIDE DEF P, p
  <2>12. s + p + m <= R
    <3>1. CASE 5 * p <= R
      BY <1>1, <2>6, <2>7, <2>10, <3>1
    <3>2. CASE 40 * (T * p) <= 40 * (P * B) + R * T
      BY <1>1, <1>2, <2>5, <2>6, <2>7, <2>10, <3>2, SharesFit
    <3> QED BY <2>11, <3>1, <3>2
  <2>13. Claimed(d) = s + p + m
    BY <2>4 DEF p
  <2> QED BY <2>12, <2>13 DEF R, d
<1> QED BY <1>4, <1>5

LEMMA RepairedClaims ==
  ASSUME NEW c, Typed(c), NEW V, NEW h \in Served, DOMAIN c \subseteq V \cup WalKnobs
  PROVE  Claimed(Repaired(c, V, h)) <= h.ram
<1> DEFINE d == Rules(c)
           e == Normalized(d, V, h)
<1>0. h \in Hosts
  BY DEF Served
<1>1. Typed(d) /\ DOMAIN d \subseteq DOMAIN c \cup WalKnobs
  BY RulesAre
<1> HIDE DEF d
<1>2. /\ Typed(e) /\ DOMAIN e = DOMAIN d
      /\ \A k \in V \cap DOMAIN d \cap Numbers : InRange(k, e[k], h)
  BY <1>0, <1>1, NormalizedIs
<1>3. Repaired(c, V, h) = BudgetRepaired(e, V, h)
  BY RepairedFactors DEF d
<1> HIDE DEF e
<1>4. DOMAIN e \cap MemoryKnobs \subseteq V
  BY <1>1, <1>2 DEF MemoryKnobs, WalKnobs
<1> QED BY <1>2, <1>3, <1>4, BudgetFits

LEMMA PerturbationClaims ==
  ASSUME NEW c, Typed(c), NEW V, NEW h \in Served, DOMAIN c \subseteq V \cup WalKnobs,
         NEW fs \in SUBSET Nat, NEW e \in Perturbations(c, V, h, fs)
  PROVE  Claimed(e) <= h.ram
<1>1. h \in Hosts
  BY DEF Served
<1>2. PICK d : Ranged(d, V, h) /\ DOMAIN d = DOMAIN c /\ e = Repaired(d, V, h)
  BY <1>1, PerturbationsAre
<1> QED BY <1>2, RepairedClaims DEF Ranged

\* The invariant: what explores the whole tier stays within the memory.
ClaimInv == KnobInv /\ MemoryFits

LEMMA ClaimInit == KnobInit => ClaimInv
<1> SUFFICES ASSUME KnobInit PROVE ClaimInv
  OBVIOUS
<1>1. KnobInv
  BY KnobInitInv
<1>2. host \in Served /\ tier \in SUBSET Knobs /\ host \in Hosts
  BY PlacesAre DEF KnobInit, Served
<1>3. ASSUME origin = "repaired" PROVE Claimed(knob_config) <= host.ram
  <2>1. PICK d : Ranged(d, tier, host) /\ DOMAIN d = tier /\ knob_config = Repaired(d, tier, host)
    BY <1>2, <1>3, DrawsAre DEF KnobInit
  <2> QED BY <1>2, <2>1, RepairedClaims DEF Ranged
<1> QED BY <1>1, <1>3 DEF ClaimInv, MemoryFits

LEMMA ClaimNext ==
  ASSUME ClaimInv, [KnobNext]_knobVars
  PROVE  ClaimInv'
<1> USE DEF ClaimInv
<1>0. KnobInv'
  BY KnobNextInv
<1>1. /\ host \in Served /\ host \in Hosts /\ view \in SUBSET Knobs
      /\ Typed(knob_config) /\ DOMAIN knob_config \subseteq tier \cup WalKnobs
  BY PlacesAre DEF KnobInv, Served
<1>2. ASSUME view = tier, NEW fs \in SUBSET Nat,
             NEW c \in Perturbations(knob_config, view, host, fs)
      PROVE  Claimed(c) <= host.ram
  <2>1. DOMAIN knob_config \subseteq view \cup WalKnobs
    BY <1>1, <1>2
  <2> QED BY <1>1, <1>2, <2>1, PerturbationClaims
<1>3. ASSUME Explore PROVE ClaimInv'
  <2>1. Factors \in SUBSET Nat
    BY KnobSpaceAssumption
  <2> QED BY <1>0, <1>2, <1>3, <2>1 DEF Explore, place, MemoryFits
<1>4. ASSUME Redraw PROVE ClaimInv'
  <2>1. {50, 150} \in SUBSET Nat
    OBVIOUS
  <2>2. ASSUME view = tier PROVE Claimed(knob_config') <= host.ram
    <3>1. CASE knob_config' \in Draws(view, host)
      <4>1. PICK d : /\ Ranged(d, view, host) /\ DOMAIN d = view
                     /\ knob_config' = Repaired(d, view, host)
        BY <1>1, <3>1, DrawsAre
      <4> QED BY <1>1, <4>1, RepairedClaims DEF Ranged
    <3>2. CASE knob_config' \in Perturbations(knob_config, view, host, {50, 150})
      BY <1>2, <2>1, <2>2, <3>2
    <3> QED BY <1>4, <3>1, <3>2 DEF Redraw
  <2> QED BY <1>0, <1>4, <2>2 DEF Redraw, place, MemoryFits
<1>5. ASSUME SaveBest PROVE ClaimInv'
  BY <1>0, <1>5 DEF SaveBest, place, MemoryFits
<1>6. ASSUME WarmStart PROVE ClaimInv'
  <2>1. SavedAs(saved.knobs, saved.config, saved.tier, saved.host)
    BY <1>6 DEF WarmStart, Running, KnobInv, SavedInv
  <2>2. PICK s \in Sessions, ks \in Tiers :
          /\ session' = s /\ host' = ResourcesOf(s) /\ tier' = ks /\ view' \in Views(ks)
          /\ knob_config' \in WarmStarts(saved.knobs, ks, host')
    BY <1>6 DEF WarmStart
  <2>3. host' \in Served /\ ks \in SUBSET Knobs
    BY <2>2, PlacesAre
  <2>4. PICK d : Typed(d) /\ DOMAIN d = ks /\ knob_config' = Repaired(d, ks, host')
    BY <2>1, <2>2, <2>3, WarmStartsAre
  <2>5. Claimed(knob_config') <= host'.ram
    BY <2>3, <2>4, RepairedClaims
  <2> QED BY <1>0, <2>5 DEF MemoryFits
<1>7. ASSUME Trial PROVE ClaimInv'
  <2>1. PICK s \in Suggestions(view, host) :
          knob_config' = Repaired(Decoded(s, view, host), view, host)
    BY <1>7 DEF Trial
  <2>2. Typed(Decoded(s, view, host)) /\ DOMAIN Decoded(s, view, host) = view
    BY <1>1, DecodedAre DEF Ranged
  <2>3. Claimed(knob_config') <= host.ram
    BY <1>1, <2>1, <2>2, RepairedClaims
  <2> QED BY <1>0, <1>7, <2>3 DEF Trial, place, MemoryFits
<1>8. ASSUME UNCHANGED knobVars PROVE ClaimInv'
  BY <1>0, <1>8 DEF knobVars, place, MemoryFits
<1> QED BY <1>3, <1>4, <1>5, <1>6, <1>7, <1>8 DEF KnobNext, Finished

\* The workers together do not take more than the machine has, and exploring a
\* whole tier no configuration claims more memory than its worker has, although
\* the clamps may leave it above the budget of the repair.
THEOREM ClaimsFit == KnobSpec => []NothingOvercommitted
<1>1. ClaimInv => NothingOvercommitted
  <2> SUFFICES ASSUME ClaimInv PROVE WorkersFit /\ MemoryFits
    BY DEF NothingOvercommitted
  <2> QED BY ResourcesType DEF ClaimInv, KnobInv, WorkersFit
<1> QED BY <1>1, ClaimInit, ClaimNext, PTL DEF KnobSpec
=============================================================================
