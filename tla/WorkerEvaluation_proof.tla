----------------------- MODULE WorkerEvaluation_proof -----------------------
(***************************************************************************)
(* Proofs about WorkerEvaluation, for every PopulationSize, MaxWorkers and *)
(* Modes.                                                                  *)
(***************************************************************************)
EXTENDS WorkerEvaluation, TLAPS

(***************************************************************************)
(* Type correctness.  TypeOK is not inductive alone: the barrier a drain   *)
(* starts from is a barrier only because last_completed_barrier never runs *)
(* ahead of the sub-step.                                                  *)
(***************************************************************************)
LastOfStep(b) == IF b = measurement_done /\ ~mode.manages_own_connection
                 THEN benchmark_ready ELSE b - 1
LastFollows ==
    \A w \in Workers : pc[w] \in {"work", "wait"} => last[w] = LastOfStep(at[w])
DrainHasOwner ==
    \A w \in Workers : pc[w] \in {"drain", "drainwait"} => drainer[w] # "none"

TypeInv == TypeOK /\ LastFollows /\ DrainHasOwner

LEMMA BatchType == \A w \in Workers : Batch(w) \in Nat
  BY SizesAssumption DEF Workers, Batch

LEMMA ModeType ==
  ASSUME mode \in Modes
  PROVE  /\ mode.strategy \in Strategies
         /\ mode.manages_own_connection \in BOOLEAN
         /\ mode.synchronize \in BOOLEAN
         /\ mode.faults \subseteq 0..16
  BY ModesAssumption DEF MissingConfig

USE DEF Barriers, connected, config_applied, restarted, reconnected,
        config_verified, pre_stats_captured, benchmark_ready, warmup_done,
        measurement_done, post_stats_captured, io_computed,
        system_metrics_collected, memory_pressure_computed, reliability_gated,
        vacuum_done, score_computed, disconnected, NoBarrier, MissingConfig

LEMMA InitTypeInv == Init => TypeInv
<1> SUFFICES ASSUME Init PROVE TypeInv
  OBVIOUS
<1> USE DEF Init
<1>1. arrivals \in [Workers -> [Barriers -> Nat]] /\ broken \in BOOLEAN
  BY DEF BarrierInit
<1>2. pc \in [Workers -> Places] /\ at \in [Workers -> Barriers]
  BY DEF Places
<1>3. /\ last \in [Workers -> NoBarrier..disconnected]
      /\ drainer \in [Workers -> Drainers] /\ result \in [Workers -> Results]
  BY DEF Drainers, Results
<1>4. /\ mode \in Modes /\ batch \in Nat /\ collected \subseteq Workers
      /\ main \in {"collecting", "raising", "evaluated", "failed"}
  OBVIOUS
<1>5. LastFollows /\ DrainHasOwner
  BY DEF LastFollows, DrainHasOwner
<1> QED BY <1>1, <1>2, <1>3, <1>4, <1>5 DEF TypeInv, TypeOK

\* The wait of a sub-step is over.
LEMMA AdvanceType ==
  ASSUME TypeInv, NEW w \in Workers, pc[w] \in {"work", "wait"}, Advance(w),
         UNCHANGED mode
  PROVE  /\ pc' \in [Workers -> Places] /\ at' \in [Workers -> Barriers]
         /\ last' \in [Workers -> NoBarrier..disconnected]
         /\ drainer' \in [Workers -> Drainers] /\ result' \in [Workers -> Results]
         /\ LastFollows' /\ DrainHasOwner'
<1> USE DEF TypeInv, TypeOK
<1>1. pc' \in [Workers -> Places] /\ at' \in [Workers -> Barriers]
  BY DEF Advance, Places
<1>2. last' \in [Workers -> NoBarrier..disconnected]
  BY DEF Advance
<1>3. drainer' \in [Workers -> Drainers] /\ result' \in [Workers -> Results]
  BY DEF Advance, Results
<1>4. LastFollows'
  BY ModeType DEF Advance, LastFollows, LastOfStep
<1>5. DrainHasOwner'
  BY DEF Advance, DrainHasOwner
<1> QED BY <1>1, <1>2, <1>3, <1>4, <1>5

\* A drain is over, or skipped because the set is disabled or broken.
LEMMA LeaveDrainType ==
  ASSUME TypeInv, NEW w \in Workers, NEW who \in {"inner", "outer", "tuner"},
         LeaveDrain(w, who), UNCHANGED mode,
         \A v \in Workers \ {w} : last'[v] = last[v]
  PROVE  /\ pc' \in [Workers -> Places] /\ at' \in [Workers -> Barriers]
         /\ drainer' \in [Workers -> Drainers]
         /\ LastFollows' /\ DrainHasOwner'
<1> USE DEF TypeInv, TypeOK, LeaveDrain, AfterDrain
<1>1. pc' \in [Workers -> Places] /\ pc'[w] \in {"returned", "raised", "drained"}
  BY DEF Places
<1>2. at' \in [Workers -> Barriers] /\ drainer' \in [Workers -> Drainers]
  BY DEF Drainers
<1>3. LastFollows'
  BY <1>1 DEF LastFollows, LastOfStep
<1>4. DrainHasOwner'
  BY <1>1 DEF DrainHasOwner
<1> QED BY <1>1, <1>2, <1>3, <1>4

\* A drain starts.
LEMMA StartDrainType ==
  ASSUME TypeInv, NEW w \in Workers, NEW b \in Barriers,
         NEW who \in {"inner", "outer", "tuner"}, StartDrain(w, b, who),
         UNCHANGED mode, \A v \in Workers \ {w} : last'[v] = last[v]
  PROVE  /\ pc' \in [Workers -> Places] /\ at' \in [Workers -> Barriers]
         /\ drainer' \in [Workers -> Drainers]
         /\ LastFollows' /\ DrainHasOwner'
<1>1. CASE ~Synchronizing
  BY <1>1, LeaveDrainType DEF StartDrain
<1>2. CASE Synchronizing
  <2> USE <1>2 DEF TypeInv, TypeOK, StartDrain
  <2>1. /\ pc' \in [Workers -> Places] /\ pc'[w] = "drain"
        /\ at' \in [Workers -> Barriers] /\ drainer' \in [Workers -> Drainers]
    BY DEF Places, Drainers
  <2>2. LastFollows'
    BY <2>1 DEF LastFollows, LastOfStep
  <2>3. DrainHasOwner'
    BY DEF DrainHasOwner
  <2> QED BY <2>1, <2>2, <2>3
<1> QED BY <1>1, <1>2

\* The drain of a failed sub-step starts at a barrier.
LEMMA DrainFromType ==
  ASSUME TypeInv, NEW w \in Workers, pc[w] = "work"
  PROVE  DrainFrom(w) \in Barriers
  BY ModeType DEF TypeInv, TypeOK, LastFollows, LastOfStep, DrainFrom, next_barrier_name

LEMMA FailureTypeInv ==
  ASSUME TypeInv, NEW w \in Workers, InnerFailure(w) \/ OuterFailure(w)
  PROVE  TypeInv'
<1>1. DrainFrom(w) \in Barriers
  BY DrainFromType DEF InnerFailure, OuterFailure
<1>2. /\ last' \in [Workers -> NoBarrier..disconnected]
      /\ result' \in [Workers -> Results] /\ UNCHANGED mode
      /\ \A v \in Workers \ {w} : last'[v] = last[v]
  BY DEF InnerFailure, OuterFailure, TypeInv, TypeOK, Results
<1>3. PICK who \in {"inner", "outer"} : StartDrain(w, DrainFrom(w), who)
  BY DEF InnerFailure, OuterFailure
<1>4. /\ pc' \in [Workers -> Places] /\ at' \in [Workers -> Barriers]
      /\ drainer' \in [Workers -> Drainers]
      /\ LastFollows' /\ DrainHasOwner'
  BY <1>1, <1>2, <1>3, StartDrainType
<1>5. UNCHANGED <<barrierVars, mainVars>>
  BY DEF InnerFailure, OuterFailure
<1> QED BY <1>2, <1>4, <1>5 DEF TypeInv, TypeOK, barrierVars, mainVars

LEMMA DrainTypeInv ==
  ASSUME TypeInv, NEW w \in Workers, DrainArrive(w) \/ DrainPass(w)
  PROVE  TypeInv'
<1> USE DEF TypeInv, TypeOK
<1>1. /\ UNCHANGED <<mode, last, result, batch, collected, main, broken>>
      /\ drainer[w] \in {"inner", "outer", "tuner"}
  BY DEF DrainArrive, DrainPass, DrainHasOwner, Drainers, barrierVars, mainVars
<1>2. arrivals' \in [Workers -> [Barriers -> Nat]]
  BY DEF DrainArrive, DrainPass, Arrive, barrierVars
<1>3. CASE LeaveDrain(w, drainer[w])
  BY <1>1, <1>2, <1>3, LeaveDrainType
<1>4. CASE ~LeaveDrain(w, drainer[w])
  <2>1. pc' \in [Workers -> Places] /\ at' \in [Workers -> Barriers] /\ drainer' = drainer
    BY <1>4 DEF DrainArrive, DrainPass, Places
  <2>2. /\ pc'[w] \in {"drain", "drainwait"}
        /\ \A v \in Workers \ {w} : pc'[v] = pc[v] /\ at'[v] = at[v]
    BY <1>4 DEF DrainArrive, DrainPass
  <2>3. LastFollows' /\ DrainHasOwner'
    BY <1>1, <2>1, <2>2 DEF LastFollows, LastOfStep, DrainHasOwner
  <2> QED BY <1>1, <1>2, <2>1, <2>3
<1> QED BY <1>3, <1>4

LEMMA ThreadTypeInv ==
  ASSUME TypeInv, NEW w \in Workers, Thread(w)
  PROVE  TypeInv'
<1> USE DEF TypeInv
<1>1. CASE MissingDbConfig(w)
  BY <1>1 DEF MissingDbConfig, TypeOK, LastFollows, LastOfStep, DrainHasOwner,
              Places, barrierVars, mainVars
<1>2. CASE Begin(w)
  BY <1>2 DEF Begin, TypeOK, LastFollows, LastOfStep, DrainHasOwner, Places,
              barrierVars, mainVars
<1>3. CASE Reach(w)
  <2>1. CASE Synchronizing
    BY <1>3, <2>1 DEF Reach, Arrive, TypeOK, LastFollows, LastOfStep,
                      DrainHasOwner, Places, mainVars
  <2>2. CASE ~Synchronizing
    BY <1>3, <2>2, AdvanceType DEF Reach, TypeOK, mainVars
  <2> QED BY <2>1, <2>2
<1>4. CASE Pass(w)
  BY <1>4, AdvanceType DEF Pass, TypeOK, barrierVars, mainVars
<1>5. CASE InnerFailure(w) \/ OuterFailure(w)
  BY <1>5, FailureTypeInv
<1>6. CASE DrainArrive(w) \/ DrainPass(w)
  BY <1>6, DrainTypeInv
<1>7. CASE TunerCatches(w)
  BY <1>7, StartDrainType DEF TunerCatches, TypeOK, barrierVars, mainVars
<1>8. CASE BuildFailureResult(w) \/ Swallow(w)
  <2>1. /\ UNCHANGED <<barrierVars, mode, at, last, drainer, mainVars>>
        /\ pc' = [pc EXCEPT ![w] = "returned"] /\ result' = [result EXCEPT ![w] = "failure"]
    BY <1>8 DEF BuildFailureResult, Swallow
  <2>2. pc' \in [Workers -> Places] /\ result' \in [Workers -> Results]
    BY <2>1 DEF TypeOK, Places, Results
  <2>3. LastFollows' /\ DrainHasOwner'
    BY <2>1 DEF TypeOK, LastFollows, LastOfStep, DrainHasOwner
  <2> QED BY <2>1, <2>2, <2>3 DEF TypeOK, barrierVars, mainVars
<1>9. CASE HandlerRaises(w) \/ RaiseToFuture(w)
  BY <1>9 DEF HandlerRaises, RaiseToFuture, TypeOK, LastFollows, LastOfStep,
              DrainHasOwner, Places, barrierVars, mainVars
<1> QED
  BY <1>1, <1>2, <1>3, <1>4, <1>5, <1>6, <1>7, <1>8, <1>9 DEF Thread

LEMMA MainTypeInv ==
  ASSUME TypeInv, Main
  PROVE  TypeInv'
<1>1. ASSUME NEW w \in Workers, Collect(w) \/ CollectException(w) PROVE TypeInv'
  BY <1>1 DEF Collect, CollectException, Abort, Enabled, TypeInv, TypeOK,
              LastFollows, LastOfStep, DrainHasOwner, barrierVars, threadVars
<1>2. CASE NextBatch
  <2>1. pc' = [w \in Workers |-> IF Batch(w) = batch + 1 THEN "start" ELSE pc[w]]
    BY <1>2 DEF NextBatch
  <2>2. batch' = batch + 1 /\ broken' = FALSE
    BY <1>2 DEF NextBatch
  <2>3. UNCHANGED <<arrivals, mode, at, last, drainer, result, collected, main>>
    BY <1>2 DEF NextBatch
  <2>4. pc' \in [Workers -> Places] /\ \A w \in Workers : pc'[w] = "start" \/ pc'[w] = pc[w]
    BY <2>1 DEF TypeInv, TypeOK, Places
  <2>5. LastFollows' /\ DrainHasOwner'
    BY <2>3, <2>4 DEF TypeInv, LastFollows, LastOfStep, DrainHasOwner
  <2>6. batch' \in Nat /\ broken' \in BOOLEAN
    <3>1. batch \in Nat
      BY DEF TypeInv, TypeOK
    <3>2. batch' \in Nat
      BY <2>2, <3>1
    <3>3. broken' \in BOOLEAN
      BY <2>2
    <3> QED BY <3>2, <3>3
  <2>7. TypeOK'
    BY <2>3, <2>4, <2>6 DEF TypeInv, TypeOK
  <2> QED BY <2>5, <2>7 DEF TypeInv
<1>3. CASE Finish \/ GenerationFails
  BY <1>3 DEF Finish, GenerationFails, TypeInv, TypeOK, LastFollows, LastOfStep,
              DrainHasOwner, barrierVars, threadVars
<1> QED BY <1>1, <1>2, <1>3 DEF Main

LEMMA StutterTypeInv ==
  ASSUME TypeInv, UNCHANGED vars
  PROVE  TypeInv'
  BY DEF TypeInv, TypeOK, LastFollows, LastOfStep, DrainHasOwner, vars,
         barrierVars, threadVars, mainVars

LEMMA NextTypeInv == TypeInv /\ [Next]_vars => TypeInv'
  BY ThreadTypeInv, MainTypeInv, StutterTypeInv DEF Next, Done

LEMMA SpecTypeInv == Spec => []TypeInv
  BY InitTypeInv, NextTypeInv, PTL DEF Spec

\* Every variable keeps its type, whatever sub-steps raise.
THEOREM TypeCorrect == Spec => []TypeOK
<1>1. TypeInv => TypeOK
  BY DEF TypeInv
<1> QED BY <1>1, SpecTypeInv, PTL
-----------------------------------------------------------------------------
(***************************************************************************)
(* Lockstep.  It holds of the runs in which a failed thread drains each    *)
(* barrier once: under PBT only the inner handler may meet a failure (the  *)
(* outer one drains, and then the tuner drains again), the others have no  *)
(* thread that fails ahead of the try block, and the internal executor     *)
(* does not raise after it called "warmup_done" back.                      *)
(***************************************************************************)
DrainsOnce ==
    /\ mode.strategy = "pbt" => mode.faults \subseteq InnerSteps \cup {MissingConfig}
    /\ mode.strategy # "pbt" => MissingConfig \notin mode.faults
    /\ ~mode.manages_own_connection => measurement_done \notin mode.faults

\* The barriers a thread has entered, and those it has been let out of, are
\* the first ones, up to Pos and Out.
Pos(w) == IF pc[w] \in {"queued", "start"} THEN 0
          ELSE IF pc[w] \in {"work", "drain"} THEN at[w] - 1
          ELSE IF pc[w] \in {"wait", "drainwait"} THEN at[w]
          ELSE IF pc[w] = "raised" /\ mode.strategy = "pbt" THEN 0
          ELSE disconnected
Out(w) == IF pc[w] \in {"wait", "drainwait"} THEN at[w] - 1 ELSE Pos(w)

\* A measured evaluation has no way to go but to return.
MeasuredEnds == \A w \in Workers : result[w] = "measured" => pc[w] = "returned"

\* The handlers that can run a drain under each strategy.
Handlers ==
    /\ \A w \in Workers : pc[w] \in {"wait", "drain", "drainwait"} => Enabled
    /\ mode.strategy = "pbt" => \A w \in Workers : drainer[w] # "outer"
    /\ mode.strategy # "pbt" =>
          \A w \in Workers : drainer[w] # "tuner" /\ pc[w] # "drained"

\* What "arrivals" records is the position of each thread ...
Trail == Synchronizing =>
    \A w \in Workers : \A b \in Barriers :
        arrivals[w][b] = IF b <= Pos(w) THEN 1 ELSE 0

\* ... and nobody is out of a barrier that a peer has not entered.
Together == Synchronizing =>
    \A w \in Workers : \A v \in Peers(w) : Out(w) <= Pos(v)

\* Threads of later batches have not started; an abort ends the generation.
Later ==
    /\ \A w \in Workers : Batch(w) > batch => pc[w] = "queued"
    /\ broken => main # "collecting"

\* A disabled set is never entered.
Unused == ~Enabled => \A w \in Workers : \A b \in Barriers : arrivals[w][b] = 0

SyncInv ==
    /\ TypeInv /\ DrainsOnce /\ MeasuredEnds /\ Handlers /\ Trail /\ Together
    /\ Later /\ Unused /\ LockstepOrder

LEMMA PosType ==
  ASSUME TypeInv, NEW w \in Workers
  PROVE  Pos(w) \in 0..disconnected /\ Out(w) \in 0..disconnected
  BY DEF TypeInv, TypeOK, Pos, Out

LEMMA PosTypePrime ==
  ASSUME TypeInv', NEW w \in Workers
  PROVE  Pos(w)' \in 0..disconnected /\ Out(w)' \in 0..disconnected
  BY DEF TypeInv, TypeOK, Pos, Out

\* A step of w that leaves pc and at of the others alone moves only w.
LEMMA OthersStay ==
  ASSUME NEW w \in Workers, UNCHANGED mode,
         \A v \in Workers \ {w} : pc'[v] = pc[v] /\ at'[v] = at[v],
         NEW v \in Workers \ {w}
  PROVE  Pos(v)' = Pos(v) /\ Out(v)' = Out(v)
  BY DEF Pos, Out

\* Trail and Together give LockstepOrder.
LEMMA LockstepFromTrail ==
  ASSUME TypeInv, Trail, Together, Synchronizing
  PROVE  LockstepOrder
<1> SUFFICES ASSUME NEW w \in Workers, NEW v \in Peers(w),
                    NEW b \in connected..score_computed, arrivals[w][b + 1] > 0
             PROVE  arrivals[v][b] > 0
  BY DEF LockstepOrder
<1>1. v \in Workers /\ b \in Barriers /\ b + 1 \in Barriers
  BY DEF Peers
<1>2. b + 1 <= Pos(w)
  BY <1>1 DEF Trail
<1>3. b <= Out(w)
  BY <1>2, PosType DEF Out, Pos, TypeInv, TypeOK
<1>4. b <= Pos(v)
  BY <1>1, <1>3, PosType DEF Together
<1> QED BY <1>1, <1>4 DEF Trail

\* A step that enters no barrier keeps the lockstep if it moves its thread
\* nowhere, or out of a barrier that all its peers have entered.
LEMMA NoArrival ==
  ASSUME SyncInv, TypeInv', NEW w \in Workers, UNCHANGED <<arrivals, mode, broken>>,
         \A v \in Workers \ {w} : pc'[v] = pc[v] /\ at'[v] = at[v],
         Synchronizing =>
            /\ Pos(w)' = Pos(w)
            /\ Out(w)' = Out(w) \/ \A v \in Peers(w) : Pos(w) <= Pos(v)
  PROVE  Trail' /\ Together' /\ Unused' /\ LockstepOrder'
<1>1. Synchronizing' = Synchronizing /\ Enabled' = Enabled
  BY DEF Synchronizing, Enabled
<1>2. LockstepOrder' /\ Unused'
  BY <1>1 DEF SyncInv, LockstepOrder, Unused
<1>3. ASSUME Synchronizing PROVE \A v \in Workers : Pos(v)' = Pos(v)
  BY <1>3, OthersStay
<1>4. Trail'
  BY <1>1, <1>3 DEF SyncInv, Trail
<1>5. Together'
  <2> SUFFICES ASSUME Synchronizing, NEW u \in Workers, NEW v \in Peers(u)
               PROVE  Out(u)' <= Pos(v)'
    BY <1>1 DEF Together, Peers
  <2>1. v \in Workers /\ Pos(v)' = Pos(v)
    BY <1>3 DEF Peers
  <2>2. Out(u) <= Pos(v)
    BY DEF SyncInv, Together
  <2>3. CASE Out(u)' = Out(u)
    BY <2>1, <2>2, <2>3
  <2>4. CASE Out(u)' # Out(u)
    <3>1. u = w
      BY <2>4, OthersStay
    <3>2. Pos(u) <= Pos(v) /\ Pos(u)' = Pos(u)
      BY <2>4, <3>1
    <3>3. Out(u)' <= Pos(u)'
      BY PosTypePrime, TypeInv' DEF Out, Pos, TypeInv, TypeOK
    <3> QED BY <2>1, <3>2, <3>3, PosType, PosTypePrime DEF SyncInv
  <2> QED BY <2>3, <2>4
<1> QED BY <1>2, <1>4, <1>5

\* A thread enters the barrier after those it has entered.
LEMMA Arrival ==
  ASSUME SyncInv, TypeInv', NEW w \in Workers, UNCHANGED <<mode, broken>>,
         Synchronizing, pc[w] \in {"work", "drain"}, Arrive(w, at[w]),
         \A v \in Workers \ {w} : pc'[v] = pc[v],
         pc'[w] \in {"wait", "drainwait"}, UNCHANGED at
  PROVE  Trail' /\ Together' /\ Unused' /\ LockstepOrder'
<1>1. Synchronizing' /\ Enabled'
  BY DEF Synchronizing, Enabled
<1>2. \A v \in Workers \ {w} : Pos(v)' = Pos(v) /\ Out(v)' = Out(v)
  BY OthersStay
<1>3. Pos(w) = at[w] - 1 /\ Out(w) = at[w] - 1 /\ Pos(w)' = at[w] /\ Out(w)' = at[w] - 1
  BY DEF Pos, Out
<1>4. at[w] \in Barriers
  BY DEF SyncInv, TypeInv, TypeOK
<1>5. Trail'
  <2> SUFFICES ASSUME NEW v \in Workers, NEW b \in Barriers
               PROVE  arrivals'[v][b] = IF b <= Pos(v)' THEN 1 ELSE 0
    BY DEF Trail
  <2>1. arrivals[v][b] = IF b <= Pos(v) THEN 1 ELSE 0
    BY DEF SyncInv, Trail
  <2>2. arrivals \in [Workers -> [Barriers -> Nat]]
    BY DEF SyncInv, TypeInv, TypeOK
  <2>3. CASE v = w /\ b = at[w]
    BY <1>3, <1>4, <2>1, <2>2, <2>3 DEF Arrive
  <2>4. CASE v = w /\ b # at[w]
    BY <1>3, <1>4, <2>1, <2>2, <2>4 DEF Arrive
  <2>5. CASE v # w
    BY <1>2, <2>1, <2>2, <2>5 DEF Arrive
  <2> QED BY <2>3, <2>4, <2>5
<1>6. Together'
  <2> SUFFICES ASSUME NEW u \in Workers, NEW v \in Peers(u)
               PROVE  Out(u)' <= Pos(v)'
    BY DEF Together, Peers
  <2>1. v \in Workers /\ Out(u) <= Pos(v)
    BY DEF SyncInv, Together, Peers
  <2>2. Out(u)' = Out(u) /\ Pos(v) <= Pos(v)'
    BY <1>2, <1>3, <1>4, <2>1, PosType DEF SyncInv
  <2> QED BY <2>1, <2>2, PosType, PosTypePrime DEF SyncInv
<1>7. LockstepOrder'
  <2>1. TypeInv' /\ Trail' /\ Together' /\ Synchronizing'
    BY <1>1, <1>5, <1>6
  <2> QED BY <2>1, LockstepFromTrail, PTL
<1> QED BY <1>1, <1>5, <1>6, <1>7 DEF Unused

\* A thread that a barrier lets out knows that its peers have entered it.
LEMMA PeersThere ==
  ASSUME SyncInv, Synchronizing, NEW w \in Workers,
         pc[w] \in {"wait", "drainwait"}, Released(w, at[w])
  PROVE  \A v \in Peers(w) : Pos(w) <= Pos(v)
<1> SUFFICES ASSUME NEW v \in Peers(w) PROVE Pos(w) <= Pos(v)
  OBVIOUS
<1>1. v \in Workers /\ at[w] \in Barriers /\ Pos(w) = at[w]
  BY DEF Peers, SyncInv, TypeInv, TypeOK, Pos
<1>2. ~(arrivals[v][at[w]] < arrivals[w][at[w]])
  BY DEF Released, Missing, Synchronizing
<1>3. arrivals[w][at[w]] = 1
  BY <1>1 DEF SyncInv, Trail
<1>4. at[w] <= Pos(v)
  BY <1>1, <1>2, <1>3 DEF SyncInv, Trail
<1> QED BY <1>1, <1>4

\* What every step of a thread leaves alone.
LEMMA ThreadFrame ==
  ASSUME TypeInv, NEW w \in Workers, Thread(w)
  PROVE  /\ UNCHANGED <<mode, broken, batch, main, collected>> /\ pc[w] # "queued"
         /\ \A v \in Workers \ {w} : pc'[v] = pc[v] /\ at'[v] = at[v]
<1> USE DEF TypeInv, TypeOK, barrierVars, mainVars
<1>1. CASE MissingDbConfig(w) \/ Begin(w)
  BY <1>1 DEF MissingDbConfig, Begin
<1>2. CASE Reach(w) \/ Pass(w)
  BY <1>2 DEF Reach, Pass, Advance
<1>3. CASE InnerFailure(w) \/ OuterFailure(w)
  BY <1>3 DEF InnerFailure, OuterFailure, StartDrain, LeaveDrain
<1>4. CASE DrainArrive(w) \/ DrainPass(w)
  BY <1>4 DEF DrainArrive, DrainPass, LeaveDrain
<1>5. CASE TunerCatches(w)
  BY <1>5 DEF TunerCatches, StartDrain, LeaveDrain
<1>6. CASE BuildFailureResult(w) \/ HandlerRaises(w) \/ RaiseToFuture(w) \/ Swallow(w)
  BY <1>6 DEF BuildFailureResult, HandlerRaises, RaiseToFuture, Swallow
<1> QED BY <1>1, <1>2, <1>3, <1>4, <1>5, <1>6 DEF Thread

\* A failed sub-step drains from the barrier it did not reach, and its drain
\* belongs to a handler that drains only once.
LEMMA FailureDrains ==
  ASSUME SyncInv, NEW w \in Workers, InnerFailure(w) \/ OuterFailure(w)
  PROVE  /\ DrainFrom(w) = at[w]
         /\ \/ StartDrain(w, at[w], "inner")
            \/ StartDrain(w, at[w], "outer") /\ mode.strategy # "pbt"
<1>1. pc[w] = "work" /\ at[w] \in mode.faults
  BY DEF InnerFailure, OuterFailure
<1>2. ~(at[w] = measurement_done /\ ~mode.manages_own_connection)
  BY <1>1 DEF SyncInv, DrainsOnce
<1>3. last[w] = at[w] - 1 /\ at[w] \in Barriers
  BY <1>1, <1>2 DEF SyncInv, TypeInv, TypeOK, LastFollows, LastOfStep
<1>4. DrainFrom(w) = at[w]
  BY <1>3 DEF DrainFrom, next_barrier_name
<1>5. OuterFailure(w) => mode.strategy # "pbt"
  BY <1>3 DEF OuterFailure, SyncInv, DrainsOnce
<1> QED BY <1>4, <1>5 DEF InnerFailure, OuterFailure

LEMMA ThreadHandlers ==
  ASSUME SyncInv, NEW w \in Workers, Thread(w)
  PROVE  Handlers'
<1> USE DEF Handlers, SyncInv, TypeInv, TypeOK
<1>0. mode' = mode /\ Enabled' = Enabled
  BY ThreadFrame DEF Enabled
<1>1. CASE MissingDbConfig(w) \/ Begin(w)
  BY <1>0, <1>1 DEF MissingDbConfig, Begin
<1>2. CASE Reach(w) \/ Pass(w)
  BY <1>0, <1>2 DEF Reach, Pass, Advance, Synchronizing
<1>3. CASE InnerFailure(w) \/ OuterFailure(w)
  BY <1>0, <1>3, FailureDrains DEF StartDrain, LeaveDrain, AfterDrain, Synchronizing
<1>4. CASE DrainArrive(w) \/ DrainPass(w)
  BY <1>0, <1>4 DEF DrainArrive, DrainPass, LeaveDrain, AfterDrain, DrainHasOwner, Drainers
<1>5. CASE TunerCatches(w)
  BY <1>0, <1>5 DEF TunerCatches, StartDrain, LeaveDrain, AfterDrain, Synchronizing
<1>6. CASE BuildFailureResult(w) \/ HandlerRaises(w) \/ RaiseToFuture(w) \/ Swallow(w)
  BY <1>0, <1>6 DEF BuildFailureResult, HandlerRaises, RaiseToFuture, Swallow
<1> QED BY <1>1, <1>2, <1>3, <1>4, <1>5, <1>6 DEF Thread

LEMMA ThreadMeasured ==
  ASSUME SyncInv, NEW w \in Workers, Thread(w)
  PROVE  MeasuredEnds'
<1>1. /\ \A v \in Workers \ {w} : pc'[v] = pc[v] /\ result'[v] = result[v]
      /\ result'[w] = "measured" => pc'[w] = "returned"
  <2> USE DEF SyncInv, TypeInv, TypeOK, MeasuredEnds
  <2>1. CASE MissingDbConfig(w) \/ Begin(w)
    BY <2>1 DEF MissingDbConfig, Begin
  <2>2. CASE Reach(w) \/ Pass(w)
    BY <2>2 DEF Reach, Pass, Advance
  <2>3. CASE InnerFailure(w) \/ OuterFailure(w)
    BY <2>3 DEF InnerFailure, OuterFailure, StartDrain, LeaveDrain
  <2>4. CASE DrainArrive(w) \/ DrainPass(w)
    BY <2>4 DEF DrainArrive, DrainPass, LeaveDrain
  <2>5. CASE TunerCatches(w)
    BY <2>5 DEF TunerCatches, StartDrain, LeaveDrain
  <2>6. CASE BuildFailureResult(w) \/ HandlerRaises(w) \/ RaiseToFuture(w) \/ Swallow(w)
    BY <2>6 DEF BuildFailureResult, HandlerRaises, RaiseToFuture, Swallow
  <2> QED BY <2>1, <2>2, <2>3, <2>4, <2>5, <2>6 DEF Thread
<1> QED BY <1>1 DEF SyncInv, MeasuredEnds

\* Where a drain takes its thread.
LEMMA DrainMoves ==
  ASSUME TypeInv, Synchronizing, NEW w \in Workers, NEW b \in Barriers, NEW who,
         StartDrain(w, b, who)
  PROVE  Pos(w)' = b - 1 /\ Out(w)' = b - 1
  BY DEF StartDrain, TypeInv, TypeOK, Pos, Out

LEMMA ThreadSync ==
  ASSUME SyncInv, NEW w \in Workers, Thread(w)
  PROVE  Trail' /\ Together' /\ Unused' /\ LockstepOrder'
<1>0. /\ TypeInv' /\ UNCHANGED <<mode, broken>>
      /\ \A v \in Workers \ {w} : pc'[v] = pc[v] /\ at'[v] = at[v]
  BY ThreadTypeInv, ThreadFrame DEF SyncInv
<1>a. pc \in [Workers -> Places] /\ at \in [Workers -> Barriers]
  BY DEF SyncInv, TypeInv, TypeOK
<1>1. CASE MissingDbConfig(w) \/ Begin(w)
  <2>1. UNCHANGED arrivals /\ Pos(w)' = Pos(w) /\ Out(w)' = Out(w)
    BY <1>a, <1>1 DEF MissingDbConfig, Begin, SyncInv, DrainsOnce, Pos, Out, barrierVars
  <2> QED BY <1>0, <2>1, NoArrival
<1>2. CASE Reach(w) /\ Synchronizing
  <2>1. /\ pc[w] = "work" /\ pc'[w] = "wait" /\ Arrive(w, at[w]) /\ UNCHANGED at
    BY <1>a, <1>2 DEF Reach
  <2> QED BY <1>0, <1>2, <2>1, Arrival
<1>3. CASE Reach(w) /\ ~Synchronizing
  BY <1>0, <1>3, NoArrival DEF Reach
<1>4. CASE Pass(w)
  <2>1. UNCHANGED arrivals /\ pc[w] = "wait" /\ Released(w, at[w]) /\ Advance(w)
    BY <1>4 DEF Pass, barrierVars
  <2>2. Pos(w)' = Pos(w)
    BY <1>a, <2>1 DEF Advance, Pos
  <2>3. Synchronizing => \A v \in Peers(w) : Pos(w) <= Pos(v)
    BY <2>1, PeersThere
  <2> QED BY <1>0, <2>1, <2>2, <2>3, NoArrival
<1>5. CASE InnerFailure(w) \/ OuterFailure(w)
  <2>1. UNCHANGED arrivals /\ pc[w] = "work"
    BY <1>5 DEF InnerFailure, OuterFailure, barrierVars
  <2>2. Synchronizing => Pos(w)' = at[w] - 1 /\ Out(w)' = at[w] - 1
    BY <1>a, <1>5, FailureDrains, DrainMoves DEF SyncInv
  <2>3. Pos(w) = at[w] - 1 /\ Out(w) = at[w] - 1
    BY <2>1 DEF Pos, Out
  <2> QED BY <1>0, <2>1, <2>2, <2>3, NoArrival
<1>6. CASE DrainArrive(w)
  <2>1. CASE ~Synchronizing
    <3>1. broken
      BY <1>6, <2>1 DEF Synchronizing, SyncInv, Handlers, DrainArrive
    <3> QED BY <1>0, <1>6, <2>1, <3>1, NoArrival DEF DrainArrive
  <2>2. CASE Synchronizing
    <3>1. /\ pc[w] = "drain" /\ pc'[w] = "drainwait" /\ Arrive(w, at[w]) /\ UNCHANGED at
      BY <1>a, <1>6, <2>2 DEF DrainArrive, Synchronizing
    <3> QED BY <1>0, <2>2, <3>1, Arrival
  <2> QED BY <2>1, <2>2
<1>7. CASE DrainPass(w)
  <2>1. UNCHANGED arrivals /\ pc[w] = "drainwait" /\ Released(w, at[w])
    BY <1>7 DEF DrainPass, barrierVars
  <2>2. ASSUME Synchronizing PROVE Pos(w)' = Pos(w)
    <3>1. CASE at[w] = disconnected
      <4>1. LeaveDrain(w, drainer[w]) /\ mode' = mode
        BY <1>7, <3>1 DEF DrainPass
      <4>2. pc'[w] = AfterDrain(drainer[w])
        BY <1>a, <4>1 DEF LeaveDrain
      <4>3. /\ drainer[w] \in {"inner", "outer", "tuner"}
            /\ drainer[w] = "outer" => mode.strategy # "pbt"
        BY <2>1 DEF SyncInv, Handlers, TypeInv, TypeOK, DrainHasOwner, Drainers
      <4>4. Pos(w)' = disconnected
        BY <4>1, <4>2, <4>3 DEF Pos, AfterDrain
      <4> QED BY <2>1, <3>1, <4>4 DEF Pos
    <3>2. CASE at[w] # disconnected
      BY <1>a, <1>7, <2>2, <3>2 DEF DrainPass, Synchronizing, Pos
    <3> QED BY <3>1, <3>2
  <2>3. Synchronizing => \A v \in Peers(w) : Pos(w) <= Pos(v)
    BY <2>1, PeersThere
  <2> QED BY <1>0, <2>1, <2>2, <2>3, NoArrival
<1>8. CASE TunerCatches(w)
  <2>1. UNCHANGED arrivals /\ Pos(w) = 0 /\ Out(w) = 0
    BY <1>8 DEF TunerCatches, Pos, Out, barrierVars
  <2>2. Synchronizing => Pos(w)' = 0 /\ Out(w)' = 0
    BY <1>8, DrainMoves DEF TunerCatches, SyncInv
  <2> QED BY <1>0, <2>1, <2>2, NoArrival
<1>9. CASE BuildFailureResult(w) \/ HandlerRaises(w) \/ RaiseToFuture(w) \/ Swallow(w)
  <2>1. UNCHANGED arrivals /\ Pos(w)' = Pos(w) /\ Out(w)' = Out(w)
    BY <1>a, <1>9 DEF BuildFailureResult, HandlerRaises, RaiseToFuture, Swallow, Pos, Out,
                barrierVars
  <2> QED BY <1>0, <2>1, NoArrival
<1> QED
  BY <1>1, <1>2, <1>3, <1>4, <1>5, <1>6, <1>7, <1>8, <1>9 DEF Thread

LEMMA ThreadSyncInv ==
  ASSUME SyncInv, NEW w \in Workers, Thread(w)
  PROVE  SyncInv'
<1>1. TypeInv' /\ DrainsOnce'
  BY ThreadTypeInv, ThreadFrame DEF SyncInv, DrainsOnce
<1>2. Later'
  BY ThreadFrame DEF SyncInv, Later
<1> QED BY <1>1, <1>2, ThreadHandlers, ThreadMeasured, ThreadSync DEF SyncInv

LEMMA MainSyncInv ==
  ASSUME SyncInv, Main
  PROVE  SyncInv'
<1>1. TypeInv' /\ UNCHANGED <<mode, arrivals, at, drainer, result>>
  BY MainTypeInv DEF SyncInv, Main, Collect, CollectException, NextBatch, Finish,
                     GenerationFails, barrierVars, threadVars
<1>2. DrainsOnce' /\ Enabled' = Enabled /\ LockstepOrder' /\ Unused'
  BY <1>1 DEF SyncInv, DrainsOnce, Enabled, LockstepOrder, Unused
<1>3. CASE /\ UNCHANGED pc /\ (broken => broken') /\ batch' = batch
           /\ main' # "collecting" \/ (main' = main /\ broken' = broken)
  <2>1. Handlers' /\ MeasuredEnds'
    BY <1>1, <1>2, <1>3 DEF SyncInv, Handlers, MeasuredEnds
  <2>2. Synchronizing' => Synchronizing
    BY <1>2, <1>3 DEF Synchronizing
  <2>3. \A v \in Workers : Pos(v)' = Pos(v) /\ Out(v)' = Out(v)
    BY <1>1, <1>3 DEF Pos, Out
  <2>4. Trail' /\ Together'
    BY <1>1, <2>2, <2>3 DEF SyncInv, Trail, Together, Peers
  <2>5. CASE main' = main /\ broken' = broken
    BY <1>1, <1>2, <1>3, <2>1, <2>4, <2>5 DEF SyncInv, Later
  <2>6. CASE main' # "collecting"
    BY <1>1, <1>2, <1>3, <2>1, <2>4, <2>6 DEF SyncInv, Later
  <2> QED BY <1>3, <2>5, <2>6
<1>4. CASE NextBatch
  <2>1. /\ main = "collecting" /\ main' = main /\ batch' = batch + 1 /\ broken' = FALSE
        /\ pc' = [w \in Workers |-> IF Batch(w) = batch + 1 THEN "start" ELSE pc[w]]
    BY <1>4 DEF NextBatch
  <2>2. batch \in Nat
    BY DEF SyncInv, TypeInv, TypeOK
  <2>3. ASSUME NEW w \in Workers
        PROVE  pc'[w] = pc[w] \/ (pc[w] = "queued" /\ pc'[w] = "start")
    BY <2>1, <2>2, BatchType DEF SyncInv, Later
  <2>4. \A v \in Workers : Pos(v)' = Pos(v) /\ Out(v)' = Out(v)
    BY <1>1, <2>3 DEF Pos, Out
  <2>5. Synchronizing' => Synchronizing
    BY <1>2, <2>1 DEF Synchronizing, SyncInv, Later
  <2>6. Trail' /\ Together'
    BY <1>1, <2>4, <2>5 DEF SyncInv, Trail, Together, Peers
  <2>7. Handlers' /\ MeasuredEnds'
    BY <1>1, <1>2, <2>3 DEF SyncInv, Handlers, MeasuredEnds
  <2>8. Later'
    <3> SUFFICES ASSUME NEW w \in Workers, Batch(w) > batch + 1 PROVE pc'[w] = "queued"
      BY <2>1 DEF Later
    <3> QED BY <2>1, <2>2, BatchType DEF SyncInv, Later
  <2> QED BY <1>1, <1>2, <2>6, <2>7, <2>8 DEF SyncInv
<1>5. \/ NextBatch
      \/ /\ UNCHANGED pc /\ (broken => broken') /\ batch' = batch
         /\ main' # "collecting" \/ (main' = main /\ broken' = broken)
  BY DEF Main, Collect, CollectException, Abort, Finish, GenerationFails,
         barrierVars, threadVars
<1> QED BY <1>3, <1>4, <1>5

LEMMA StutterSyncInv ==
  ASSUME SyncInv, UNCHANGED vars
  PROVE  SyncInv'
<1>1. /\ TypeInv' /\ DrainsOnce' /\ MeasuredEnds' /\ Handlers' /\ Later'
      /\ Unused' /\ LockstepOrder' /\ Synchronizing' = Synchronizing
  BY StutterTypeInv DEF SyncInv, DrainsOnce, MeasuredEnds, Handlers, Later, Unused,
                        LockstepOrder, Enabled, Synchronizing, vars, barrierVars, threadVars, mainVars
<1>2. \A v \in Workers : Pos(v)' = Pos(v) /\ Out(v)' = Out(v)
  BY DEF Pos, Out, vars, threadVars
<1>3. Trail' /\ Together'
  BY <1>1, <1>2 DEF SyncInv, Trail, Together, Peers, vars, barrierVars
<1> QED BY <1>1, <1>3 DEF SyncInv

LEMMA InitSyncInv == Init /\ DrainsOnce => SyncInv
<1> SUFFICES ASSUME Init, DrainsOnce PROVE SyncInv
  OBVIOUS
<1>1. TypeInv
  BY InitTypeInv
<1>2. \A w \in Workers : /\ pc[w] = "queued" \/ pc[w] = "start"
                         /\ Batch(w) > 0 => pc[w] = "queued"
  <2>1. pc = [w \in Workers |-> IF Batch(w) = 0 THEN "start" ELSE "queued"]
    BY DEF Init
  <2> QED BY <2>1, BatchType
<1>3. ASSUME NEW w \in Workers PROVE Pos(w) = 0 /\ Out(w) = 0
  <2>1. CASE pc[w] = "queued"
    BY <2>1 DEF Pos, Out
  <2>2. CASE pc[w] = "start"
    BY <2>2 DEF Pos, Out
  <2> QED BY <1>2, <2>1, <2>2
<1>4. \A w \in Workers : \A b \in Barriers : arrivals[w][b] = 0
  BY DEF Init, BarrierInit
<1>5. Trail /\ Together /\ Unused
  BY <1>3, <1>4 DEF Trail, Together, Unused, Peers
<1>6. LockstepOrder
  BY <1>4 DEF LockstepOrder
<1>7. MeasuredEnds /\ Handlers /\ Later
  BY <1>2 DEF MeasuredEnds, Handlers, Later, Init, BarrierInit
<1> QED BY <1>1, <1>5, <1>6, <1>7 DEF SyncInv

LEMMA SpecSyncInv == Spec /\ DrainsOnce => []SyncInv
<1>1. SyncInv /\ [Next]_vars => SyncInv'
  BY ThreadSyncInv, MainSyncInv, StutterSyncInv DEF Next, Done
<1> QED BY <1>1, InitSyncInv, PTL DEF Spec

\* When failed threads drain once, the threads of a batch take the barriers
\* in lockstep.
THEOREM Lockstepped == Spec /\ DrainsOnce => []LockstepOrder
<1>1. SyncInv => LockstepOrder
  BY DEF SyncInv
<1> QED BY <1>1, SpecSyncInv, PTL

\* ... their measurement windows overlap ...
THEOREM FairMeasurement == Spec /\ DrainsOnce => []MeasurementOverlap
<1>1. SyncInv => MeasurementOverlap
  <2> SUFFICES ASSUME SyncInv, Synchronizing, NEW w \in Workers, Measuring(w),
                      NEW v \in Peers(w),
                      pc[v] \in {"start", "work", "wait"} \/ result[v] = "measured"
               PROVE  AtWindow(v)
    BY DEF MeasurementOverlap
  <2>1. v \in Workers /\ w \in Peers(v)
    BY DEF Peers
  <2>2. Pos(w) = warmup_done /\ Out(w) = warmup_done
    BY DEF Measuring, Pos, Out
  <2>3. warmup_done <= Pos(v) /\ Out(v) <= warmup_done
    BY <2>1, <2>2 DEF SyncInv, Together
  <2>4. at[v] \in Barriers /\ pc[v] \in Places
    BY <2>1 DEF SyncInv, TypeInv, TypeOK
  <2>5. CASE pc[v] \in {"start", "work", "wait"}
    BY <2>3, <2>4, <2>5 DEF AtWindow, Measuring, Pos, Out
  <2>6. CASE result[v] = "measured"
    <3>1. pc[v] = "returned"
      BY <2>1, <2>6 DEF SyncInv, MeasuredEnds
    <3> QED BY <2>3, <3>1 DEF Out, Pos
  <2> QED BY <2>5, <2>6
<1> QED BY <1>1, SpecSyncInv, PTL

\* ... and no thread waits for a thread that has ended.
THEOREM NobodyStranded == Spec /\ DrainsOnce => []NoStrandedWaiter
<1>1. SyncInv => NoStrandedWaiter
  <2> SUFFICES ASSUME SyncInv, NEW w \in Workers, Blocked(w),
                      NEW v \in Missing(w, at[w]), Ended(v)
               PROVE  FALSE
    BY DEF NoStrandedWaiter
  <2>1. v \in Workers /\ at[w] \in Barriers
    BY DEF Missing, Peers, SyncInv, TypeInv, TypeOK
  <2>2. Synchronizing
    BY DEF Blocked, Released, Synchronizing, SyncInv, Handlers
  <2>3. Pos(v) = disconnected
    BY DEF Ended, Pos
  <2>4. arrivals[v][at[w]] = 1
    BY <2>1, <2>2, <2>3 DEF SyncInv, Trail
  <2>5. arrivals[w][at[w]] = 0 \/ arrivals[w][at[w]] = 1
    BY <2>1, <2>2 DEF SyncInv, Trail
  <2> QED BY <2>4, <2>5 DEF Missing
<1> QED BY <1>1, SpecSyncInv, PTL
-----------------------------------------------------------------------------
(***************************************************************************)
(* The batches, for every mode: a batch starts only when the results of    *)
(* the one before it have been read.                                       *)
(***************************************************************************)
BatchInv ==
    /\ TypeInv
    /\ \A w \in Workers : Batch(w) > batch => pc[w] = "queued"
    /\ \A w \in Workers : Batch(w) < batch => w \in collected
    /\ \A w \in collected : pc[w] = "returned"

LEMMA ThreadRuns ==
  ASSUME TypeInv, NEW w \in Workers, Thread(w)
  PROVE  pc[w] # "returned" /\ pc[w] # "queued"
  BY DEF Thread, MissingDbConfig, Begin, Reach, Pass, InnerFailure, OuterFailure,
         DrainArrive, DrainPass, TunerCatches, BuildFailureResult, HandlerRaises,
         RaiseToFuture, Swallow

LEMMA InitBatchInv == Init => BatchInv
<1> SUFFICES ASSUME Init PROVE BatchInv
  OBVIOUS
<1>1. TypeInv
  BY InitTypeInv
<1>2. /\ pc = [w \in Workers |-> IF Batch(w) = 0 THEN "start" ELSE "queued"]
      /\ batch = 0 /\ collected = {}
  BY DEF Init
<1> QED BY <1>1, <1>2, BatchType DEF BatchInv

LEMMA NextBatchInv == BatchInv /\ [Next]_vars => BatchInv'
<1> SUFFICES ASSUME BatchInv, [Next]_vars PROVE BatchInv'
  OBVIOUS
<1>0. TypeInv'
  BY NextTypeInv DEF BatchInv
<1>1. ASSUME NEW w \in Workers, Thread(w) PROVE BatchInv'
  <2>1. /\ pc[w] # "returned" /\ pc[w] # "queued" /\ batch' = batch /\ collected' = collected
        /\ \A v \in Workers \ {w} : pc'[v] = pc[v]
    BY <1>1, ThreadRuns, ThreadFrame DEF BatchInv
  <2>2. collected \subseteq Workers
    BY DEF BatchInv, TypeInv, TypeOK
  <2> QED BY <1>0, <2>1, <2>2 DEF BatchInv
<1>2. ASSUME NEW w \in Workers, Collect(w) PROVE BatchInv'
  BY <1>0, <1>2 DEF Collect, BatchInv, threadVars
<1>3. CASE NextBatch
  <2>1. /\ BatchWorkers \subseteq collected /\ batch' = batch + 1 /\ collected' = collected
        /\ pc' = [w \in Workers |-> IF Batch(w) = batch + 1 THEN "start" ELSE pc[w]]
    BY <1>3 DEF NextBatch
  <2>2. batch \in Nat /\ collected \subseteq Workers
    BY DEF BatchInv, TypeInv, TypeOK
  <2>3. ASSUME NEW w \in Workers, Batch(w) > batch + 1 PROVE pc'[w] = "queued"
    BY <2>1, <2>2, <2>3, BatchType DEF BatchInv
  <2>4. ASSUME NEW w \in Workers, Batch(w) < batch + 1 PROVE w \in collected
    <3>1. CASE Batch(w) = batch
      BY <2>1, <3>1 DEF BatchWorkers
    <3>2. CASE Batch(w) # batch
      BY <2>2, <2>4, <3>2, BatchType DEF BatchInv
    <3> QED BY <3>1, <3>2
  <2>5. ASSUME NEW w \in collected PROVE pc'[w] = "returned"
    <3>1. w \in Workers /\ pc[w] = "returned"
      BY <2>2 DEF BatchInv
    <3>2. ~(Batch(w) > batch)
      BY <3>1 DEF BatchInv
    <3>3. Batch(w) # batch + 1
      BY <2>2, <3>1, <3>2, BatchType
    <3> QED BY <2>1, <3>1, <3>3
  <2> QED BY <1>0, <2>1, <2>3, <2>4, <2>5 DEF BatchInv
<1>4. CASE \/ \E w \in Workers : CollectException(w)
           \/ Finish \/ GenerationFails \/ UNCHANGED vars
  BY <1>0, <1>4 DEF CollectException, Finish, GenerationFails, BatchInv, vars,
                    threadVars, mainVars
<1> QED BY <1>1, <1>2, <1>3, <1>4 DEF Next, Main, Done

\* No thread of a batch runs next to a thread of another, in any mode.
THEOREM OneBatchAtATime == Spec => []BatchesDisjoint
<1>1. BatchInv => BatchesDisjoint
  <2> SUFFICES ASSUME BatchInv, NEW v \in Workers, NEW w \in Workers,
                      Running(v), Running(w)
               PROVE  Batch(v) = Batch(w)
    BY DEF BatchesDisjoint
  <2>1. ASSUME NEW u \in Workers, Running(u) PROVE Batch(u) = batch
    BY <2>1, BatchType DEF BatchInv, Running, TypeInv, TypeOK
  <2> QED BY <2>1
<1> QED BY <1>1, InitBatchInv, NextBatchInv, PTL DEF Spec
-----------------------------------------------------------------------------
(***************************************************************************)
(* The results, for every mode: a thread that returned has a result, and a *)
(* generation that ends normally has gone through every batch.             *)
(***************************************************************************)
\* A thread touches only its own result, and has one before it returns: the
\* handler of the workload sets it before it drains.
HasResult(w) ==
    /\ pc[w] = "returned" => result[w] # "none"
    /\ pc[w] \in {"drain", "drainwait"} /\ drainer[w] = "inner" => result[w] # "none"

ResultsInv ==
    /\ BatchInv
    /\ \A w \in Workers : HasResult(w)
    /\ main = "evaluated" => collected = Workers

LEMMA DivMonotone ==
  ASSUME NEW m \in Nat \ {0}, NEW a \in Nat, NEW b \in Nat, a <= b
  PROVE  a \div m <= b \div m
<1> DEFINE q == a \div m
           p == b \div m
<1>1. q \in Int /\ p \in Int /\ m * q <= a /\ b < m * p + m
  BY Z3
<1> HIDE DEF q, p
<1>2. CASE q >= p + 1
  <2>1. m * q >= m * (p + 1)
    BY <1>1, <1>2, Z3
  <2>2. m * (p + 1) = m * p + m
    BY <1>1, Z3
  <2> QED BY <1>1, <2>1, <2>2, Z3
<1>3. CASE ~(q >= p + 1)
  BY <1>1, <1>3 DEF q, p
<1> QED BY <1>2, <1>3

LEMMA BatchOrder == \A w \in Workers : Batch(w) <= LastBatch
<1> SUFFICES ASSUME NEW w \in Workers PROVE Batch(w) <= LastBatch
  OBVIOUS
<1>1. w - 1 \in Nat /\ PopulationSize - 1 \in Nat /\ w - 1 <= PopulationSize - 1
  BY SizesAssumption DEF Workers
<1> QED BY <1>1, DivMonotone, SizesAssumption DEF Batch, LastBatch

LEMMA DrainResult ==
  ASSUME TypeInv, NEW w \in Workers, NEW who \in {"inner", "outer", "tuner"},
         NEW b \in Barriers, StartDrain(w, b, who) \/ LeaveDrain(w, who),
         who = "inner" => result'[w] # "none"
  PROVE  HasResult(w)' /\ \A v \in Workers \ {w} : pc'[v] = pc[v] /\ drainer'[v] = drainer[v]
<1> USE DEF TypeInv, TypeOK
<1>1. CASE LeaveDrain(w, who)
  BY <1>1 DEF LeaveDrain, AfterDrain, HasResult
<1>2. CASE StartDrain(w, b, who)
  BY <1>1, <1>2 DEF StartDrain, HasResult
<1> QED BY <1>1, <1>2

LEMMA ThreadResult ==
  ASSUME TypeInv, NEW w \in Workers, Thread(w), HasResult(w)
  PROVE  /\ HasResult(w)'
         /\ \A v \in Workers \ {w} :
               pc'[v] = pc[v] /\ drainer'[v] = drainer[v] /\ result'[v] = result[v]
<1> USE DEF TypeInv, TypeOK, barrierVars, mainVars
<1>1. CASE MissingDbConfig(w) \/ Begin(w) \/ HandlerRaises(w) \/ RaiseToFuture(w)
  BY <1>1 DEF MissingDbConfig, Begin, HandlerRaises, RaiseToFuture, HasResult
<1>2. CASE Reach(w) \/ Pass(w)
  BY <1>2 DEF Reach, Pass, Advance, HasResult
<1>3. CASE InnerFailure(w)
  <2>1. DrainFrom(w) \in Barriers /\ StartDrain(w, DrainFrom(w), "inner")
    BY <1>3, DrainFromType DEF InnerFailure
  <2>2. /\ result'[w] # "none" /\ \A v \in Workers \ {w} : result'[v] = result[v]
    BY <1>3 DEF InnerFailure
  <2> QED BY <2>1, <2>2, DrainResult
<1>4. CASE OuterFailure(w)
  <2>1. DrainFrom(w) \in Barriers /\ StartDrain(w, DrainFrom(w), "outer") /\ result' = result
    BY <1>4, DrainFromType DEF OuterFailure
  <2> QED BY <2>1, DrainResult
<1>5. CASE TunerCatches(w)
  <2>1. StartDrain(w, connected, "tuner") /\ result' = result
    BY <1>5 DEF TunerCatches
  <2> QED BY <2>1, DrainResult
<1>6. CASE DrainArrive(w) \/ DrainPass(w)
  <2>1. /\ result' = result /\ drainer[w] \in {"inner", "outer", "tuner"}
        /\ pc[w] \in {"drain", "drainwait"}
    BY <1>6 DEF DrainArrive, DrainPass, DrainHasOwner, Drainers
  <2>2. CASE LeaveDrain(w, drainer[w])
    <3>1. drainer[w] = "inner" => result'[w] # "none"
      BY <2>1 DEF HasResult
    <3> QED BY <2>1, <2>2, <3>1, DrainResult
  <2>3. CASE ~LeaveDrain(w, drainer[w])
    BY <1>6, <2>1, <2>3 DEF DrainArrive, DrainPass, HasResult
  <2> QED BY <2>2, <2>3
<1>7. CASE BuildFailureResult(w) \/ Swallow(w)
  BY <1>7 DEF BuildFailureResult, Swallow, HasResult
<1> QED BY <1>1, <1>2, <1>3, <1>4, <1>5, <1>6, <1>7 DEF Thread

LEMMA InitResultsInv == Init => ResultsInv
<1> SUFFICES ASSUME Init PROVE ResultsInv
  OBVIOUS
<1>1. \A w \in Workers : pc[w] \in {"start", "queued"}
  BY DEF Init
<1>2. main = "collecting"
  BY DEF Init
<1> QED BY <1>1, <1>2, InitBatchInv DEF ResultsInv, HasResult

LEMMA NextResultsInv == ResultsInv /\ [Next]_vars => ResultsInv'
<1> SUFFICES ASSUME ResultsInv, [Next]_vars PROVE ResultsInv'
  OBVIOUS
<1>0. BatchInv' /\ TypeInv /\ BatchInv
  BY NextBatchInv DEF ResultsInv, BatchInv
<1>1. ASSUME NEW w \in Workers, Thread(w) PROVE ResultsInv'
  <2>1. UNCHANGED <<main, collected>>
    BY <1>0, <1>1, ThreadFrame
  <2>2. \A v \in Workers : HasResult(v)'
    BY <1>0, <1>1, ThreadResult DEF ResultsInv, HasResult
  <2> QED BY <1>0, <2>1, <2>2 DEF ResultsInv
<1>2. CASE NextBatch
  <2>1. /\ \A w \in Workers : pc'[w] \in {"start", pc[w]}
        /\ UNCHANGED <<drainer, result, main, collected>>
    BY <1>2 DEF NextBatch
  <2> QED BY <1>0, <2>1 DEF ResultsInv, HasResult
<1>3. CASE Finish
  <2>1. \A w \in Workers : w \in collected
    <3> SUFFICES ASSUME NEW w \in Workers PROVE w \in collected
      OBVIOUS
    <3>1. Batch(w) \in Nat /\ batch \in Nat /\ Batch(w) <= batch
      BY <1>0, <1>3, BatchOrder, BatchType DEF Finish, TypeInv, TypeOK
    <3>2. Batch(w) < batch \/ Batch(w) = batch
      BY <3>1
    <3> QED BY <1>0, <1>3, <3>2 DEF Finish, BatchWorkers, BatchInv
  <2>2. collected = Workers
    BY <1>0, <2>1 DEF TypeInv, TypeOK
  <2> QED BY <1>0, <1>3, <2>2 DEF Finish, ResultsInv, HasResult, threadVars
<1>4. CASE (\E w \in Workers : Collect(w) \/ CollectException(w)) \/ GenerationFails
  BY <1>0, <1>4 DEF Collect, CollectException, GenerationFails, ResultsInv, HasResult,
                    threadVars
<1>5. CASE UNCHANGED vars
  BY <1>0, <1>5 DEF ResultsInv, HasResult, vars, threadVars, mainVars
<1> QED BY <1>1, <1>2, <1>3, <1>4, <1>5 DEF Next, Main, Done

\* Whatever fails in whatever order: a generation that is evaluated has read
\* a result of every worker of every batch, the trailing smaller one included.
THEOREM EveryResultIsRead == Spec => []ResultsComplete
<1>1. ResultsInv => ResultsComplete
  BY DEF ResultsInv, HasResult, BatchInv, ResultsComplete
<1> QED BY <1>1, InitResultsInv, NextResultsInv, PTL DEF Spec
-----------------------------------------------------------------------------
(***************************************************************************)
(* Refinement: entering a barrier is Lockstep's Reach, being let out is    *)
(* its Leave, an abort opens the steps, everything else is a stutter.      *)
(***************************************************************************)
Waits(w) == pc[w] \in {"wait", "drainwait"}

LEMMA SameMapping ==
  ASSUME NEW w \in Workers, arrivals'[w] = arrivals[w], Waits(w)' = Waits(w),
         Waits(w) => at'[w] = at[w]
  PROVE  Reached(w)' = Reached(w) /\ Left(w)' = Left(w)
  BY DEF Reached, Left, Waits

LEMMA LeaveStep ==
  ASSUME NEW w \in Workers, Waits(w), ~Waits(w)', Released(w, at[w]),
         UNCHANGED <<arrivals, broken>>, TypeInv,
         \A v \in Workers \ {w} : pc'[v] = pc[v] /\ at'[v] = at[v]
  PROVE  [L!Next]_(L!lockstepVars)
<1>1. \A v \in Workers : Reached(v)' = Reached(v)
  BY DEF Reached
<1>2. \A v \in Workers \ {w} : Left(v)' = Left(v)
  BY SameMapping DEF Waits
<1>3. at[w] \in 1..disconnected /\ at[w] \in Barriers
  BY DEF TypeInv, TypeOK
<1>4. CASE arrivals[w][at[w]] = 1
  <2>1. Left(w)' = Left(w) \cup {at[w]}
    BY <1>3, <1>4 DEF Left, Reached, Waits
  <2>2. at[w] \in Reached(w) \ Left(w)
    BY <1>3, <1>4 DEF Left, Reached, Waits
  <2>3. broken \/ \A v \in Peers(w) : at[w] \in Reached(v)
    <3> SUFFICES ASSUME ~broken, NEW v \in Peers(w) PROVE at[w] \in Reached(v)
      OBVIOUS
    <3>1. v \in Workers /\ ~(arrivals[v][at[w]] < arrivals[w][at[w]])
      BY DEF Released, Missing, Peers
    <3>2. arrivals[v][at[w]] \in Nat
      BY <1>3, <3>1 DEF TypeInv, TypeOK
    <3> QED BY <1>3, <1>4, <3>1, <3>2 DEF Reached
  <2>4. L!Leave(w, at[w])
    <3>1. L!Teammates(w) = Peers(w)
      BY DEF L!Teammates, Peers
    <3>2. [v \in Workers |-> Left(v)]' =
             [[v \in Workers |-> Left(v)] EXCEPT ![w] = @ \cup {at[w]}]
      BY <1>2, <2>1
    <3>3. [v \in Workers |-> Reached(v)]' = [v \in Workers |-> Reached(v)]
      BY <1>1
    <3> QED BY <2>2, <2>3, <3>1, <3>2, <3>3 DEF L!Leave, Peers
  <2> QED BY <1>3, <2>4 DEF L!Next
<1>5. CASE arrivals[w][at[w]] # 1
  <2>1. Left(w)' = Left(w)
    BY <1>5 DEF Left, Reached, Waits
  <2>2. /\ [v \in Workers |-> Left(v)]' = [v \in Workers |-> Left(v)]
        /\ [v \in Workers |-> Reached(v)]' = [v \in Workers |-> Reached(v)]
    BY <1>1, <1>2, <2>1
  <2> QED BY <2>2 DEF L!lockstepVars
<1> QED BY <1>4, <1>5

LEMMA ReachStep ==
  ASSUME SyncInv, NEW w \in Workers, Synchronizing, pc[w] \in {"work", "drain"},
         Arrive(w, at[w]), Waits(w)', UNCHANGED <<at, broken>>,
         \A v \in Workers \ {w} : pc'[v] = pc[v]
  PROVE  [L!Next]_(L!lockstepVars)
<1>1. at[w] \in Barriers /\ arrivals \in [Workers -> [Barriers -> Nat]] /\ ~Waits(w)
  BY DEF SyncInv, TypeInv, TypeOK, Waits
<1>2. Pos(w) = at[w] - 1
  BY DEF Pos
<1>3. \A b \in Barriers : arrivals[w][b] = IF b <= at[w] - 1 THEN 1 ELSE 0
  BY <1>2 DEF SyncInv, Trail
<1>4. /\ arrivals'[w] = [arrivals[w] EXCEPT ![at[w]] = @ + 1]
      /\ \A v \in Workers \ {w} : arrivals'[v] = arrivals[v]
  BY <1>1 DEF Arrive
<1>5. \A v \in Workers \ {w} : Reached(v)' = Reached(v) /\ Left(v)' = Left(v)
  BY <1>4, SameMapping DEF Waits
<1>6. /\ Reached(w) = {b \in Barriers : b <= at[w] - 1}
      /\ Reached(w)' = Reached(w) \cup {at[w]}
  BY <1>1, <1>3, <1>4 DEF Reached
<1>7. Left(w) = Reached(w)
  BY <1>1 DEF Left, Waits
<1>8. Left(w)' = Reached(w)
  <2>1. arrivals'[w][at[w]] = 1
    BY <1>1, <1>3, <1>4
  <2> QED BY <1>1, <1>6, <2>1 DEF Left, Waits
<1>9. L!Reach(w, at[w])
  <2>1. at[w] \notin Reached(w)
    BY <1>1, <1>6
  <2>2. \A r \in 1..(at[w] - 1) : r \in Left(w)
    BY <1>1, <1>6, <1>7
  <2>3. [v \in Workers |-> Reached(v)]' =
           [[v \in Workers |-> Reached(v)] EXCEPT ![w] = @ \cup {at[w]}]
    BY <1>5, <1>6
  <2>4. [v \in Workers |-> Left(v)]' = [v \in Workers |-> Left(v)]
    BY <1>5, <1>7, <1>8
  <2> QED BY <2>1, <2>2, <2>3, <2>4 DEF L!Reach
<1> QED BY <1>1, <1>9 DEF L!Next

LEMMA StutterStep ==
  ASSUME UNCHANGED <<arrivals, broken>>,
         \A w \in Workers : Waits(w)' = Waits(w) /\ (Waits(w) => at'[w] = at[w])
  PROVE  UNCHANGED L!lockstepVars
<1>1. \A w \in Workers : Reached(w)' = Reached(w) /\ Left(w)' = Left(w)
  BY SameMapping
<1> QED BY <1>1 DEF L!lockstepVars

LEMMA ThreadRefines ==
  ASSUME SyncInv, NEW w \in Workers, Thread(w)
  PROVE  [L!Next]_(L!lockstepVars)
<1>0. /\ UNCHANGED broken /\ TypeInv
      /\ \A v \in Workers \ {w} : pc'[v] = pc[v] /\ at'[v] = at[v]
  BY ThreadFrame DEF SyncInv
<1>a. pc \in [Workers -> Places] /\ at \in [Workers -> Barriers]
  BY <1>0 DEF TypeInv, TypeOK
<1>b. ASSUME UNCHANGED arrivals, ~Waits(w), ~Waits(w)' PROVE UNCHANGED L!lockstepVars
  BY <1>0, <1>b, StutterStep DEF Waits
<1>1. CASE MissingDbConfig(w) \/ Begin(w)
  BY <1>a, <1>b, <1>1 DEF MissingDbConfig, Begin, Waits, barrierVars
<1>2. CASE Reach(w) /\ Synchronizing
  <2>1. pc[w] = "work" /\ Arrive(w, at[w]) /\ UNCHANGED at /\ Waits(w)'
    BY <1>a, <1>2 DEF Reach, Waits
  <2> QED BY <1>0, <1>2, <2>1, ReachStep
<1>3. CASE Reach(w) /\ ~Synchronizing
  BY <1>a, <1>b, <1>3 DEF Reach, Advance, Waits
<1>4. CASE Pass(w)
  <2>1. Waits(w) /\ ~Waits(w)' /\ Released(w, at[w]) /\ UNCHANGED arrivals
    BY <1>a, <1>4 DEF Pass, Advance, Waits, barrierVars
  <2> QED BY <1>0, <2>1, LeaveStep
<1>5. CASE InnerFailure(w) \/ OuterFailure(w)
  <2>1. UNCHANGED arrivals /\ ~Waits(w)
    BY <1>5 DEF InnerFailure, OuterFailure, Waits, barrierVars
  <2>2. pc'[w] \in {"drain", "returned", "raised"}
    BY <1>a, <1>5, FailureDrains DEF StartDrain, LeaveDrain, AfterDrain
  <2> QED BY <1>b, <2>1, <2>2 DEF Waits
<1>6. CASE DrainArrive(w)
  <2>1. ~Waits(w) /\ drainer[w] \in {"inner", "outer", "tuner"}
    BY <1>6, <1>0 DEF DrainArrive, Waits, TypeInv, TypeOK, DrainHasOwner, Drainers
  <2>2. CASE broken
    <3>1. UNCHANGED arrivals /\ pc'[w] \in {"returned", "raised", "drained"}
      BY <1>a, <1>6, <2>1, <2>2 DEF DrainArrive, LeaveDrain, AfterDrain
    <3> QED BY <1>b, <2>1, <3>1 DEF Waits
  <2>3. CASE ~broken
    <3>1. Synchronizing
      BY <1>6, <2>3 DEF DrainArrive, SyncInv, Handlers, Synchronizing
    <3>2. pc[w] = "drain" /\ Arrive(w, at[w]) /\ UNCHANGED at /\ Waits(w)'
      BY <1>a, <1>6, <2>3 DEF DrainArrive, Waits
    <3> QED BY <1>0, <3>1, <3>2, ReachStep
  <2> QED BY <2>2, <2>3
<1>7. CASE DrainPass(w)
  <2>1. Waits(w) /\ Released(w, at[w]) /\ UNCHANGED arrivals
    BY <1>7 DEF DrainPass, Waits, barrierVars
  <2>2. drainer[w] \in {"inner", "outer", "tuner"}
    BY <1>0, <2>1, <1>7 DEF DrainPass, TypeInv, TypeOK, DrainHasOwner, Drainers
  <2>3. ~Waits(w)'
    BY <1>a, <1>7, <2>2 DEF DrainPass, LeaveDrain, AfterDrain, Waits
  <2> QED BY <1>0, <2>1, <2>3, LeaveStep
<1>8. CASE TunerCatches(w)
  <2>1. UNCHANGED arrivals /\ ~Waits(w) /\ pc'[w] \in {"drain", "drained"}
    BY <1>a, <1>8 DEF TunerCatches, StartDrain, LeaveDrain, AfterDrain, Waits, barrierVars
  <2> QED BY <1>b, <2>1 DEF Waits
<1>9. CASE BuildFailureResult(w) \/ HandlerRaises(w) \/ RaiseToFuture(w) \/ Swallow(w)
  BY <1>a, <1>b, <1>9 DEF BuildFailureResult, HandlerRaises, RaiseToFuture, Swallow, Waits,
              barrierVars
<1> QED
  BY <1>1, <1>2, <1>3, <1>4, <1>5, <1>6, <1>7, <1>8, <1>9 DEF Thread

LEMMA MainRefines ==
  ASSUME SyncInv, Main
  PROVE  [L!Next]_(L!lockstepVars)
<1>1. UNCHANGED <<arrivals, at>>
  BY DEF Main, Collect, CollectException, NextBatch, Finish, GenerationFails,
         barrierVars, threadVars
<1>2. \A w \in Workers : Waits(w)' = Waits(w)
  <2>1. CASE UNCHANGED pc
    BY <2>1 DEF Waits
  <2>2. CASE NextBatch
    <3>1. pc' = [w \in Workers |-> IF Batch(w) = batch + 1 THEN "start" ELSE pc[w]]
      BY <2>2 DEF NextBatch
    <3>2. batch \in Nat
      BY DEF SyncInv, TypeInv, TypeOK
    <3>3. \A w \in Workers : pc'[w] = pc[w] \/ (pc[w] = "queued" /\ pc'[w] = "start")
      BY <3>1, <3>2, BatchType DEF SyncInv, Later
    <3> QED BY <3>3 DEF Waits
  <2> QED
    BY <2>1, <2>2 DEF Main, Collect, CollectException, Finish, GenerationFails,
                      threadVars
<1>3. \A w \in Workers : Reached(w)' = Reached(w) /\ Left(w)' = Left(w)
  BY <1>1, <1>2, SameMapping
<1>4. CASE broken' = broken
  BY <1>3, <1>4 DEF L!lockstepVars
<1>5. CASE broken' = ~broken
  BY <1>3, <1>5 DEF L!Next, L!OpenOrClose
<1>6. broken' = broken \/ broken' = ~broken
  BY MainTypeInv DEF SyncInv, TypeInv, TypeOK
<1> QED BY <1>4, <1>5, <1>6

LEMMA InitRefines == Init => L!Init
<1> SUFFICES ASSUME Init PROVE L!Init
  OBVIOUS
<1>1. \A w \in Workers : Reached(w) = {} /\ Left(w) = {}
  BY DEF Init, BarrierInit, Reached, Left
<1>2. broken = FALSE
  BY DEF Init, BarrierInit
<1> QED BY <1>1, <1>2 DEF L!Init

\* The barriers, and every way a thread takes or drains them, implement the
\* lockstep specification.
THEOREM BarriersImplementLockstep == Spec /\ DrainsOnce => ImplementsLockstep
<1>1. SyncInv /\ [Next]_vars => [L!Next]_(L!lockstepVars)
  <2>1. ASSUME UNCHANGED vars PROVE UNCHANGED L!lockstepVars
    BY <2>1, StutterStep DEF vars, barrierVars, threadVars, Waits
  <2> QED BY <2>1, ThreadRefines, MainRefines DEF Next, Done
<1> QED BY <1>1, InitRefines, SpecSyncInv, PTL DEF Spec, ImplementsLockstep, L!Spec
=============================================================================
