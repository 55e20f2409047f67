-------------------------- MODULE WorkerEvaluation --------------------------
(***************************************************************************)
(* One generation of evaluations: the threads that run                     *)
(* WorkloadOrchestrator.evaluate_worker under the exception handlers of    *)
(* their strategy, the barriers they share, and the main thread that       *)
(* starts them batch by batch and collects their results.                  *)
(*                                                                         *)
(* A sub-step of evaluate_worker is its work followed by the wait at the   *)
(* barrier of the same position, so sub-step b ends at barrier b.          *)
(***************************************************************************)
EXTENDS GenerationBarrier

CONSTANT Modes   \* the ways evaluations are run (see ModesAssumption)

Strategies == {"pbt", "lhs", "bo"}

\* Sub-step 0 is the db_config check that precedes the try block.
MissingConfig == 0

(* strategy: whose handlers surround evaluate_worker; manages_own_connection:
   the executor's class attribute, TRUE for sysbench and tpch; synchronize:
   --sync-workers (always, for a BO trial with co-tenants); faults: the
   sub-steps whose work may raise.                                          *)
ASSUME ModesAssumption ==
    Modes \subseteq [strategy : Strategies, manages_own_connection : BOOLEAN,
                     synchronize : BOOLEAN, faults : SUBSET (MissingConfig..16)]

VARIABLES mode,        \* one of Modes, fixed for the behaviour
          pc,          \* pc[w]: where thread w is
          at,          \* at[w]: the sub-step, or the barrier of a drain
          last,        \* last[w]: last_completed_barrier, 0 for None
          drainer,     \* drainer[w]: the handler whose drain_remaining runs
          result,      \* result[w]: what the thread returns or has returned
          batch,       \* the batch whose threads run
          collected,   \* the workers whose future.result() was read
          main         \* the thread in evaluate_generation

threadVars == <<pc, at, last, drainer, result>>
mainVars == <<batch, collected, main>>
vars == <<barrierVars, mode, threadVars, mainVars>>

Places == {"queued", "start", "work", "wait", "drain", "drainwait",
           "raised", "drained", "returned", "threw"}
Drainers == {"none", "inner", "outer", "tuner"}
Results == {"none", "measured", "crash", "failure"}

TypeOK ==
    /\ mode \in Modes
    /\ arrivals \in [Workers -> [Barriers -> Nat]]
    /\ broken \in BOOLEAN
    /\ pc \in [Workers -> Places]
    /\ at \in [Workers -> Barriers]
    /\ last \in [Workers -> NoBarrier..disconnected]
    /\ drainer \in [Workers -> Drainers]
    /\ result \in [Workers -> Results]
    /\ batch \in Nat
    /\ collected \subseteq Workers
    /\ main \in {"collecting", "raising", "evaluated", "failed"}
-----------------------------------------------------------------------------
\* GenerationBarrier(enabled=...): a sequential run gets a disabled set.
Enabled == mode.synchronize /\ MaxWorkers > 1
Synchronizing == Enabled /\ ~broken

Running(w) == pc[w] \notin {"queued", "returned", "threw"}
Ended(w) == pc[w] \in {"returned", "threw"}
Blocked(w) == pc[w] \in {"wait", "drainwait"} /\ ~Released(w, at[w])

Init ==
    /\ BarrierInit
    /\ mode \in Modes
    /\ pc = [w \in Workers |-> IF Batch(w) = 0 THEN "start" ELSE "queued"]
    /\ at = [w \in Workers |-> connected]
    /\ last = [w \in Workers |-> NoBarrier]
    /\ drainer = [w \in Workers |-> "none"]
    /\ result = [w \in Workers |-> "none"]
    /\ batch = 0
    /\ collected = {}
    /\ main = "collecting"
-----------------------------------------------------------------------------
(* evaluate_worker without a failure.                                       *)

\* `if not worker.db_config: raise ValueError`, before the try block.
MissingDbConfig(w) ==
    /\ pc[w] = "start"
    /\ MissingConfig \in mode.faults
    /\ pc' = [pc EXCEPT ![w] = "raised"]
    /\ UNCHANGED <<barrierVars, mode, at, last, drainer, result, mainVars>>

Begin(w) ==
    /\ pc[w] = "start"
    /\ pc' = [pc EXCEPT ![w] = "work"]
    /\ at' = [at EXCEPT ![w] = connected]
    /\ last' = [last EXCEPT ![w] = NoBarrier]
    /\ UNCHANGED <<barrierVars, mode, drainer, result, mainVars>>

\* What follows the return of _barrier(at[w]).  The internal executor calls
\* the barrier "warmup_done" back from inside _run_workload, so
\* last_completed_barrier does not move until the measurement is over.
Advance(w) ==
    /\ last' = [last EXCEPT ![w] =
                   IF at[w] = warmup_done /\ ~mode.manages_own_connection
                   THEN @ ELSE at[w]]
    /\ IF at[w] = disconnected
       THEN /\ pc' = [pc EXCEPT ![w] = "returned"]
            /\ result' = [result EXCEPT ![w] = "measured"]
            /\ UNCHANGED at
       ELSE /\ pc' = [pc EXCEPT ![w] = "work"]
            /\ at' = [at EXCEPT ![w] = @ + 1]
            /\ UNCHANGED result
    /\ UNCHANGED drainer

Reach_Ungated(w) ==
    /\ pc[w] = "work"
    /\ IF Synchronizing /\ ~(mode.manages_own_connection /\ at[w] = warmup_done)
       THEN /\ Arrive(w, at[w])
            /\ pc' = [pc EXCEPT ![w] = "wait"]
            /\ UNCHANGED <<at, last, drainer, result>>
       ELSE Advance(w) /\ UNCHANGED arrivals
    /\ UNCHANGED <<broken, mode, mainVars>>

\* The work of the sub-step is done and the thread calls wait(), which is a
\* no-op when the set is disabled or broken.
Reach(w) ==
    /\ pc[w] = "work"
    /\ IF Synchronizing
       THEN /\ Arrive(w, at[w])
            /\ pc' = [pc EXCEPT ![w] = "wait"]
            /\ UNCHANGED <<at, last, drainer, result>>
       ELSE Advance(w) /\ UNCHANGED arrivals
    /\ UNCHANGED <<broken, mode, mainVars>>

\* barrier.wait() returns, or raises a BrokenBarrierError that wait() absorbs.
Pass(w) ==
    /\ pc[w] = "wait"
    /\ Released(w, at[w])
    /\ Advance(w)
    /\ UNCHANGED <<barrierVars, mode, mainVars>>
-----------------------------------------------------------------------------
(* drain_remaining(start_from): the failed thread takes part in every       *)
(* barrier from start_from on, one after the other, and only then goes on.  *)

AfterDrain(who) == CASE who = "inner" -> "returned"
                     [] who = "outer" -> "raised"
                     [] who = "tuner" -> "drained"

LeaveDrain(w, who) ==
    /\ pc' = [pc EXCEPT ![w] = AfterDrain(who)]
    /\ drainer' = [drainer EXCEPT ![w] = "none"]
    /\ UNCHANGED at

StartDrain(w, start_from, who) ==
    IF Synchronizing
    THEN /\ pc' = [pc EXCEPT ![w] = "drain"]
         /\ drainer' = [drainer EXCEPT ![w] = who]
         /\ at' = [at EXCEPT ![w] = start_from]
    ELSE LeaveDrain(w, who)

\* The head of the loop over the remaining barriers.
DrainArrive(w) ==
    /\ pc[w] = "drain"
    /\ IF broken
       THEN LeaveDrain(w, drainer[w]) /\ UNCHANGED arrivals
       ELSE /\ Arrive(w, at[w])
            /\ pc' = [pc EXCEPT ![w] = "drainwait"]
            /\ UNCHANGED <<at, drainer>>
    /\ UNCHANGED <<broken, mode, last, result, mainVars>>

DrainPass_NoWait(w) ==
    /\ pc[w] = "drainwait"
    /\ IF broken \/ at[w] = disconnected
       THEN LeaveDrain(w, drainer[w])
       ELSE /\ pc' = [pc EXCEPT ![w] = "drain"]
            /\ at' = [at EXCEPT ![w] = @ + 1]
            /\ UNCHANGED drainer
    /\ UNCHANGED <<barrierVars, mode, last, result, mainVars>>

DrainPass(w) ==
    /\ pc[w] = "drainwait"
    /\ Released(w, at[w])
    /\ IF broken \/ at[w] = disconnected
       THEN LeaveDrain(w, drainer[w])
       ELSE /\ pc' = [pc EXCEPT ![w] = "drain"]
            /\ at' = [at EXCEPT ![w] = @ + 1]
            /\ UNCHANGED drainer
    /\ UNCHANGED <<barrierVars, mode, last, result, mainVars>>
-----------------------------------------------------------------------------
(* Failures.                                                                *)

InnerSteps == pre_stats_captured..io_computed

\* The barrier drain_remaining starts from.
DrainFrom_Completed(w) == IF last[w] = NoBarrier THEN connected ELSE last[w]
DrainFrom(w) == IF last[w] = NoBarrier THEN connected ELSE next_barrier_name(last[w])

InnerFailure_Undrained(w) ==
    /\ pc[w] = "work"
    /\ at[w] \in InnerSteps \cap mode.faults
    /\ result' = [result EXCEPT ![w] = "crash"]
    /\ last' = [last EXCEPT ![w] = NoBarrier]
    /\ LeaveDrain(w, "inner")
    /\ UNCHANGED <<barrierVars, mode, mainVars>>

\* The handler around the workload: EXECUTION_CRASH metrics, drain, return.
InnerFailure(w) ==
    /\ pc[w] = "work"
    /\ at[w] \in InnerSteps \cap mode.faults
    /\ result' = [result EXCEPT ![w] = "crash"]
    /\ last' = [last EXCEPT ![w] = NoBarrier]
    /\ StartDrain(w, DrainFrom(w), "inner")
    /\ UNCHANGED <<barrierVars, mode, mainVars>>

\* The top-level safety net: drain, raise again.
OuterFailure(w) ==
    /\ pc[w] = "work"
    /\ at[w] \in mode.faults \ InnerSteps
    /\ last' = [last EXCEPT ![w] = NoBarrier]
    /\ StartDrain(w, DrainFrom(w), "outer")
    /\ UNCHANGED <<barrierVars, mode, result, mainVars>>

\* PBTTuner.evaluate_worker: whatever was raised, drain from "connected" ...
TunerCatches(w) ==
    /\ pc[w] = "raised"
    /\ mode.strategy = "pbt"
    /\ StartDrain(w, connected, "tuner")
    /\ UNCHANGED <<barrierVars, mode, last, result, mainVars>>

\* ... and return the fallback metrics and score ...
BuildFailureResult(w) ==
    /\ pc[w] = "drained"
    /\ pc' = [pc EXCEPT ![w] = "returned"]
    /\ result' = [result EXCEPT ![w] = "failure"]
    /\ UNCHANGED <<barrierVars, mode, at, last, drainer, mainVars>>

\* ... unless the handler itself raises: _attempt_recovery catches only
\* ConnectionError, RuntimeError and OSError of recover_instance.
HandlerRaises(w) ==
    /\ pc[w] = "drained"
    /\ pc' = [pc EXCEPT ![w] = "threw"]
    /\ UNCHANGED <<barrierVars, mode, at, last, drainer, result, mainVars>>

\* LHSTuner._evaluate_batch_parallel has no handler inside the thread.
RaiseToFuture(w) ==
    /\ pc[w] = "raised"
    /\ mode.strategy = "lhs"
    /\ pc' = [pc EXCEPT ![w] = "threw"]
    /\ UNCHANGED <<barrierVars, mode, at, last, drainer, result, mainVars>>

\* _run_one_background swallows it; BO's foreground step records CRASHED.
Swallow(w) ==
    /\ pc[w] = "raised"
    /\ mode.strategy = "bo"
    /\ pc' = [pc EXCEPT ![w] = "returned"]
    /\ result' = [result EXCEPT ![w] = "failure"]
    /\ UNCHANGED <<barrierVars, mode, at, last, drainer, mainVars>>

Thread(w) ==
    \/ MissingDbConfig(w) \/ Begin(w) \/ Reach(w) \/ Pass(w)
    \/ InnerFailure(w) \/ OuterFailure(w) \/ DrainArrive(w) \/ DrainPass(w)
    \/ TunerCatches(w) \/ BuildFailureResult(w) \/ HandlerRaises(w)
    \/ RaiseToFuture(w) \/ Swallow(w)
-----------------------------------------------------------------------------
(* The main thread: as_completed, then the end of the `with` block, which   *)
(* joins the threads of the batch.                                          *)

BatchWorkers == {w \in Workers : Batch(w) = batch}

Collect(w) ==
    /\ main = "collecting"
    /\ pc[w] = "returned"
    /\ w \notin collected
    /\ collected' = collected \cup {w}
    /\ UNCHANGED <<barrierVars, mode, threadVars, batch, main>>

CollectException_Ignored(w) ==
    /\ main = "collecting"
    /\ pc[w] = "threw"
    /\ w \notin collected
    /\ collected' = collected \cup {w}
    /\ UNCHANGED <<barrierVars, mode, threadVars, batch, main>>

\* future.result() raises.  Population aborts the barriers and re-raises; LHS
\* would record the failure, but only of a GenerationEvaluationError, which
\* nothing raises, so there the exception leaves without an abort.
CollectException(w) ==
    /\ main = "collecting"
    /\ pc[w] = "threw"
    /\ main' = "raising"
    /\ IF mode.strategy = "pbt" THEN Abort(Enabled) ELSE UNCHANGED broken
    /\ UNCHANGED <<arrivals, mode, threadVars, batch, collected>>

\* The next batch gets a barrier set of its own.
NextBatch ==
    /\ main = "collecting"
    /\ BatchWorkers \subseteq collected
    /\ batch < LastBatch
    /\ batch' = batch + 1
    /\ broken' = FALSE
    /\ pc' = [w \in Workers |-> IF Batch(w) = batch + 1 THEN "start" ELSE pc[w]]
    /\ UNCHANGED <<arrivals, mode, at, last, drainer, result, collected, main>>

Finish ==
    /\ main = "collecting"
    /\ BatchWorkers \subseteq collected
    /\ batch = LastBatch
    /\ main' = "evaluated"
    /\ UNCHANGED <<barrierVars, mode, threadVars, batch, collected>>

GenerationFails ==
    /\ main = "raising"
    /\ \A w \in BatchWorkers : Ended(w)
    /\ main' = "failed"
    /\ UNCHANGED <<barrierVars, mode, threadVars, batch, collected>>

Main ==
    \/ \E w \in Workers : Collect(w) \/ CollectException(w)
    \/ NextBatch \/ Finish \/ GenerationFails

Over == main \in {"evaluated", "failed"}
Done == Over /\ UNCHANGED vars

Next == (\E w \in Workers : Thread(w)) \/ Main \/ Done

Spec == Init /\ [][Next]_vars

\* Every sub-step returns or raises after a while, and the scheduler is fair.
FairSpec == Spec /\ (\A w \in Workers : WF_vars(Thread(w))) /\ WF_vars(Main)
-----------------------------------------------------------------------------
(* Properties.                                                              *)

\* No thread of a batch enters a barrier before every peer entered the one
\* before it: the lockstep of the B1-B17 path, failed threads included.
LockstepOrder ==
    \A w \in Workers : \A v \in Peers(w) : \A b \in connected..score_computed :
        arrivals[w][b + 1] > 0 => arrivals[v][b] > 0

\* While one thread measures, every peer that has not failed measures too, or
\* stands at an end of the measurement window: nobody measures next to a peer
\* that still restarts, warms up or already collects its statistics.
Measuring(w) == pc[w] = "work" /\ at[w] = measurement_done
AtWindow(w) ==
    \/ Measuring(w)
    \/ pc[w] = "wait" /\ at[w] \in {warmup_done, measurement_done}
MeasurementOverlap ==
    Synchronizing =>
        \A w \in Workers : Measuring(w) =>
            \A v \in Peers(w) :
                pc[v] \in {"start", "work", "wait"} \/ result[v] = "measured"
                    => AtWindow(v)

\* A thread never waits for one that will not come: whoever has ended its
\* evaluation has entered the barrier as often as the thread that waits there.
NoStrandedWaiter ==
    \A w \in Workers : Blocked(w) =>
        \A v \in Missing(w, at[w]) : ~Ended(v)

\* A generation that ends normally has read the result of every worker of
\* every batch, failed evaluations included.
ResultsComplete ==
    main = "evaluated" =>
        /\ collected = Workers
        /\ \A w \in Workers : result[w] # "none"

\* The batches never overlap: threads of at most one batch run at a time.
BatchesDisjoint ==
    \A v, w \in Workers : Running(v) /\ Running(w) => Batch(v) = Batch(w)

\* Every generation ends: it is evaluated, or it fails with an exception.
Termination == <>Over

\* The barriers implement the lockstep specification.
Reached(w) == {b \in Barriers : arrivals[w][b] > 0}
Left(w) == {b \in Reached(w) :
               ~(pc[w] \in {"wait", "drainwait"} /\ at[w] = b /\ arrivals[w][b] = 1)}
L == INSTANCE Lockstep WITH Threads <- Workers, Team <- [w \in Workers |-> Batch(w)],
         Steps <- disconnected, reached <- [w \in Workers |-> Reached(w)],
         left <- [w \in Workers |-> Left(w)], open <- broken
ImplementsLockstep == L!Spec
=============================================================================
