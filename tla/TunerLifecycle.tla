--------------------------- MODULE TunerLifecycle ---------------------------
(***************************************************************************)
(* BaseTuner.run (src/tuners/base.py): setup, rounds, teardown, and the    *)
(* trace written after it, for the four ways a round is evaluated: a pool  *)
(* of threads (PBT, LHS), the main thread (BO), or the main thread under   *)
(* the load of co-tenant loaders that share its barriers.  The operator    *)
(* may press Ctrl-C at any moment, more than once.                         *)
(***************************************************************************)
EXTENDS Integers, FiniteSets

CONSTANTS
    Workers,       \* instances of a session; Foreground is that of BO's trials
    Foreground,
    Strategies,    \* a subset of {"pbt", "lhs", "bo", "cotenant"}
    Rounds,        \* max_rounds
    Stages,        \* barriers of one evaluation; the last is "disconnected"
    MaxSignals     \* bound on the SIGINTs

ASSUME LifecycleAssumption ==
    /\ Foreground \in Workers /\ IsFiniteSet(Workers)
    /\ Strategies \subseteq {"pbt", "lhs", "bo", "cotenant"}
    /\ Rounds \in Nat \ {0} /\ Stages \in Nat \ {0, 1} /\ MaxSignals \in Nat

VARIABLES
    strategy,
    pc,          \* where the main thread is
    exc,         \* the exception in flight, or the one run() caught
    signals,     \* SIGINTs so far
    metrics,     \* metric_config is set
    env,         \* self.env is set
    running,     \* instances whose server runs
    busy,        \* evaluations in progress, except the main thread's own
    stage,       \* the barrier each party of a co-tenant round comes to next
    waiting,     \* the parties that wait at it
    current,     \* the round being run
    history,     \* length of generation_history
    counted,     \* _rounds_completed
    best,        \* the round the best configuration is from, 0 without one
    saved,       \* the trace file
    flawed       \* stop_all failed

vars == <<strategy, pc, exc, signals, metrics, env, running, busy, stage, waiting,
          current, history, counted, best, saved, flawed>>
session == <<strategy, metrics, env>>
data    == <<history, counted, best, saved>>
lockstep == <<stage, waiting>>

Setup  == {"load", "create", "bring_up", "seed"}
InRound == {"start", "evaluating", "record", "append", "count"}
NoTrace == [state |-> "none", history |-> 0, counted |-> 0, best |-> 0]

Pooled == strategy \in {"pbt", "lhs"}
Instances == IF strategy = "bo" THEN {Foreground} ELSE Workers
Loaders == Workers \ {Foreground}

Init ==
    /\ strategy \in Strategies
    /\ pc = "load" /\ exc = "none" /\ signals = 0
    /\ metrics = FALSE /\ env = FALSE /\ running = {} /\ busy = {}
    /\ stage = [w \in Workers |-> 1] /\ waiting = {}
    /\ current = 0 /\ history = 0 /\ counted = 0 /\ best = 0
    /\ saved = NoTrace /\ flawed = FALSE
-----------------------------------------------------------------------------
\* _load_knob_space, _resolve_resources, _build_workload_and_metrics.
Load ==
    /\ pc = "load" /\ pc' = "create" /\ metrics' = TRUE
    /\ UNCHANGED <<strategy, env, exc, signals, running, busy, lockstep, current, data, flawed>>

CreateEnvironment ==
    /\ pc = "create" /\ pc' = "bring_up" /\ env' = TRUE
    /\ UNCHANGED <<strategy, metrics, exc, signals, running, busy, lockstep, current, data, flawed>>

\* setup_instances, verification, pruning; it may fail after some were started.
BringUp ==
    /\ pc = "bring_up"
    /\ \/ running' = Instances /\ pc' = "seed" /\ UNCHANGED exc
       \/ running' \in SUBSET Instances /\ pc' = "teardown" /\ exc' = "error"
    /\ UNCHANGED <<session, signals, busy, lockstep, current, data, flawed>>

\* The initial design and the optimizer, with the loaders' pool.
SeedInitialConfigs ==
    /\ pc = "seed" /\ pc' = "start"
    /\ UNCHANGED <<session, exc, signals, running, busy, lockstep, current, data, flawed>>

\* A step submits its batch, or starts the loaders of its trial.
StartRound ==
    /\ pc = "start" /\ current < Rounds
    /\ pc' = "evaluating" /\ current' = current + 1
    /\ busy' = CASE Pooled -> Workers [] strategy = "cotenant" -> Loaders [] OTHER -> {}
    /\ stage' = [w \in Workers |-> 1] /\ waiting' = {}
    /\ UNCHANGED <<session, exc, signals, running, data, flawed>>

\* A pooled evaluation ends.  PBT answers a refused connection with recover_instance,
\* which starts the server again.
EvaluationEnds(w) ==
    /\ Pooled /\ w \in busy
    /\ busy' = busy \ {w}
    /\ running' = IF strategy = "pbt" /\ w \notin running THEN running \cup {w} ELSE running
    /\ UNCHANGED <<session, pc, exc, signals, lockstep, current, data, flawed>>

\* The parties of a co-tenant round: the main thread while it evaluates, or waits at
\* the last barrier on its way out, and the loaders.
Parties == busy \cup IF pc \in {"evaluating", "disconnect"} THEN {Foreground} ELSE {}

Arrive(w) ==
    /\ strategy = "cotenant" /\ w \in Parties \ waiting
    /\ waiting' = waiting \cup {w}
    /\ UNCHANGED <<session, pc, exc, signals, running, busy, stage, current, data, flawed>>

\* The barrier is sized to all parties of the round.
Release ==
    /\ strategy = "cotenant" /\ waiting = Workers
    /\ \A v, w \in Workers : stage[v] = stage[w]
    /\ waiting' = {}
    /\ IF stage[Foreground] < Stages
       THEN /\ stage' = [w \in Workers |-> stage[w] + 1]
            /\ UNCHANGED <<pc, busy>>
       ELSE /\ busy' = {} /\ UNCHANGED stage
            /\ pc' = IF pc = "disconnect" THEN "teardown" ELSE "record"
    /\ UNCHANGED <<session, exc, signals, running, current, data, flawed>>

\* as_completed, the pool's exit; BO's own trial ends by itself.
Evaluated ==
    /\ pc = "evaluating" /\ strategy # "cotenant" /\ busy = {}
    /\ pc' = "record"
    /\ UNCHANGED <<session, exc, signals, running, busy, lockstep, current, data, flawed>>

\* The best configuration, then the history, then the number of rounds.
RecordBest ==
    /\ pc = "record" /\ pc' = "append"
    /\ best' \in {best, current}
    /\ UNCHANGED <<session, exc, signals, running, busy, lockstep, current, history, counted, saved, flawed>>

\* Mutant: the round is counted as soon as its best is known.
AppendHistory_Counts ==
    /\ pc = "append" /\ pc' = "count"
    /\ counted' = counted + 1 /\ UNCHANGED history
    /\ UNCHANGED <<session, exc, signals, running, busy, lockstep, current, best, saved, flawed>>

AppendHistory ==
    /\ pc = "append" /\ pc' = "count"
    /\ history' = history + 1
    /\ UNCHANGED <<session, exc, signals, running, busy, lockstep, current, counted, best, saved, flawed>>

\* should_stop may end the session before max_rounds.
CountRound ==
    /\ pc = "count"
    /\ counted' = counted + 1
    /\ pc' \in IF current = Rounds THEN {"teardown"} ELSE {"start", "teardown"}
    /\ UNCHANGED <<session, exc, signals, running, busy, lockstep, current, history, best, saved, flawed>>
-----------------------------------------------------------------------------
\* An exception of setup or of a step leaves run() after the teardown.  A pool, and the
\* round of the loaders, are joined first.
Raise ==
    /\ pc \in Setup \cup InRound /\ pc # "evaluating"
    /\ pc' = "teardown" /\ exc' = "error"
    /\ UNCHANGED <<session, signals, running, busy, lockstep, current, data, flawed>>

\* Converting or repairing the configuration fails before the first barrier.
ForegroundRaises ==
    /\ pc = "evaluating" /\ strategy = "cotenant"
    /\ stage[Foreground] = 1 /\ Foreground \notin waiting
    /\ pc' = "joining" /\ exc' = "error"
    /\ UNCHANGED <<session, signals, running, busy, lockstep, current, data, flawed>>

AtLastBarrier ==
    pc = "evaluating" /\ strategy = "cotenant" /\ stage[Foreground] = Stages /\ Foreground \in waiting

\* Mutant: the pool is not joined.
AfterInterrupt_Abandons ==
    IF pc = "evaluating" /\ strategy = "cotenant" THEN "disconnect" ELSE "teardown"

\* Where an interrupt sends the main thread: the exits of the pool and of
\* evaluate_worker wait; a further one abandons the wait.  The latter waits at the
\* last barrier, where it may have been already.
AfterInterrupt ==
    CASE pc = "evaluating" /\ Pooled -> "joining"
      [] pc = "disconnect" \/ AtLastBarrier -> "joining"
      [] pc = "evaluating" /\ strategy = "cotenant" /\ ~AtLastBarrier -> "disconnect"
      [] OTHER -> "teardown"

Interrupt ==
    /\ signals < MaxSignals
    /\ pc \in Setup \cup InRound \cup {"disconnect", "joining"}
    /\ signals' = signals + 1 /\ exc' = "interrupt"
    /\ pc' = AfterInterrupt
    /\ stage' = IF pc' = "disconnect" THEN [stage EXCEPT ![Foreground] = Stages] ELSE stage
    /\ waiting' = waiting \ {Foreground}
    /\ running' \in IF pc = "bring_up" THEN SUBSET Instances ELSE {running}
    /\ UNCHANGED <<session, busy, current, data, flawed>>

\* Outside run()'s try: the exception ends the program, and a trace that was being
\* written stays cut off.
InterruptAtEnd ==
    /\ signals < MaxSignals
    /\ pc \in {"teardown", "cleanup", "assemble", "write", "write_best"}
    /\ signals' = signals + 1 /\ exc' = "error"
    /\ pc' = "exit"
    /\ saved' \in IF pc = "write" THEN {saved, [saved EXCEPT !.state = "partial"]} ELSE {saved}
    /\ UNCHANGED <<session, running, busy, lockstep, current, history, counted, best, flawed>>

Joined ==
    /\ pc = "joining" /\ busy = {}
    /\ pc' = "teardown"
    /\ UNCHANGED <<session, exc, signals, running, busy, lockstep, current, data, flawed>>

\* The loaders' pool is shut down first, which waits for them.  An error of stop_all is
\* logged.
Teardown ==
    /\ pc = "teardown" /\ (strategy = "cotenant" => busy = {})
    /\ pc' = "cleanup"
    /\ \/ running' = {} /\ UNCHANGED flawed
       \/ env /\ running # {} /\ UNCHANGED running /\ flawed' = TRUE
    /\ UNCHANGED <<session, exc, signals, busy, lockstep, current, data>>

\* Mutant: the interrupt is not caught.
CleanUp_AnyException ==
    /\ pc = "cleanup"
    /\ pc' = IF exc # "none" THEN "exit" ELSE "assemble"
    /\ UNCHANGED <<session, exc, signals, running, busy, lockstep, current, data, flawed>>

\* After the teardown only a caught interrupt, or no exception, goes on.
CleanUp ==
    /\ pc = "cleanup"
    /\ pc' = IF exc = "error" THEN "exit" ELSE "assemble"
    /\ UNCHANGED <<session, exc, signals, running, busy, lockstep, current, data, flawed>>

\* build_session_payload of BO and LHS reads metric_config.
AssembleResults ==
    /\ pc = "assemble"
    /\ pc' = IF strategy = "pbt" \/ metrics THEN "write" ELSE "exit"
    /\ UNCHANGED <<session, exc, signals, running, busy, lockstep, current, data, flawed>>

WriteSession ==
    /\ pc = "write" /\ pc' = "write_best"
    /\ saved' = [state |-> "whole", history |-> history, counted |-> counted, best |-> best]
    /\ UNCHANGED <<session, exc, signals, running, busy, lockstep, current, history, counted, best, flawed>>

WriteBestConfig ==
    /\ pc = "write_best" /\ pc' = "exit"
    /\ UNCHANGED <<session, exc, signals, running, busy, lockstep, current, data, flawed>>
-----------------------------------------------------------------------------
MainSteps ==
    \/ Load \/ CreateEnvironment \/ BringUp \/ SeedInitialConfigs
    \/ StartRound \/ Evaluated \/ RecordBest \/ AppendHistory \/ CountRound
    \/ Joined \/ Teardown \/ CleanUp \/ AssembleResults \/ WriteSession \/ WriteBestConfig

Faults == Raise \/ ForegroundRaises \/ Interrupt \/ InterruptAtEnd

Next ==
    \/ MainSteps \/ Faults \/ Release
    \/ \E w \in Workers : EvaluationEnds(w) \/ Arrive(w)

Spec == Init /\ [][Next]_vars

\* The main thread and every evaluation go on; nobody has to fail or to press Ctrl-C.
FairSpec ==
    /\ Spec /\ WF_vars(MainSteps) /\ WF_vars(Release)
    /\ \A w \in Workers : WF_vars(EvaluationEnds(w)) /\ WF_vars(Arrive(w))
-----------------------------------------------------------------------------
TypeOK ==
    /\ strategy \in Strategies /\ signals \in 0 .. MaxSignals
    /\ pc \in Setup \cup InRound
              \cup {"disconnect", "joining", "teardown", "cleanup", "assemble", "write", "write_best", "exit"}
    /\ exc \in {"none", "interrupt", "error"}
    /\ metrics \in BOOLEAN /\ env \in BOOLEAN /\ flawed \in BOOLEAN
    /\ running \subseteq Workers /\ busy \subseteq Workers /\ waiting \subseteq Workers
    /\ stage \in [Workers -> 1 .. Stages]
    /\ current \in 0 .. Rounds /\ counted \in 0 .. current /\ history \in 0 .. current
    /\ best \in 0 .. current
    /\ saved \in [state : {"none", "partial", "whole"},
                  history : 0 .. current, counted : 0 .. current, best : 0 .. current]

\* When the trace is on disk, also after an interrupt, nothing evaluates and no server
\* runs: the next session has the machine to itself.  (BaseTuner.run, teardown)
SavedMeansStopped ==
    saved.state = "whole" /\ signals <= 1 /\ ~flawed => running = {} /\ busy = {}

\* A saved trace has a record of every round it counts, and at most one more; its best
\* configuration is from a recorded round, or from the one an interrupt cut short.
\* (BaseTuner.run, step, _assemble_results)
CountedIsRecorded ==
    saved.state = "whole" =>
        /\ saved.counted \in {saved.history - 1, saved.history}
        /\ saved.best <= saved.history + 1
        /\ exc = "none" => saved.best <= saved.history /\ saved.counted = saved.history

\* A trace on disk is final: what it counts is recorded, and nothing runs on.
SavedIsFinal == SavedMeansStopped /\ CountedIsRecorded

Partial == exc = "interrupt" /\ (strategy = "pbt" \/ metrics)

\* "Interrupted by user; saving partial results" (base.py:819), unless the operator does
\* not wait for it.
InterruptSaves ==
    Partial /\ strategy # "cotenant" ~> saved.state = "whole" \/ signals > 1

\* The same, under the load of co-tenants.
InterruptSavesUnderLoad ==
    Partial /\ strategy = "cotenant" ~> saved.state = "whole" \/ signals > 1
=============================================================================
