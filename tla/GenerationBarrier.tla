-------------------------- MODULE GenerationBarrier --------------------------
(***************************************************************************)
(* GenerationBarrier (src/tuners/engine/barriers.py): one cyclic           *)
(* threading.Barrier per sub-step of an evaluation, shared by the threads  *)
(* of one batch, and a flag that turns the whole set into a no-op.         *)
(*                                                                         *)
(* threading.Barrier is cyclic: the n-th time a thread enters a barrier it *)
(* is let out when all parties have entered it n times, because a thread   *)
(* cannot enter an (n+1)-th time before it left the n-th.  The barriers    *)
(* are therefore counted, per thread and per name, in "arrivals".          *)
(* A fresh set is built for each batch and batches are disjoint, so one    *)
(* matrix and one "broken" flag serve the batches one after the other.     *)
(***************************************************************************)
EXTENDS Integers

CONSTANTS PopulationSize,   \* len(self.workers)
          MaxWorkers          \* threads that run at once

ASSUME SizesAssumption ==
    /\ PopulationSize \in Nat \ {0}
    /\ MaxWorkers \in Nat \ {0}

VARIABLES arrivals,   \* arrivals[w][b]: how often thread w entered barrier b
          broken        \* GenerationBarrier._broken of the running batch

barrierVars == <<arrivals, broken>>
-----------------------------------------------------------------------------
Workers == 1..PopulationSize

\* self.workers is chunked into batches of max_workers consecutive workers.
Batch(w) == (w - 1) \div MaxWorkers
LastBatch == Batch(PopulationSize)
Peers(w) == {v \in Workers : Batch(v) = Batch(w)}

\* BARRIER_NAMES, by position.  B1 .. B17 of the source.
Barriers == 1..17
connected == 1
config_applied == 2
restarted == 3
reconnected == 4
config_verified == 5
pre_stats_captured == 6
benchmark_ready == 7
warmup_done == 8
measurement_done == 9
post_stats_captured == 10
io_computed == 11
system_metrics_collected == 12
memory_pressure_computed == 13
reliability_gated == 14
vacuum_done == 15
score_computed == 16
disconnected == 17

next_barrier_name(b) == b + 1

\* The 0 of "no barrier completed yet".
NoBarrier == 0
-----------------------------------------------------------------------------
BarrierInit ==
    /\ arrivals = [w \in Workers |-> [b \in Barriers |-> 0]]
    /\ broken = FALSE

\* Thread w enters barrier b ...
Arrive(w, b) == arrivals' = [arrivals EXCEPT ![w][b] = @ + 1]

\* ... and is let out when its whole batch has entered b as often as it has,
\* or when the barriers were aborted.
Missing(w, b) == {v \in Peers(w) : arrivals[v][b] < arrivals[w][b]}
Released(w, b) == broken \/ Missing(w, b) = {}

\* abort(): every waiter is let out and every later wait is a no-op.
Abort(enabled) == broken' = (broken \/ enabled)
=============================================================================
