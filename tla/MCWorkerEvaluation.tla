------------------------- MODULE MCWorkerEvaluation -------------------------
(* The ways evaluations are run that TLC goes through.                      *)
EXTENDS WorkerEvaluation

Inner == {pre_stats_captured, benchmark_ready, warmup_done, post_stats_captured, io_computed}
Outer == {connected, config_applied, restarted, reconnected, config_verified,
          system_metrics_collected, vacuum_done, score_computed}

\* Every failure whose thread drains each barrier exactly once.
DrainedFaults(strategy, own) ==
    (IF strategy = "pbt" THEN {MissingConfig} ELSE Outer)
        \cup (IF own THEN (Inner \ {warmup_done}) \cup {measurement_done} ELSE Inner)

EveryMode ==
    {[strategy |-> s, manages_own_connection |-> o, synchronize |-> y,
      faults |-> DrainedFaults(s, o)] : s \in Strategies, o \in BOOLEAN, y \in BOOLEAN}

\* The co-tenants of a BO trial always share its barriers.
AllModes == {m \in EveryMode : m.strategy = "bo" => m.synchronize}

\* connect() raises in one of the threads of a PBT batch.
ConnectionLost ==
    {[strategy |-> "pbt", manages_own_connection |-> TRUE, synchronize |-> TRUE,
      faults |-> {connected}]}
=============================================================================
