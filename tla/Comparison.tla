----------------------------- MODULE Comparison -----------------------------
(***************************************************************************)
(* The evaluation of a tuned configuration (src/evaluation): every         *)
(* repetition measures every arm (default, tuned; or bo, default, pbt) on  *)
(* a database created for that one run, one repetition one seed, and the   *)
(* arms are compared by paired tests, the secondary endpoints under Holm.  *)
(*                                                                         *)
(* One action per step of ComparisonRunner._run_single and of the loops    *)
(* around it.  A step of Docker or PostgreSQL fails by choice, at most     *)
(* MaxFaults times; a failure of the teardown is swallowed, any other      *)
(* drops the repetition for every arm.  Metrics, scores and knob values    *)
(* are not interpreted: a run is the data and the configuration it was     *)
(* measured with.                                                          *)
(***************************************************************************)
EXTENDS Naturals, Sequences, FiniteSets, FiniteSetsExt

CONSTANTS Arms,            \* the arms in the order of the loop (sorted names)
          Untuned,         \* the arm without knobs
          NeedsRestart,    \* the arms with a restart-required knob
          Repetitions,
          MaxFaults,       \* BOUND: failures of Docker or PostgreSQL
          RemovalCanFail,  \* PGDATA may survive both ways of removing it
          ForceBaseline,   \* --force-recreate-baseline
          WarmupInputs,    \* values a caller or a session may give
          DefaultWarmup,
          PValues, Alpha   \* p-values and level, in thousandths

ASSUME ComparisonAssumption ==
    /\ Repetitions \in Nat /\ Repetitions >= 2       \* __main__.main
    /\ Arms \in Seq({Arms[i] : i \in DOMAIN Arms}) /\ Len(Arms) >= 2
    /\ Untuned \in {Arms[i] : i \in DOMAIN Arms}
    /\ MaxFaults \in Nat
    /\ RemovalCanFail \in BOOLEAN /\ ForceBaseline \in BOOLEAN
    /\ PValues \subseteq 0..1000 /\ Alpha \in 0..1000
    /\ WarmupInputs \subseteq Nat /\ DefaultWarmup \in Nat \ {0}

VARIABLES pc,          \* the next step of the runner
          rep,         \* run_number
          order,       \* order_in_pair of the current run
          data,        \* PGDATA of the evaluation's worker
          container,   \* its container exists
          baseline,    \* the run_id's baseline snapshot
          active,      \* whose knobs PostgreSQL runs with
          auto,        \* whose knobs are in postgresql.auto.conf
          repRuns,     \* the runs of this repetition, by order
          runs,        \* runs_by_arm
          failed,      \* failed_pairs, failed_reps
          resolved,    \* the effective warm-up of the evaluation
          rubric,      \* the warm-up the scoring features describe
          outcome,     \* secondary endpoint -> its p-value, or degenerate
          significant, \* the endpoints reported as significant
          faults
vars == <<pc, rep, order, data, container, baseline, active, auto, repRuns,
          runs, failed, resolved, rubric, outcome, significant, faults>>
server == <<data, container, baseline, active, auto>>
record == <<rep, order, repRuns, runs, failed>>
analysis == <<resolved, rubric, outcome, significant>>

EndpointList == <<"throughput", "latency_p99", "memory_pressure",
                  "scan_efficiency">>
Endpoints == {EndpointList[i] : i \in DOMAIN EndpointList}
ArmSet == {Arms[i] : i \in DOMAIN Arms}
None == "none"
Degenerate == 1001         \* no difference in any pair: no p-value
Partial == "partial"       \* some knob failed to apply: only warned about
RunRecord == [run_number : 1..Repetitions, pair_seed : 0..Repetitions,
              data : {"pristine", "touched"}, active : ArmSet \cup {Partial},
              warmup : Nat, penalty : BOOLEAN]
OrderOf(a) == CHOOSE k \in DOMAIN Arms : Arms[k] = a
PairKeys(rs) == [i \in DOMAIN rs |-> <<rs[i].run_number, rs[i].pair_seed>>]

TypeOK ==
    /\ pc \in {"load", "resolve", "docker", "rep", "recreate", "schema", "apply", "restart",
               "measure", "teardown", "raised_in_run", "interrupted",
               "next", "analyse", "save", "done", "raised", "exited"}
    /\ rep \in 1..Repetitions + 1 /\ order \in 1..Len(Arms) + 1
    /\ data \in {None, "pristine", "touched"} /\ container \in BOOLEAN
    /\ baseline \in {None, "pristine", "touched"}
    /\ active \in ArmSet \cup {Partial} /\ auto \in ArmSet \cup {Partial}
    /\ repRuns \in Seq(RunRecord) /\ Len(repRuns) <= Len(Arms)
    /\ runs \in [ArmSet -> Seq(RunRecord)]
    /\ failed \in 0..Repetitions /\ faults \in 0..MaxFaults
    /\ resolved \in Nat /\ rubric \in Nat
    /\ outcome \in [Endpoints -> PValues \cup {Degenerate}]
    /\ significant \subseteq Endpoints

Init ==
    /\ pc = "load" /\ rep = 1 /\ order = 1
    /\ data = None /\ container \in BOOLEAN     \* left by another evaluation
    /\ baseline = None                          \* run_id = eval_<timestamp>
    /\ active = Untuned /\ auto = Untuned
    /\ repRuns = <<>> /\ runs = [a \in ArmSet |-> <<>>]
    /\ failed = 0 /\ faults = 0
    /\ resolved = DefaultWarmup /\ rubric = DefaultWarmup
    /\ outcome = [e \in Endpoints |-> Degenerate] /\ significant = {}

Fault == faults < MaxFaults /\ faults' = faults + 1
NoFault == UNCHANGED faults
Goto(step) == pc' = step

-----------------------------------------------------------------------------
(* Loading, and the parameters of the measurement.                         *)

\* _resolve_effective_benchmark_params: the caller's value, else the
\* session's, else the default.  Zero is a value.
Effective(cli, session) ==      \* each given ({v}) or not ({})
    CASE cli # {} -> Max(cli)
      [] cli = {} /\ session # {} -> Max(session)
      [] OTHER -> DefaultWarmup

\* int(config.warmup or default): what reads the resolved value replaces zero.
OrDefault(n) == IF n = 0 THEN DefaultWarmup ELSE n
MeasuredWarmup(n) == OrDefault(n)     \* ExecutionContext of _run_single
\* Mutant: the resolved value as it is.
AsResolved(n) == n
RubricWarmup(n) == OrDefault(n)       \* resolve_evaluation_workload_features

\* load_tuning_session of the PBT session and, given one, the BO session; both
\* of one benchmark.  Anything else raises before the first run.
LoadSessions == pc = "load" /\ Goto("resolve") /\ NoFault
                /\ UNCHANGED <<record, server, analysis>>
LoadRaises == pc = "load" /\ Fault /\ Goto("raised")
              /\ UNCHANGED <<record, server, analysis>>

\* The parameters every run will use, and the rubric that describes them.
ResolveParameters ==
    /\ pc = "resolve"
    /\ \E cli, session \in {{}} \cup {{v} : v \in WarmupInputs} :
          resolved' = Effective(cli, session)
    /\ rubric' = RubricWarmup(resolved')
    /\ Goto("docker") /\ NoFault
    /\ UNCHANGED <<record, server, outcome, significant>>

\* _validate_docker_prerequisites: the image is there or can be pulled.
DockerReady == pc = "docker" /\ Goto("recreate") /\ NoFault
               /\ UNCHANGED <<record, server, analysis>>
DockerMissing == pc = "docker" /\ Fault /\ Goto("raised")
                 /\ UNCHANGED <<record, server, analysis>>

-----------------------------------------------------------------------------
(* One run: a database of its own, measured once.                          *)

Seed == rep - 1        \* pair_seed + run_number - 1, from pair_seed 0

\* setup_instances(1, force_recreate=True): the container goes or the run
\* fails; an empty PGDATA is made, unless both ways of removing the old one
\* fail; --force-recreate-baseline drops the baseline first.
RemovedBaseline == IF ForceBaseline THEN None ELSE baseline

\* Mutant: setup_instances(force_recreate=False): what is there is reused.
Reuse ==
    /\ pc = "recreate"
    /\ baseline' = RemovedBaseline /\ container' = TRUE /\ NoFault
    /\ IF container THEN UNCHANGED <<data, auto>>
       ELSE data' = None /\ auto' = Untuned
    /\ active' = auto'
    /\ Goto("schema") /\ UNCHANGED <<record, analysis>>

Recreate ==
    /\ pc = "recreate"
    /\ baseline' = RemovedBaseline
    /\ container' = TRUE
    /\ \/ /\ data' = None /\ auto' = Untuned /\ NoFault
       \/ /\ RemovalCanFail /\ data # None /\ Fault
          /\ UNCHANGED <<data, auto>>
    /\ active' = auto'
    /\ Goto("schema") /\ UNCHANGED <<record, analysis>>

\* The container cannot be removed, or the new one does not start.
RecreateFails ==
    /\ pc = "recreate" /\ Fault
    /\ baseline' = RemovedBaseline
    /\ \/ container /\ UNCHANGED <<data, container, auto>>
       \/ data' = None /\ auto' = Untuned /\ container' = FALSE
    /\ Goto("rep")               \* nothing registered: nothing torn down
    /\ UNCHANGED <<record, active, analysis>>

\* initialize_schema: reset what ALTER SYSTEM left (a failure only warns),
\* keep a schema that validates, else restore the baseline, else prepare.
\* A failed restore may have removed the container: then prepare raises.
\* The first run takes the baseline from what it has.
Restored(d, b) == IF d # None THEN d ELSE IF b # None THEN b ELSE "pristine"

InitializeSchema ==
    /\ pc = "schema"
    /\ \/ auto' = Untuned /\ active' = Untuned
             /\ data' = Restored(data, baseline) /\ NoFault
       \/ UNCHANGED <<auto, active>>                      \* reset fails
             /\ data' = Restored(data, baseline) /\ Fault
       \/ data = None /\ baseline # None                  \* restore fails
             /\ data' = "pristine" /\ auto' = Untuned /\ active' = Untuned
             /\ Fault
    /\ baseline' = IF baseline = None THEN data' ELSE baseline
    /\ Goto(IF Arms[order] = Untuned THEN "measure" ELSE "apply")
    /\ UNCHANGED <<record, container, analysis>>

\* prepare, the readiness wait or create_snapshot raises.
InitializeSchemaFails ==
    /\ pc = "schema" /\ Fault /\ Goto("raised_in_run")
    /\ data' \in {data, Restored(data, baseline)}
    /\ UNCHANGED <<record, container, baseline, active, auto, analysis>>

\* knob_applicator.apply without rollback: knobs that fail are listed in the
\* result, which nobody raises on; verify only warns.
Apply ==
    /\ pc = "apply"
    /\ \/ auto' = Arms[order] /\ NoFault
       \/ auto' = Partial /\ Fault
    /\ IF Arms[order] \in NeedsRestart
       THEN Goto("restart") /\ UNCHANGED active
       ELSE Goto("measure") /\ active' = auto'
    /\ UNCHANGED <<record, data, container, baseline, analysis>>

\* restart_instance; False raises.
Restart ==
    /\ pc = "restart"
    /\ \/ active' = auto /\ Goto("measure") /\ NoFault
       \/ UNCHANGED active /\ Goto("raised_in_run") /\ Fault
    /\ UNCHANGED <<record, data, container, baseline, auto, analysis>>

\* executor.execute: an aborted TPC-H run returns penalty metrics and counts
\* as measured; anything else that goes wrong raises.
Measure ==
    /\ pc = "measure"
    /\ data' = "touched"
    /\ \/ \E penalty \in BOOLEAN :
             /\ repRuns' = Append(repRuns,
                  [run_number |-> rep, pair_seed |-> Seed, data |-> data,
                   active |-> active, warmup |-> MeasuredWarmup(resolved),
                   penalty |-> penalty])
             /\ IF penalty THEN Fault ELSE NoFault
             /\ Goto("teardown")
       \/ UNCHANGED repRuns /\ Goto("raised_in_run") /\ Fault
    /\ UNCHANGED <<rep, order, runs, failed, container, baseline, active, auto,
                   analysis>>

\* The finally block: stop_all and cleanup, their failures swallowed.
Cleaned ==
    \/ container' = FALSE /\ data' = None /\ auto' = Untuned /\ NoFault
    \/ /\ container' \in BOOLEAN /\ Fault
       /\ \/ UNCHANGED <<data, auto>>
          \/ data' = None /\ auto' = Untuned

Teardown ==
    /\ pc \in {"teardown", "raised_in_run", "interrupted"}
    /\ Cleaned
    /\ Goto(CASE pc = "teardown" -> "next" [] pc = "raised_in_run" -> "rep"
              [] pc = "interrupted" -> "exited")
    /\ UNCHANGED <<record, baseline, active, analysis>>

\* KeyboardInterrupt is no Exception: it passes the repetition's handler.
Interrupt ==
    /\ pc \in {"recreate", "schema", "apply", "restart", "measure"} /\ Fault
    /\ Goto(IF pc = "recreate" THEN "exited" ELSE "interrupted")
    /\ UNCHANGED <<record, server, analysis>>

-----------------------------------------------------------------------------
(* The repetitions.                                                        *)

\* The next arm of the repetition.
NextArm ==
    /\ pc = "next" /\ order < Len(Arms)
    /\ order' = order + 1 /\ Goto("recreate") /\ NoFault
    /\ UNCHANGED <<rep, repRuns, runs, failed, server, analysis>>

\* After the last repetition: at least one run, the same number for all.
AfterLast(rs) ==
    IF \E a \in ArmSet : rs[a] = <<>> THEN "raised"
    ELSE IF \E a, b \in ArmSet : Len(rs[a]) # Len(rs[b]) THEN "raised"
    ELSE "analyse"
AfterRep(rs) == IF rep = Repetitions THEN AfterLast(rs) ELSE "recreate"
StartRep == rep' = rep + 1 /\ order' = 1 /\ repRuns' = <<>>

\* Every arm measured: the runs are kept, all of them.
KeepRep ==
    /\ pc = "next" /\ order = Len(Arms)
    /\ runs' = [a \in ArmSet |-> Append(runs[a], repRuns[OrderOf(a)])]
    /\ StartRep /\ Goto(AfterRep(runs')) /\ NoFault
    /\ UNCHANGED <<failed, server, analysis>>

\* Mutant: the arms that did finish keep their run.
KeepFinished ==
    /\ pc = "rep"
    /\ failed' = failed + 1
    /\ runs' = [a \in ArmSet |->
                  IF OrderOf(a) <= Len(repRuns)
                  THEN Append(runs[a], repRuns[OrderOf(a)]) ELSE runs[a]]
    /\ StartRep
    /\ Goto(IF failed' > Repetitions \div 2 THEN "raised" ELSE AfterRep(runs'))
    /\ NoFault /\ UNCHANGED <<server, analysis>>

\* An arm failed: the repetition is dropped for every arm; more than half of
\* the repetitions, and the evaluation gives up.
DropRep ==
    /\ pc = "rep"
    /\ failed' = failed + 1
    /\ StartRep
    /\ Goto(IF failed' > Repetitions \div 2 THEN "raised" ELSE AfterRep(runs))
    /\ NoFault /\ UNCHANGED <<runs, server, analysis>>

-----------------------------------------------------------------------------
(* The analysis.                                                           *)

Tested(o) == {e \in Endpoints : o[e] # Degenerate}

\* The position of an endpoint among the p-values in ascending order.
ListIndex(e) == CHOOSE i \in DOMAIN EndpointList : EndpointList[i] = e
Rank(o, e) ==
    Cardinality({f \in Tested(o) :
                   \/ o[f] < o[e]
                   \/ o[f] = o[e] /\ ListIndex(f) < ListIndex(e)})

\* Mutant: no running maximum.
WithoutMaximum(o, e) ==
    Min({1000, o[e] * (Cardinality(Tested(o)) - Rank(o, e))})

\* _holm_adjusted_pvalues: the k-th smallest of m times m - k, at most one,
\* and never below the adjusted value of a smaller one.
Adjusted(o, e) ==
    LET scaled(f) == Min({1000, o[f] * (Cardinality(Tested(o)) - Rank(o, f))})
    IN  Max({scaled(f) : f \in {g \in Tested(o) : Rank(o, g) <= Rank(o, e)}})

\* compute_comparison_statistics, of two arms: a ValueError unless their runs
\* are the same pairs (which PairsAligned excludes); endpoints without any
\* difference leave Holm's family.
Paired(a, b) == PairKeys(runs[a]) = PairKeys(runs[b])

Analyse ==
    /\ pc = "analyse" /\ \A a, b \in ArmSet : Paired(a, b)
    /\ outcome' \in [Endpoints -> PValues \cup {Degenerate}]
    /\ significant' = {e \in Tested(outcome') : Adjusted(outcome', e) < Alpha}
    /\ Goto("save") /\ NoFault
    /\ UNCHANGED <<record, server, resolved, rubric>>

\* _save_result writes the whole result at the end, or raises.
Save == pc = "save" /\ Goto("done") /\ NoFault
        /\ UNCHANGED <<record, server, analysis>>
SaveRaises == pc = "save" /\ Fault /\ Goto("raised")
              /\ UNCHANGED <<record, server, analysis>>

Next ==
    \/ LoadSessions \/ LoadRaises \/ ResolveParameters
    \/ DockerReady \/ DockerMissing
    \/ Recreate \/ RecreateFails \/ InitializeSchema \/ InitializeSchemaFails
    \/ Apply \/ Restart \/ Measure \/ Teardown \/ Interrupt
    \/ NextArm \/ KeepRep \/ DropRep
    \/ Analyse \/ Save \/ SaveRaises

\* run_multi_arm: the arms of Arms; run is the same with two.
Spec == Init /\ [][Next]_vars

-----------------------------------------------------------------------------
(* The comparison is between what it says it compares: a result has the    *)
(* same repetitions, with the same seeds, for every arm, in order, and at  *)
(* least half of those asked for - whatever failed on the way.             *)
PairsAligned ==
    /\ \A a, b \in ArmSet : PairKeys(runs[a]) = PairKeys(runs[b])
    /\ \A a \in ArmSet : \A i, j \in DOMAIN runs[a] :
          i < j => runs[a][i].run_number < runs[a][j].run_number
    /\ pc \in {"analyse", "save", "done"} =>
          \A a \in ArmSet : 2 * Len(runs[a]) >= Repetitions

(* "Every benchmark repetition starts from a clean-slate database"         *)
(* (runner.py, _build_environment): a run that is kept was measured on     *)
(* data no earlier run had touched and with no other arm's knobs, though   *)
(* teardowns fail silently, runs die half-way, and all runs share one      *)
(* container name, one data directory and one baseline.                    *)
RunsAreIsolated ==
    \A a \in ArmSet : \A i \in DOMAIN runs[a] :
       /\ runs[a][i].data = "pristine"
       /\ runs[a][i].active \in {a, Partial}
       /\ a = Untuned => runs[a][i].active = a

(* The rubric describes the workload that is measured                      *)
(* (feature_policy.py): two modules replace a zero warm-up on their own.   *)
RubricMatchesRuns ==
    \A a \in ArmSet : \A i \in DOMAIN runs[a] : runs[a][i].warmup = rubric

(* Holm's procedure is the closed test of Bonferroni tests: an endpoint is *)
(* significant just when every set of tested endpoints it belongs to has   *)
(* some p-value below alpha over the size of the set - the reason why the  *)
(* family-wise error is alpha, whatever the dependence.                    *)
HolmIsClosedTesting ==
    pc \in {"save", "done"} =>
       \A e \in Endpoints :
          e \in significant <=>
             /\ e \in Tested(outcome)
             /\ \A S \in SUBSET Tested(outcome) :
                   e \in S =>
                      \E f \in S : outcome[f] * Cardinality(S) < Alpha
=============================================================================
