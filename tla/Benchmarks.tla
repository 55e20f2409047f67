----------------------------- MODULE Benchmarks -----------------------------
(***************************************************************************)
(* The benchmark drivers: how the data of a workload gets into a worker's  *)
(* database (prepare), when it is taken for ready (validate,               *)
(* ensure_benchmark_ready), what a run of each driver counts, and what the *)
(* reliability gate makes of it.                                           *)
(*                                                                         *)
(* Sysbench and TPC-H are external drivers, the template driver runs the   *)
(* queries of a workload file on threads of its own.  The flat files of    *)
(* dbgen are in one directory per checkout, shared by the workers; each    *)
(* worker has a database of its own, which outlives the session.  A table  *)
(* is the size it was loaded for and whether all its rows are there.       *)
(* tally remembers what succeeded, whatever the metrics say.               *)
(***************************************************************************)
EXTENDS Integers, Sequences, FiniteSets, SequencesExt, FiniteSetsExt, TLC

CONSTANTS BenchWorkers, Profiles,
          TpchTables,     \* TABLES_LOAD_ORDER
          Queries,        \* number of TPC-H queries
          WarmupPasses,   \* warmup_passes
          RunLength,      \* BOUND: queries of a thread, transactions of a sysbench phase
          Sessions,       \* BOUND: sessions on the same databases
          MaxFaults       \* BOUND: failures over all sessions

ASSUME ProfileAssumption ==
    \A p \in Profiles : /\ p.kind \in {"sysbench", "tpch", "template"}
                        /\ p.tables \in Nat /\ p.threads \in Nat \ {0}
                        /\ p.restores \in BOOLEAN

ASSUME TpchAssumption ==
    /\ Queries \in Nat \ {0} /\ WarmupPasses \in Nat /\ RunLength \in Nat
    /\ TpchTables \in Seq(STRING \X {0}) /\ IsInjective(TpchTables)
    /\ \A i \in 1 .. Len(TpchTables) : TpchTables[i][1] \notin {"sbtest", "_tpch_metadata"}

VARIABLES profile,   \* the executor of the session
          sessions,  \* sessions started
          tables,    \* per worker: the public tables, by name
          flat,      \* DBGEN_SRC_DIR: the .tbl files
          markers,   \* DBGEN_SRC_DIR: scale factors with a .generated_sf file
          pc,        \* per worker: where prepare or the evaluation is
          evaluates, \* per worker: in evaluate_worker, not in the set-up
          k,         \* per worker: index of the loop it is in
          thread,    \* per worker and thread of the template driver
          queue,     \* per worker: the sums of what its threads have put in results_queue
          dirty,     \* per worker: rows changed since the last VACUUM ANALYZE
          tally,     \* history variable: what succeeded in warm-up and measurement
          metrics,   \* per worker: metrics of the last evaluation
          counted,   \* per worker: what pg_stat_database counted since the evaluation began
          before,    \* per worker: stats_before, NoStats when None
          io,        \* per worker: what the I/O metrics report, NoStats when nothing
          faults

data == <<tables, flat, markers>>
control == <<pc, evaluates, k>>
stats == <<counted, before, io>>
pool == <<thread, queue>>
running == <<pool, dirty, tally, metrics>>
benchVars == <<profile, sessions, data, control, running, stats, faults>>

\* load_from_file: a file without a schema section is for one table of 100 000 rows, and
\* one without queries is refused.
DefaultSize == 1
Loaded(file) ==
    [kind |-> "template", threads |-> file.threads, restores |-> file.restores,
     tables |-> IF file.schema = {} THEN 1 ELSE Max(file.schema), size |-> DefaultSize]

NoTables == <<>>
Sbtest(n) == {<<"sbtest", i>> : i \in 1 .. n}
Metadata == <<"_tpch_metadata", 0>>
Whole(size) == [size |-> size, whole |-> TRUE]
Empty == [size |-> 0, whole |-> FALSE]
\* CREATE TABLE of each of names.
Created(w, names) ==
    [tables EXCEPT ![w] = [t \in DOMAIN @ \cup names |-> IF t \in names THEN Empty ELSE @[t]]]
NewThread == [at |-> "off", failed |-> 0, total |-> 0]
NoThreads == [t \in 1 .. profile.threads |-> NewThread]
NothingPut == [total |-> 0, failed |-> 0]
NoTally == [warm |-> 0, ok |-> 0]
ManagesOwnConnection == profile.kind # "template"

Metrics(total, failed, failure) == [total |-> total, failed |-> failed, failure |-> failure]
NoStats == -1
NoMetrics == Metrics(0, 0, "none")
ExecutionCrash == Metrics(0, 0, "EXECUTION_CRASH")
\* The penalty metrics of TPC-H: throughput 0, error rate 100.
Penalty(failure) == Metrics(0, Queries, failure)

BenchInit ==
    /\ profile \in Profiles /\ sessions = 1
    /\ tables = [w \in BenchWorkers |-> NoTables] /\ flat = NoTables /\ markers = {}
    /\ pc = [w \in BenchWorkers |-> "setup"] /\ evaluates = [w \in BenchWorkers |-> FALSE]
    /\ k = [w \in BenchWorkers |-> 1]
    /\ thread = [w \in BenchWorkers |-> NoThreads]
    /\ queue = [w \in BenchWorkers |-> NothingPut] /\ dirty = [w \in BenchWorkers |-> FALSE]
    /\ tally = [w \in BenchWorkers |-> NoTally] /\ metrics = [w \in BenchWorkers |-> NoMetrics]
    /\ counted = [w \in BenchWorkers |-> 0] /\ before = [w \in BenchWorkers |-> NoStats]
    /\ io = [w \in BenchWorkers |-> NoStats] /\ faults = 0

Goto(w, label) == pc' = [pc EXCEPT ![w] = label]
SetIndex(w, n) == k' = [k EXCEPT ![w] = n]
Fault == faults < MaxFaults /\ faults' = faults + 1
Table(i) == TpchTables[i]

\* An exception in prepare or execute: the evaluation ends with EXECUTION_CRASH, which
\* skips the gate and the maintenance; in initialize_schema it ends the session.
Raise(w) ==
    /\ Goto(w, IF evaluates[w] THEN "idle" ELSE "failed")
    /\ metrics' = [metrics EXCEPT ![w] = ExecutionCrash]
    /\ thread' = [thread EXCEPT ![w] = NoThreads] /\ queue' = [queue EXCEPT ![w] = NothingPut]
    /\ UNCHANGED <<evaluates, k>>
-----------------------------------------------------------------------------
(* validate.                                                               *)

\* A sysbench table counts as full within 10 % of its size: only the first is counted.
SysbenchValid(w) ==
    /\ {t \in DOMAIN tables[w] : t[1] = "sbtest"} = Sbtest(profile.tables)
    /\ tables[w][<<"sbtest", 1>>] = Whole(profile.size)

TpchValid(w) ==
    /\ Metadata \in DOMAIN tables[w] /\ tables[w][Metadata] = Whole(profile.size)
    /\ \A i \in 1 .. Len(TpchTables) : Table(i) \in DOMAIN tables[w]

TemplateValid(w) ==
    Cardinality({t \in DOMAIN tables[w] : t[1] = "sbtest"}) >= profile.tables

Valid(w) == CASE profile.kind = "sysbench" -> SysbenchValid(w)
              [] profile.kind = "tpch"     -> TpchValid(w)
              [] profile.kind = "template" -> TemplateValid(w)

\* initialize_schema, when there is no snapshot to restore.
InitializeSchema(w) ==
    /\ pc[w] = "setup"
    /\ evaluates' = [evaluates EXCEPT ![w] = FALSE] /\ SetIndex(w, 1)
    /\ IF Valid(w) THEN Goto(w, "idle")
       ELSE Goto(w, IF profile.kind = "tpch" THEN "dbgen" ELSE "drop")
    /\ UNCHANGED <<profile, sessions, stats, data, running, faults>>

\* ensure_benchmark_ready: three attempts, each of which may lose its connection.
EnsureReady(w) ==
    /\ pc[w] = "validating"
    /\ \/ /\ Valid(w) /\ Goto(w, "run") /\ SetIndex(w, 1)
          /\ UNCHANGED <<evaluates, faults>>
       \/ /\ IF Valid(w) THEN Fault ELSE UNCHANGED faults
          /\ IF k[w] < 3 THEN SetIndex(w, k[w] + 1) /\ UNCHANGED <<pc, evaluates>>
             ELSE /\ SetIndex(w, 1) /\ UNCHANGED evaluates
                  /\ Goto(w, IF profile.kind = "tpch" THEN "dbgen" ELSE "drop")
    /\ UNCHANGED <<profile, sessions, stats, data, running>>

\* Where prepare returns to: validated again by ensure_benchmark_ready only.
Prepared(w) ==
    /\ SetIndex(w, 1) /\ UNCHANGED evaluates
    /\ Goto(w, IF evaluates[w] THEN "revalidate" ELSE "idle")
    /\ dirty' = [dirty EXCEPT ![w] = FALSE]
    /\ counted' = [counted EXCEPT ![w] = IF evaluates[w] THEN @ + 1 ELSE @]
    /\ UNCHANGED <<metrics, pool, before, io>>

Revalidate(w) ==
    /\ pc[w] = "revalidate"
    /\ IF Valid(w) THEN Goto(w, "run") /\ UNCHANGED <<evaluates, k, metrics, pool>>
       ELSE Raise(w)
    /\ UNCHANGED <<profile, sessions, stats, data, dirty, tally, faults>>
-----------------------------------------------------------------------------
(* prepare: sysbench and the template driver.                              *)

\* _drop_existing_public_tables, then `sysbench cleanup`; the template driver runs the
\* latter alone.
DropTables(w) ==
    LET kept == IF profile.kind = "template" THEN DOMAIN tables[w] \ Sbtest(profile.tables)
                ELSE {}
    IN  /\ pc[w] = "drop"
        /\ tables' = [tables EXCEPT ![w] = [t \in kept |-> @[t]]]
        /\ Goto(w, IF profile.kind = "tpch" THEN "schema" ELSE "create") /\ SetIndex(w, 1)
        /\ UNCHANGED <<profile, sessions, stats, flat, markers, evaluates, running, faults>>

\* `sysbench prepare`, table by table.
SysbenchCreate(w) ==
    /\ pc[w] = "create"
    /\ tables' = Created(w, {<<"sbtest", k[w]>>})
    /\ Goto(w, "fill")
    /\ UNCHANGED <<profile, sessions, stats, flat, markers, evaluates, k, running, faults>>

SysbenchFill(w) ==
    /\ pc[w] = "fill"
    /\ tables' = [tables EXCEPT ![w][<<"sbtest", k[w]>>] = Whole(profile.size)]
    /\ Goto(w, IF k[w] < profile.tables THEN "create" ELSE "vacuum") /\ SetIndex(w, k[w] + 1)
    /\ UNCHANGED <<profile, sessions, stats, flat, markers, evaluates, running, faults>>

\* check=True: sysbench prepare fails where it was.
SysbenchPrepareFails(w) ==
    /\ pc[w] \in {"create", "fill"} /\ Fault /\ Raise(w)
    /\ UNCHANGED <<profile, sessions, stats, data, dirty, tally>>

\* VACUUM ANALYZE of every table; its failure is logged.
PostVacuum(w) ==
    /\ pc[w] = "vacuum" /\ Prepared(w)
    /\ UNCHANGED <<profile, sessions, data, tally, faults>>
-----------------------------------------------------------------------------
(* prepare: TPC-H.                                                         *)

\* remove_generated_data
RemoveGeneratedData == flat' = NoTables /\ markers' = {}

\* The finally of prepare: the files go when they were not removed before, if they can.
TpchPrepareFails(w) ==
    /\ pc[w] \in {"drop", "schema", "copy", "indexes", "stamp", "insert"}
    /\ profile.kind = "tpch" /\ Fault /\ Raise(w)
    /\ \/ pc[w] \in {"drop", "schema", "copy"} /\ RemoveGeneratedData
       \/ UNCHANGED <<flat, markers>>
    /\ UNCHANGED <<profile, sessions, stats, tables, dirty, tally>>

\* find_or_build_dbgen: the local binary, the one in PATH, or one compiled from a clone
\* of the sources, which may fail.
FindDbgen(w) ==
    /\ pc[w] = "dbgen"
    /\ \/ /\ Goto(w, "generate") /\ UNCHANGED <<evaluates, k, metrics, pool, faults>>
       \/ Fault /\ Raise(w)
    /\ UNCHANGED <<profile, sessions, stats, data, dirty, tally>>

\* generate_data: nothing to do when the marker of this scale factor exists; otherwise
\* old files and markers go and dbgen writes all tables.
GenerateData(w) ==
    /\ pc[w] = "generate"
    /\ IF profile.size \in markers
       THEN Goto(w, "drop") /\ UNCHANGED <<flat, markers>>
       ELSE Goto(w, "write") /\ flat' = NoTables /\ markers' = {}
    /\ SetIndex(w, 1)
    /\ UNCHANGED <<profile, sessions, stats, tables, evaluates, running, faults>>

\* dbgen opens the file of table k, and closes it when all its rows are written.
DbgenOpen(w) ==
    /\ pc[w] = "write" /\ k[w] <= Len(TpchTables)
    /\ flat' = [t \in DOMAIN flat \cup {Table(k[w])} |->
                   IF t = Table(k[w]) THEN [size |-> profile.size, whole |-> FALSE, by |-> w]
                   ELSE flat[t]]
    /\ Goto(w, "close")
    /\ UNCHANGED <<profile, sessions, stats, tables, markers, evaluates, k, running, faults>>

DbgenClose(w) ==
    LET t == Table(k[w])
    IN  /\ pc[w] = "close"
        /\ flat' = IF t \in DOMAIN flat /\ flat[t].by = w
                   THEN [flat EXCEPT ![t].whole = TRUE] ELSE flat
        /\ SetIndex(w, k[w] + 1) /\ Goto(w, "write")
        /\ UNCHANGED <<profile, sessions, stats, tables, markers, evaluates, running, faults>>

\* dbgen exits with an error, or the list of expected files is checked and the marker
\* is written.
DbgenFails(w) ==
    /\ pc[w] \in {"write", "close"} /\ Fault /\ Raise(w)
    /\ UNCHANGED <<profile, sessions, stats, data, dirty, tally>>

DbgenExits(w) ==
    /\ pc[w] = "write" /\ k[w] > Len(TpchTables)
    /\ IF \A i \in 1 .. Len(TpchTables) : Table(i) \in DOMAIN flat
       THEN /\ markers' = markers \cup {profile.size}
            /\ Goto(w, "drop") /\ SetIndex(w, 1) /\ UNCHANGED <<evaluates, metrics, pool>>
       ELSE Raise(w) /\ UNCHANGED markers
    /\ UNCHANGED <<profile, sessions, stats, tables, flat, dirty, tally, faults>>

SchemaTables == {Table(i) : i \in 1 .. Len(TpchTables)}

\* Mutant: the schema brings the metadata with it.
CreateSchema_Stamped(w) ==
    /\ pc[w] = "schema"
    /\ tables' = [Created(w, SchemaTables) EXCEPT ![w] = (Metadata :> Whole(profile.size)) @@ @]
    /\ Goto(w, "copy") /\ SetIndex(w, 1)
    /\ UNCHANGED <<profile, sessions, stats, flat, markers, evaluates, running, faults>>

CreateSchema(w) ==
    /\ pc[w] = "schema"
    /\ tables' = Created(w, SchemaTables)
    /\ Goto(w, "copy") /\ SetIndex(w, 1)
    /\ UNCHANGED <<profile, sessions, stats, flat, markers, evaluates, running, faults>>

\* COPY of table k: a missing file raises, a file still being written loads in part.
CopyTable(w) ==
    LET t == Table(k[w])
    IN  /\ pc[w] = "copy" /\ k[w] <= Len(TpchTables)
        /\ IF t \in DOMAIN flat
           THEN /\ tables' = [tables EXCEPT ![w][t] = [size |-> flat[t].size,
                                                       whole |-> flat[t].whole]]
                /\ SetIndex(w, k[w] + 1)
                /\ UNCHANGED <<pc, evaluates, metrics, pool, flat, markers>>
           ELSE Raise(w) /\ RemoveGeneratedData /\ UNCHANGED tables
        /\ UNCHANGED <<profile, sessions, stats, dirty, tally, faults>>

AllCopied(w) ==
    /\ pc[w] = "copy" /\ k[w] > Len(TpchTables)
    /\ RemoveGeneratedData /\ Goto(w, "indexes")
    /\ UNCHANGED <<profile, sessions, stats, tables, evaluates, k, running, faults>>

\* Indexes, foreign keys and VACUUM ANALYZE; then the stamp, statement by statement.
BuildIndexes(w) ==
    /\ pc[w] = "indexes" /\ Goto(w, "stamp")
    /\ UNCHANGED <<profile, sessions, stats, data, evaluates, k, running, faults>>

CreateMetadata(w) ==
    /\ pc[w] = "stamp" /\ Goto(w, "insert")
    /\ tables' = Created(w, {Metadata})
    /\ UNCHANGED <<profile, sessions, stats, flat, markers, evaluates, k, running, faults>>

InsertScaleFactor(w) ==
    /\ pc[w] = "insert" /\ Prepared(w)
    /\ tables' = [tables EXCEPT ![w][Metadata] = Whole(profile.size)]
    /\ UNCHANGED <<profile, sessions, flat, markers, tally, faults>>
-----------------------------------------------------------------------------
(* An evaluation.                                                          *)

\* With restores the worker first gets its baseline back, which may fail before the data
\* is replaced or after it is gone.
BeginEvaluation(w) ==
    /\ pc[w] = "idle" /\ \A v \in BenchWorkers : pc[v] # "failed"
    /\ \/ UNCHANGED <<tables, dirty, faults>> /\ ~profile.restores
       \/ /\ profile.restores /\ dirty' = [dirty EXCEPT ![w] = FALSE]
          /\ UNCHANGED <<tables, faults>>
       \/ /\ profile.restores /\ Fault /\ UNCHANGED dirty
          /\ \/ UNCHANGED tables
             \/ tables' = [tables EXCEPT ![w] = NoTables]
    /\ Goto(w, "stats")
    /\ counted' = [counted EXCEPT ![w] = 0] /\ before' = [before EXCEPT ![w] = NoStats]
    /\ io' = [io EXCEPT ![w] = NoStats]
    /\ evaluates' = [evaluates EXCEPT ![w] = TRUE] /\ SetIndex(w, 1)
    /\ tally' = [tally EXCEPT ![w] = NoTally] /\ metrics' = [metrics EXCEPT ![w] = NoMetrics]
    /\ UNCHANGED <<profile, sessions, flat, markers, pool>>

\* B6, before the benchmark is made ready: two attempts to read the counters, or None.
CaptureBefore(w) ==
    /\ pc[w] = "stats" /\ Goto(w, IF ManagesOwnConnection THEN "validating" ELSE "run")
    /\ \/ before' = [before EXCEPT ![w] = counted[w]] /\ UNCHANGED faults
       \/ Fault /\ UNCHANGED before
    /\ UNCHANGED <<profile, sessions, data, evaluates, k, running, counted, io>>

Finish(w, m) ==
    /\ Goto(w, "measured") /\ metrics' = [metrics EXCEPT ![w] = m]
    /\ UNCHANGED <<evaluates, k>>

\* _parse_output: transactions per second and percentiles of the whole run, warm-up
\* included; ignored errors are the error rate.
ParseOutput(warm, ok, ignored) == Metrics(warm + ok + ignored, ignored, "none")

\* _run_sysbench: one process for the warm-up and the measured window.  A non-zero exit,
\* a timeout and a throughput of 0 raise.
RunSysbench(w) ==
    /\ pc[w] = "run" /\ profile.kind = "sysbench"
    /\ \E warm, ok, ignored \in 0 .. RunLength, exited \in BOOLEAN :
          /\ tally' = [tally EXCEPT ![w] = [warm |-> warm, ok |-> ok]]
          /\ IF exited /\ warm + ok > 0
             THEN Finish(w, ParseOutput(warm, ok, ignored)) /\ UNCHANGED pool
             ELSE Raise(w)
    /\ dirty' = [dirty EXCEPT ![w] = TRUE]
    /\ UNCHANGED <<profile, sessions, stats, data, faults>>

\* TPC-H: three attempts at a healthy connection.
TpchConnect(w) ==
    /\ pc[w] = "run" /\ profile.kind = "tpch"
    /\ \/ /\ Goto(w, "warmup") /\ SetIndex(w, 1)
          /\ UNCHANGED <<evaluates, metrics, pool, faults>>
       \/ /\ Fault
          /\ IF k[w] < 3 THEN SetIndex(w, k[w] + 1) /\ UNCHANGED <<pc, evaluates, metrics, pool>>
             ELSE Raise(w)
    /\ UNCHANGED <<profile, sessions, stats, data, dirty, tally>>

\* Every query of every warm-up pass; the first that fails ends the evaluation.
TpchWarmup(w) ==
    /\ pc[w] = "warmup" /\ k[w] <= WarmupPasses * Queries
    /\ \/ /\ tally' = [tally EXCEPT ![w].warm = @ + 1] /\ SetIndex(w, k[w] + 1)
          /\ UNCHANGED <<pc, evaluates, metrics>>
       \/ Finish(w, Penalty("warmup_failed")) /\ UNCHANGED tally
    /\ UNCHANGED <<profile, sessions, stats, data, pool, dirty, faults>>

\* A connection lost meanwhile is opened again, or raises.
TpchWarm(w) ==
    /\ pc[w] = "warmup" /\ k[w] > WarmupPasses * Queries
    /\ \/ Goto(w, "power") /\ SetIndex(w, 1) /\ UNCHANGED <<evaluates, metrics, pool, faults>>
       \/ Fault /\ Raise(w)
    /\ UNCHANGED <<profile, sessions, stats, data, dirty, tally>>

\* Mutant: a query that fails is skipped.
TpchQuery_Skips(w) ==
    /\ pc[w] = "power" /\ k[w] <= Queries
    /\ \/ tally' = [tally EXCEPT ![w].ok = @ + 1]
       \/ UNCHANGED tally
    /\ SetIndex(w, k[w] + 1)
    /\ UNCHANGED <<pc, evaluates, metrics>>
    /\ UNCHANGED <<profile, sessions, stats, data, pool, dirty, faults>>

\* The timed pass: the first query that fails, or times out, ends it.
TpchQuery(w) ==
    /\ pc[w] = "power" /\ k[w] <= Queries
    /\ \/ /\ tally' = [tally EXCEPT ![w].ok = @ + 1] /\ SetIndex(w, k[w] + 1)
          /\ UNCHANGED <<pc, evaluates, metrics>>
       \/ Finish(w, Penalty("query_failed_or_timeout")) /\ UNCHANGED tally
    /\ UNCHANGED <<profile, sessions, stats, data, pool, dirty, faults>>

TpchMetrics(w) ==
    /\ pc[w] = "power" /\ k[w] > Queries
    /\ Finish(w, Metrics(Queries, 0, "none"))
    /\ UNCHANGED <<profile, sessions, stats, data, pool, dirty, tally, faults>>
-----------------------------------------------------------------------------
(* The template driver.                                                    *)

\* _instantiate_query draws the table from 1 .. tables - 1 and raises when that is empty.
Instantiable == profile.tables > 1

\* The warm-up, if any, is outside the threads: there an exception leaves execute.  Then
\* the pre-measurement callback runs, and the threads start.
WarmTemplate(w) ==
    /\ pc[w] = "run" /\ profile.kind = "template"
    /\ \E warmup \in BOOLEAN, n \in 0 .. 1 :
          /\ n = 0 \/ (warmup /\ Instantiable)
          /\ tally' = [tally EXCEPT ![w].warm = n]
          /\ IF warmup /\ ~Instantiable THEN Raise(w)
             ELSE /\ Goto(w, IF profile.threads > 1 THEN "threads" ELSE "sequential")
                  /\ thread' = [thread EXCEPT ![w] =
                                   [t \in 1 .. profile.threads |->
                                        [NewThread EXCEPT !.at = "connecting"]]]
                  /\ queue' = [queue EXCEPT ![w] = NothingPut]
                  /\ UNCHANGED <<evaluates, k, metrics>>
    /\ UNCHANGED <<profile, sessions, stats, data, dirty, faults>>

\* _execute_sequential, on the connection of the evaluation.
RunSequential(w) ==
    /\ pc[w] = "sequential"
    /\ IF Instantiable
       THEN \E ok, failed \in 0 .. RunLength :
               /\ tally' = [tally EXCEPT ![w].ok = ok]
               /\ Finish(w, Metrics(ok + failed, failed, "none"))
               /\ thread' = [thread EXCEPT ![w] = NoThreads] /\ UNCHANGED queue
       ELSE Raise(w) /\ UNCHANGED tally
    /\ dirty' = [dirty EXCEPT ![w] = TRUE]
    /\ UNCHANGED <<profile, sessions, stats, data, faults>>

\* worker_thread.  Whatever happens to it outside a query ends it with the counts it has.
Put(w, t) ==
    /\ thread' = [thread EXCEPT ![w][t].at = "put"]
    /\ queue' = [queue EXCEPT ![w] = [total |-> @.total + thread[w][t].total,
                                     failed |-> @.failed + thread[w][t].failed]]

ThreadConnect(w, t) ==
    /\ pc[w] \in {"threads", "joining"} /\ thread[w][t].at = "connecting"
    /\ \/ thread' = [thread EXCEPT ![w][t].at = "running"] /\ Instantiable /\ UNCHANGED queue
       \/ Put(w, t)
    /\ UNCHANGED <<profile, sessions, stats, data, control, dirty, tally, metrics, faults>>

ThreadQuery(w, t) ==
    /\ pc[w] = "threads" /\ thread[w][t].at = "running" /\ thread[w][t].total < RunLength
    /\ \/ /\ thread' = [thread EXCEPT ![w][t].total = @ + 1]
          /\ tally' = [tally EXCEPT ![w].ok = @ + 1] /\ dirty' = [dirty EXCEPT ![w] = TRUE]
       \/ /\ thread' = [thread EXCEPT ![w][t].total = @ + 1, ![w][t].failed = @ + 1]
          /\ UNCHANGED <<tally, dirty>>
    /\ UNCHANGED <<profile, sessions, stats, data, control, queue, metrics, faults>>

\* The stop event ends the loop; a rollback that raises ends it earlier.
ThreadPut(w, t) ==
    /\ pc[w] \in {"threads", "joining"} /\ thread[w][t].at = "running"
    /\ Put(w, t)
    /\ UNCHANGED <<profile, sessions, stats, data, control, dirty, tally, metrics, faults>>

Stop(w) ==
    /\ pc[w] = "threads" /\ Goto(w, "joining")
    /\ UNCHANGED <<profile, sessions, stats, data, evaluates, k, running, faults>>

\* Mutant: a query that failed is no error.
Aggregate_ErrorsLost(put) == Metrics(put.total, 0, "none")

\* What is in the queue counts, errors among the queries.
Aggregate(put) == Metrics(put.total, put.failed, "none")

\* join(timeout=5) of every thread: one that is still in a query is not waited for.
Join(w) ==
    /\ pc[w] = "joining"
    /\ Finish(w, Aggregate(queue[w]))
    /\ thread' = [thread EXCEPT ![w] = NoThreads] /\ queue' = [queue EXCEPT ![w] = NothingPut]
    /\ UNCHANGED <<profile, sessions, stats, data, dirty, tally, faults>>
-----------------------------------------------------------------------------
(* After the run.                                                          *)

RunCounted(w) == IF tally[w] = NoTally THEN 0 ELSE 1

\* compute_io_metrics: differences, at least 0; nothing when one of the two is missing.
IoMetrics(from, to) == IF NoStats \in {from, to} THEN NoStats ELSE Max({0, to - from})

\* B10 and B11.  A server that crashed and recovered starts its counters anew.
CaptureAfter(w) ==
    /\ pc[w] = "measured" /\ Goto(w, "collected")
    /\ \/ /\ counted' = [counted EXCEPT ![w] = @ + RunCounted(w)]
          /\ io' = [io EXCEPT ![w] = IoMetrics(before[w], counted'[w])]
          /\ UNCHANGED faults
       \/ /\ Fault /\ counted' = [counted EXCEPT ![w] = 0]
          /\ io' = [io EXCEPT ![w] = IoMetrics(before[w], 0)]
       \/ /\ Fault /\ UNCHANGED <<counted, io>>
    /\ UNCHANGED <<profile, sessions, data, evaluates, k, running, before>>

\* apply_reliability_gate: the first that matches, and nothing when there is a failure.
Gate(m) ==
    IF m.failure # "none" THEN m
    ELSE [m EXCEPT !.failure = CASE m.total > 0 /\ 2 * m.failed >= m.total -> "HIGH_ERROR_RATE"
                                 [] m.total = 0 -> "NEAR_ZERO_THROUGHPUT"
                                 [] m.total > 0 /\ 10 * m.failed >= m.total
                                    /\ 2 * m.failed < m.total -> "DEGRADED"
                                 [] OTHER -> "none"]

ReliabilityGate(w) ==
    /\ pc[w] = "collected" /\ Goto(w, "maintenance")
    /\ metrics' = [metrics EXCEPT ![w] = Gate(@)]
    /\ UNCHANGED <<profile, sessions, stats, data, evaluates, k, pool, dirty, tally, faults>>

\* vacuum_after_dml: not for TPC-H, not before a restore, and its failures are logged.
VacuumAfterDml(w) ==
    /\ pc[w] = "maintenance" /\ Goto(w, "idle")
    /\ \/ UNCHANGED <<dirty, faults>> /\ (profile.kind = "tpch" \/ profile.restores)
       \/ /\ profile.kind # "tpch" /\ ~profile.restores
          /\ \/ dirty' = [dirty EXCEPT ![w] = FALSE] /\ UNCHANGED faults
             \/ Fault /\ UNCHANGED dirty
    /\ UNCHANGED <<profile, sessions, stats, data, evaluates, k, pool, tally, metrics>>

\* The session ends, or is killed with its children, and the next one finds the data.
NextSession(p) ==
    /\ sessions < Sessions /\ sessions' = sessions + 1 /\ profile' = p
    /\ pc' = [w \in BenchWorkers |-> "setup"] /\ evaluates' = [w \in BenchWorkers |-> FALSE]
    /\ k' = [w \in BenchWorkers |-> 1]
    /\ thread' = [w \in BenchWorkers |-> [t \in 1 .. p.threads |-> NewThread]]
    /\ queue' = [w \in BenchWorkers |-> NothingPut]
    /\ tally' = [w \in BenchWorkers |-> NoTally] /\ metrics' = [w \in BenchWorkers |-> NoMetrics]
    /\ counted' = [w \in BenchWorkers |-> 0] /\ before' = [w \in BenchWorkers |-> NoStats]
    /\ io' = [w \in BenchWorkers |-> NoStats]
    /\ UNCHANGED <<data, dirty, faults>>

BenchNext ==
    \/ \E w \in BenchWorkers :
          \/ InitializeSchema(w) \/ EnsureReady(w) \/ Revalidate(w)
          \/ DropTables(w) \/ SysbenchCreate(w) \/ SysbenchFill(w)
          \/ SysbenchPrepareFails(w) \/ PostVacuum(w)
          \/ FindDbgen(w) \/ GenerateData(w) \/ DbgenOpen(w) \/ DbgenClose(w)
          \/ DbgenFails(w) \/ DbgenExits(w)
          \/ CreateSchema(w) \/ CopyTable(w) \/ AllCopied(w) \/ BuildIndexes(w)
          \/ CreateMetadata(w) \/ InsertScaleFactor(w) \/ TpchPrepareFails(w)
          \/ BeginEvaluation(w) \/ CaptureBefore(w) \/ RunSysbench(w)
          \/ TpchConnect(w) \/ TpchWarmup(w) \/ TpchWarm(w) \/ TpchQuery(w) \/ TpchMetrics(w)
          \/ WarmTemplate(w) \/ RunSequential(w) \/ Stop(w) \/ Join(w)
          \/ \E t \in DOMAIN thread[w] :
                ThreadConnect(w, t) \/ ThreadQuery(w, t) \/ ThreadPut(w, t)
          \/ CaptureAfter(w) \/ ReliabilityGate(w) \/ VacuumAfterDml(w)
    \/ \E p \in Profiles : NextSession(p)

BenchSpec == BenchInit /\ [][BenchNext]_benchVars
-----------------------------------------------------------------------------
(* Properties.                                                             *)

\* A TPC-H database that passed validate has every row of all its tables, of the scale
\* factor of the session, whatever sessions were killed over it and whatever benchmark
\* was in it: the stamp is the last thing prepare writes.  A sysbench database has the
\* tables of its profile and no others, the first of them full.
\* ("Return True if the required schema already exists", benchmarks/executor.py:73)
ValidatedIsComplete ==
    \A w \in BenchWorkers :
        /\ pc[w] = "run" /\ profile.kind = "tpch" =>
              \A i \in 1 .. Len(TpchTables) : tables[w][Table(i)] = Whole(profile.size)
        /\ pc[w] = "run" /\ profile.kind = "sysbench" =>
              /\ {t \in DOMAIN tables[w] : t[1] = "sbtest"} = Sbtest(profile.tables)
              /\ tables[w][<<"sbtest", 1>>] = Whole(profile.size)

PassesGate(w) == pc[w] = "maintenance" /\ metrics[w].failure = "none"

\* A TPC-H evaluation that passes the gate ran every query of every warm-up pass and of
\* the timed pass: a configuration gains nothing by failing the expensive queries.
\* ("Fast-failing remaining queries to avoid reward hacking", tpch/executor.py:425)
HealthyMeansAllQueries ==
    \A w \in BenchWorkers :
        PassesGate(w) /\ profile.kind = "tpch" =>
            tally[w] = [warm |-> WarmupPasses * Queries, ok |-> Queries]

\* An evaluation in which no query succeeded is gated, whatever the driver made of the
\* queries, the connections and the threads that failed.
NothingDoneIsGated ==
    \A w \in BenchWorkers : PassesGate(w) => tally[w].warm + tally[w].ok > 0

\* A healthy evaluation has done its work, whichever driver it ran.
HealthyIsEarned == HealthyMeansAllQueries /\ NothingDoneIsGated
-----------------------------------------------------------------------------
(* Statements TLC refutes.                                                 *)

\* "I/O metrics from pg_stat_database deltas" of the workload (worker_metrics.py:166): the
\* first capture precedes ensure_benchmark_ready, so that a prepare counts as well.
IoIsOfTheRun ==
    \A w \in BenchWorkers : PassesGate(w) /\ io[w] # NoStats => io[w] <= RunCounted(w)

\* "Return True only when schema shape matches the configured Sysbench profile."
\* (sysbench/executor.py:136): a session killed while sysbench fills a later table leaves
\* one that passes.
SysbenchShapeMatches ==
    \A w \in BenchWorkers :
        pc[w] = "run" /\ profile.kind = "sysbench" =>
            \A i \in 1 .. profile.tables : tables[w][<<"sbtest", i>>] = Whole(profile.size)

\* "timed window - the only window scored" (performance-evaluation.md:218): a sysbench run
\* that stalls after its warm-up is scored by the transactions of the warm-up.
OnlyWindowScored ==
    \A w \in BenchWorkers : PassesGate(w) /\ profile.kind = "sysbench" => tally[w].ok > 0

\* "computed from the per-query timings collected across all threads"
\* (workload-orchestrator.md): those of a thread that outlives the join are not.
StragglersCount ==
    \A w \in BenchWorkers :
        PassesGate(w) /\ profile.kind = "template" =>
            tally[w].ok = metrics[w].total - metrics[w].failed

\* "defaulting to 1 table with 100K rows" (workload.py:548): no query on one table can
\* be instantiated.
OneTableRuns ==
    \A w \in BenchWorkers : evaluates[w] /\ profile.kind = "template" =>
        metrics[w].failure # "EXECUTION_CRASH"
=============================================================================
