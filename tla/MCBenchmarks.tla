---------------------------- MODULE MCBenchmarks ----------------------------
(***************************************************************************)
(* Benchmarks with the profiles a site may switch between: two sysbench    *)
(* sizes, two TPC-H scale factors, template files with one and two tables. *)
(***************************************************************************)
EXTENDS Benchmarks

Profile(kind, size, tbls, threads, restores) ==
    [kind |-> kind, size |-> size, tables |-> tbls, threads |-> threads, restores |-> restores]

MCProfiles == {Profile("sysbench", 1, 2, 1, TRUE), Profile("sysbench", 2, 1, 1, FALSE),
               Profile("tpch", 1, 0, 1, TRUE), Profile("tpch", 2, 0, 1, FALSE),
               Loaded([schema |-> {2}, threads |-> 2, restores |-> FALSE]),
               Loaded([schema |-> {}, threads |-> 1, restores |-> TRUE])}
MCTpchTables == <<<<"orders", 0>>, <<"lineitem", 0>>>>
=============================================================================
