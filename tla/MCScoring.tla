----------------------------- MODULE MCScoring -----------------------------
(***************************************************************************)
(* Two workers, a workload of each kind, generations that read as before   *)
(* or twice as well, steady or unsteady throughput.                        *)
(***************************************************************************)
EXTENDS Scoring, TLC

Query(weight, tokens) == [weight |-> weight, tokens |-> tokens]
MCWorkloads ==
    {[kind |-> "sysbench", script |-> "oltp_read_write", threads |-> 8],
     [kind |-> "tpch", threads |-> 1,
      queries |-> <<Query(1, {"join", "order_by"}), Query(1, {"join", "having"})>>],
     [kind |-> "template", threads |-> 2, queries |-> <<Query(3, {"update"}), Query(1, {"join"})>>]}
Symmetry == Permutations(Workers)
MCObservations == {[cv |-> 0, amp |-> 1], [cv |-> 200, amp |-> 1]}
MCFits == {<<10, 10, 10, 10>>, <<10, 10, 11, 12>>}
MCGenerations == {<<10>>, <<10, 10>>, <<20, 20>>}
=============================================================================
