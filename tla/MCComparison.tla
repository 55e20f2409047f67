---------------------------- MODULE MCComparison ----------------------------
(* Three arms as run_multi_arm sorts them; both tuned ones need a restart  *)
(* only for pbt.                                                           *)
EXTENDS Comparison

MCArms == <<"bo", "default", "pbt">>
=============================================================================
