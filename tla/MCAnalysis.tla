---------------------------- MODULE MCAnalysis ----------------------------
(***************************************************************************)
(* What is done with finished sessions, in one run: the audit of a trace,  *)
(* SCALPEL, and the files tiers travel in.  The three share no variable,   *)
(* so their product has no behaviour that is not, of each, one of its own: *)
(* a step of one is taken while the other two are at rest where they       *)
(* begin.                                                                  *)
(***************************************************************************)
EXTENDS TraceAudit, TierFiles

allVars == <<traceVars, tierVars, fileVars>>

MCInit == TraceInit /\ TierInit /\ FileInit
NoSession == phase = "evaluating" /\ history = <<>>

Auditing == stage = "preflight" /\ started = 0 /\ TraceNext /\ UNCHANGED <<tierVars, fileVars>>
Tiers == started = 0 /\ NoSession /\ TierNext /\ UNCHANGED <<traceVars, fileVars>>
Files == stage = "preflight" /\ NoSession /\ FileNext /\ UNCHANGED <<traceVars, tierVars>>

MCSpec == MCInit /\ [][Auditing \/ Tiers \/ Files]_allVars
=============================================================================
