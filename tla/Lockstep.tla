------------------------------ MODULE Lockstep ------------------------------
(***************************************************************************)
(* What the barrier collection of src/tuners/engine/barriers.py promises   *)
(* to the threads of one batch, with no barrier object, no exception       *)
(* handler and no main thread in it: the threads of a team take the same   *)
(* Steps, in order, and none leaves a step before every thread of its team *)
(* has reached it.  While "open" (the set was aborted) threads go free.    *)
(***************************************************************************)
EXTENDS Integers

CONSTANTS Threads,   \* the threads that are synchronised
          Team,        \* [Threads -> team]: who waits for whom
          Steps        \* the number of steps they take together

VARIABLES reached,   \* reached[t]: the steps t has arrived at
          left,        \* left[t]: the steps t has been let out of
          open         \* the steps no longer hold anybody

lockstepVars == <<reached, left, open>>

Teammates(t) == {u \in Threads : Team[u] = Team[t]}

Init ==
    /\ reached = [t \in Threads |-> {}]
    /\ left = [t \in Threads |-> {}]
    /\ open = FALSE

\* A thread reaches the next step only out of the one before it.
Reach(t, s) ==
    /\ s \notin reached[t]
    /\ \A r \in 1..(s - 1) : r \in left[t]
    /\ reached' = [reached EXCEPT ![t] = @ \cup {s}]
    /\ UNCHANGED <<left, open>>

\* It is let out once the whole team is there.
Leave(t, s) ==
    /\ s \in reached[t] \ left[t]
    /\ open \/ \A u \in Teammates(t) : s \in reached[u]
    /\ left' = [left EXCEPT ![t] = @ \cup {s}]
    /\ UNCHANGED <<reached, open>>

\* The synchronisation is given up for the running team, or set up for the next.
OpenOrClose ==
    /\ open' = ~open
    /\ UNCHANGED <<reached, left>>

Next ==
    \/ \E t \in Threads, s \in 1..Steps : Reach(t, s) \/ Leave(t, s)
    \/ OpenOrClose

Spec == Init /\ [][Next]_lockstepVars
=============================================================================
