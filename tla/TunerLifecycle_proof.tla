------------------------ MODULE TunerLifecycle_proof ------------------------
(***************************************************************************)
(* Proofs about TunerLifecycle, for any number of instances, rounds,       *)
(* barriers and SIGINTs.                                                   *)
(*                                                                         *)
(* CountsInv: what each step of a round knows of its record, of its best   *)
(* and of the counter.  TraceInv: a trace on disk is what the session had  *)
(* when it was written.  BusyInv: where an evaluation may still run.       *)
(* StoppedInv: what the teardown leaves.                                   *)
(***************************************************************************)
EXTENDS TunerLifecycle, TLAPS

Over == {"teardown", "cleanup", "assemble", "write", "write_best", "exit"}
Waits == {"evaluating", "disconnect", "joining"}

\* The record of a round, its best and the counter are written in this order.
CountsInv ==
    /\ pc \in Setup \cup {"start"} => counted = current /\ history = current
    /\ pc \in Waits \cup {"record", "append"} => counted = current - 1 /\ history = current - 1
    /\ pc = "count" => counted = current - 1 /\ history = current
    /\ counted \in {history - 1, history} /\ current \in {history, history + 1}
    /\ pc \in Over /\ exc = "none" => counted = current /\ history = current
    /\ pc \in {"disconnect", "joining"} => exc # "none"
TraceInv ==
    /\ pc \notin {"write_best", "exit"} => saved = NoTrace
    /\ saved.state = "whole" =>
          saved = [state |-> "whole", history |-> history, counted |-> counted, best |-> best]
BusyInv ==
    /\ strategy = "bo" => busy = {}
    /\ pc = "disconnect" => strategy = "cotenant"
    /\ Pooled /\ pc = "joining" => signals >= 1
    /\ busy # {} /\ signals <= 1 =>
          \/ pc \in Waits
          \/ strategy = "cotenant" /\ pc \in {"teardown", "exit"} /\ saved.state # "whole"
PartyInv ==
    strategy = "cotenant" =>
        /\ Foreground \notin busy
        /\ Foreground \in waiting => pc \in {"evaluating", "disconnect"}
StoppedInv ==
    (pc \in {"cleanup", "assemble", "write", "write_best"} \/ saved.state = "whole")
       /\ signals <= 1 /\ ~flawed => running = {} /\ busy = {}
Inv == TypeOK /\ CountsInv /\ TraceInv /\ BusyInv /\ PartyInv /\ StoppedInv

LEMMA ConstantsType ==
  /\ Foreground \in Workers /\ Rounds \in Nat \ {0} /\ MaxSignals \in Nat
  /\ Stages \in Nat \ {0, 1} /\ Strategies \subseteq {"pbt", "lhs", "bo", "cotenant"}
  BY LifecycleAssumption

LEMMA InitInv == Init => Inv
<1> SUFFICES ASSUME Init PROVE Inv
  OBVIOUS
<1> USE ConstantsType DEF Init
<1>1. NoTrace \in [state : {"none", "partial", "whole"}, history : 0 .. 0, counted : 0 .. 0,
                   best : 0 .. 0]
  BY DEF NoTrace
<1>2. TypeOK
  <2>1. stage \in [Workers -> 1 .. Stages]
    OBVIOUS
  <2>2. /\ current \in 0 .. Rounds /\ counted \in 0 .. current /\ history \in 0 .. current
        /\ best \in 0 .. current /\ signals \in 0 .. MaxSignals
    OBVIOUS
  <2>3. saved \in [state : {"none", "partial", "whole"},
                   history : 0 .. current, counted : 0 .. current, best : 0 .. current]
    BY <1>1
  <2> QED BY <2>1, <2>2, <2>3 DEF TypeOK, Setup
<1>3. CountsInv
  BY DEF CountsInv, Setup, Waits, Over
<1>4. TraceInv /\ StoppedInv
  BY DEF TraceInv, StoppedInv, NoTrace
<1>5. BusyInv /\ PartyInv
  BY DEF BusyInv, PartyInv, Waits
<1> QED BY <1>2, <1>3, <1>4, <1>5 DEF Inv

Places == Setup \cup InRound \cup {"disconnect", "joining"} \cup Over

\* The types in a form that the arithmetic needs.
LEMMA Numbers ==
  Inv => /\ current \in Nat /\ counted \in Nat /\ history \in Nat /\ best \in Nat
         /\ current <= Rounds /\ best <= current /\ counted <= current /\ history <= current
         /\ signals \in Nat /\ pc \in Places
         /\ saved \in [state : {"none", "partial", "whole"}, history : Nat, counted : Nat, best : Nat]
  BY ConstantsType DEF Inv, TypeOK, Places, Over

LEMMA InstancesType == Instances \subseteq Workers
  BY ConstantsType DEF Instances

\* A step that ends no round and writes no trace keeps the types of the rest.
Rest == /\ strategy' = strategy /\ pc' \in Places
        /\ exc' \in {"none", "interrupt", "error"} /\ signals' \in 0 .. MaxSignals
        /\ metrics' \in BOOLEAN /\ env' \in BOOLEAN /\ flawed' \in BOOLEAN
        /\ running' \subseteq Workers /\ busy' \subseteq Workers /\ waiting' \subseteq Workers
        /\ stage' \in [Workers -> 1 .. Stages]

LEMMA RestType ==
  ASSUME Inv, Rest, UNCHANGED <<current, history, counted, best, saved>> PROVE TypeOK'
  BY DEF Inv, TypeOK, Rest, Places, Over

\* The steps that touch neither the record nor the trace.
Quiet ==
    \/ Load \/ CreateEnvironment \/ BringUp \/ SeedInitialConfigs \/ Evaluated \/ Joined
    \/ Teardown \/ CleanUp \/ AssembleResults \/ WriteBestConfig \/ Raise \/ ForegroundRaises
    \/ Interrupt \/ Release \/ \E w \in Workers : EvaluationEnds(w) \/ Arrive(w)

LEMMA QuietType == Inv /\ Quiet => TypeOK' /\ UNCHANGED <<current, data, strategy>>
<1> SUFFICES ASSUME Inv, Quiet PROVE TypeOK' /\ UNCHANGED <<current, data, strategy>>
  OBVIOUS
<1>1. UNCHANGED <<current, data, strategy>>
  BY DEF Quiet, Load, CreateEnvironment, BringUp, SeedInitialConfigs, Evaluated, Joined,
     Teardown, CleanUp, AssembleResults, WriteBestConfig, Raise, ForegroundRaises, Interrupt,
     Release, EvaluationEnds, Arrive, session
<1>2. Rest
  <2> USE ConstantsType, InstancesType DEF Inv, TypeOK, Rest, Places, Over, Setup, InRound, session,
          lockstep
  <2>1. CASE Load \/ CreateEnvironment \/ BringUp \/ SeedInitialConfigs
    BY <2>1 DEF Load, CreateEnvironment, BringUp, SeedInitialConfigs
  <2>2. CASE Evaluated \/ Joined \/ Teardown \/ CleanUp \/ AssembleResults \/ WriteBestConfig
    BY <2>2 DEF Evaluated, Joined, Teardown, CleanUp, AssembleResults, WriteBestConfig
  <2>3. CASE Raise \/ ForegroundRaises
    BY <2>3 DEF Raise, ForegroundRaises
  <2>4. CASE Interrupt
    <3>1. signals' \in 0 .. MaxSignals /\ waiting' \subseteq Workers /\ exc' = "interrupt"
      BY <2>4 DEF Interrupt
    <3>2. stage' \in [Workers -> 1 .. Stages]
      BY <2>4 DEF Interrupt
    <3>3. running' \subseteq Workers
      BY <2>4 DEF Interrupt
    <3>4. pc' \in Places
      BY <2>4 DEF Interrupt, AfterInterrupt
    <3> QED BY <2>4, <3>1, <3>2, <3>3, <3>4 DEF Interrupt
  <2>5. CASE Release
    <3>1. stage' \in [Workers -> 1 .. Stages]
      BY <2>5 DEF Release
    <3> QED BY <2>5, <3>1 DEF Release
  <2>6. CASE \E w \in Workers : EvaluationEnds(w) \/ Arrive(w)
    <3>1. PICK w \in Workers : EvaluationEnds(w) \/ Arrive(w)
      BY <2>6
    <3>2. CASE EvaluationEnds(w)
      BY <3>2 DEF EvaluationEnds
    <3>3. CASE Arrive(w)
      BY <3>3 DEF Arrive
    <3> QED BY <3>1, <3>2, <3>3
  <2> QED BY <2>1, <2>2, <2>3, <2>4, <2>5, <2>6 DEF Quiet
<1> QED BY <1>1, <1>2, RestType DEF data

LEMMA QuietCounts == Inv /\ Quiet => CountsInv'
<1> SUFFICES ASSUME Inv, Quiet PROVE CountsInv'
  OBVIOUS
<1>1. UNCHANGED <<current, history, counted>>
  BY QuietType DEF data
<1>2. current \in Nat /\ counted \in Nat /\ history \in Nat
  BY Numbers
<1> USE DEF Inv, CountsInv, Setup, InRound, Waits, Over
<1>3. CASE Load \/ CreateEnvironment \/ BringUp \/ SeedInitialConfigs
  BY <1>1, <1>2, <1>3 DEF Load, CreateEnvironment, BringUp, SeedInitialConfigs
<1>4. CASE Evaluated \/ Joined \/ Teardown \/ CleanUp \/ AssembleResults \/ WriteBestConfig
  BY <1>1, <1>2, <1>4 DEF Evaluated, Joined, Teardown, CleanUp, AssembleResults, WriteBestConfig
<1>5. CASE Raise \/ ForegroundRaises
  BY <1>1, <1>2, <1>5 DEF Raise, ForegroundRaises
<1>6. CASE Interrupt
  <2>1. exc' = "interrupt" /\ pc \in Setup \cup InRound \cup {"disconnect", "joining"}
    BY <1>6 DEF Interrupt
  <2>2. \/ pc' = "teardown"
        \/ pc' \in {"joining", "disconnect"} /\ pc \in {"evaluating", "disconnect"}
    BY <1>6 DEF Interrupt, AfterInterrupt, AtLastBarrier
  <2> QED BY <1>1, <1>2, <2>1, <2>2
<1>7. CASE Release
  <2>1. exc' = exc /\ (pc' = pc \/ pc' = IF pc = "disconnect" THEN "teardown" ELSE "record")
    BY <1>7 DEF Release
  <2>2. pc \in {"evaluating", "disconnect"}
    BY <1>7, ConstantsType DEF Release, PartyInv
  <2> QED BY <1>1, <1>2, <2>1, <2>2
<1>8. CASE \E w \in Workers : EvaluationEnds(w) \/ Arrive(w)
  <2>1. UNCHANGED <<pc, exc>>
    BY <1>8 DEF EvaluationEnds, Arrive
  <2> QED BY <1>1, <1>2, <2>1
<1> QED BY <1>3, <1>4, <1>5, <1>6, <1>7, <1>8 DEF Quiet

LEMMA QuietTrace == Inv /\ Quiet => TraceInv'
<1> SUFFICES ASSUME Inv, Quiet PROVE TraceInv'
  OBVIOUS
<1>1. UNCHANGED <<history, counted, best, saved>>
  BY QuietType DEF data
<1>2. pc \in {"write_best", "exit"} => pc' \in {"write_best", "exit"} \/ saved = NoTrace
  <2>1. ASSUME pc \in {"write_best", "exit"} PROVE pc' \in {"write_best", "exit"}
    <3>1. pc # "evaluating" /\ pc # "disconnect"
      BY <2>1
    <3>2. ~Release
      BY <3>1, ConstantsType DEF Release, Inv, PartyInv
    <3> QED BY <2>1, <3>2 DEF Quiet, Load, CreateEnvironment, BringUp, SeedInitialConfigs, Evaluated,
          Joined, Teardown, CleanUp, AssembleResults, WriteBestConfig, Raise, ForegroundRaises,
          Interrupt, EvaluationEnds, Arrive, Setup, InRound
  <2> QED BY <2>1
<1> QED BY <1>1, <1>2 DEF Inv, TraceInv

LEMMA QuietParty == Inv /\ Quiet => PartyInv'
<1> SUFFICES ASSUME Inv, Quiet, strategy = "cotenant" PROVE PartyInv'
  BY QuietType DEF PartyInv
<1>1. strategy' = strategy
  BY QuietType
<1> USE ConstantsType DEF Inv, PartyInv, Setup, InRound, lockstep
<1>2. CASE Load \/ CreateEnvironment \/ BringUp \/ SeedInitialConfigs
  BY <1>1, <1>2 DEF Load, CreateEnvironment, BringUp, SeedInitialConfigs
<1>3. CASE Evaluated \/ Joined \/ Teardown \/ CleanUp \/ AssembleResults \/ WriteBestConfig
  BY <1>1, <1>3 DEF Evaluated, Joined, Teardown, CleanUp, AssembleResults, WriteBestConfig
<1>4. CASE Raise \/ ForegroundRaises
  BY <1>1, <1>4 DEF Raise, ForegroundRaises
<1>5. CASE Interrupt
  BY <1>1, <1>5 DEF Interrupt
<1>6. CASE Release
  BY <1>1, <1>6 DEF Release
<1>7. CASE \E w \in Workers : EvaluationEnds(w) \/ Arrive(w)
  BY <1>1, <1>7 DEF EvaluationEnds, Arrive, Parties
<1> QED BY <1>2, <1>3, <1>4, <1>5, <1>6, <1>7 DEF Quiet

LEMMA QuietBusy == Inv /\ Quiet => BusyInv'
<1> SUFFICES ASSUME Inv, Quiet PROVE BusyInv'
  OBVIOUS
<1>1. strategy' = strategy /\ saved' = saved /\ (Pooled' <=> Pooled)
  BY QuietType DEF data, Pooled
<1>2. signals \in Nat /\ pc \in Places
  BY Numbers
<1>2a. strategy \in {"pbt", "lhs", "bo", "cotenant"}
  BY ConstantsType DEF Inv, TypeOK
<1>2b. pc \notin {"write_best", "exit"} => saved.state # "whole"
  BY DEF Inv, TraceInv, NoTrace
<1> USE DEF Inv, BusyInv, Setup, InRound, Waits
<1>3. CASE Load \/ CreateEnvironment \/ BringUp \/ SeedInitialConfigs
  BY <1>1, <1>2, <1>3 DEF Load, CreateEnvironment, BringUp, SeedInitialConfigs
<1>4. CASE Evaluated \/ Joined \/ Teardown \/ CleanUp \/ AssembleResults \/ WriteBestConfig
  BY <1>1, <1>2, <1>2b, <1>4 DEF Evaluated, Joined, Teardown, CleanUp, AssembleResults, WriteBestConfig
<1>5. CASE Raise \/ ForegroundRaises
  BY <1>1, <1>2, <1>2b, <1>5 DEF Raise, ForegroundRaises, Pooled
<1>6. CASE Interrupt
  <2>1. signals' = signals + 1 /\ busy' = busy
    BY <1>6 DEF Interrupt
  <2>2. CASE pc = "evaluating" /\ Pooled
    <3>1. pc' = "joining"
      BY <1>6, <2>2 DEF Interrupt, AfterInterrupt, AtLastBarrier, Pooled
    <3> QED BY <1>1, <1>2, <2>1, <3>1, <2>2 DEF Pooled
  <2>3. CASE pc \in {"evaluating", "disconnect", "joining"} /\ strategy = "cotenant"
    <3>1. pc' \in {"joining", "disconnect", "teardown"}
      BY <1>6, <2>3 DEF Interrupt, AfterInterrupt
    <3> QED BY <1>1, <1>2, <1>2b, <2>1, <3>1, <2>3 DEF Pooled
  <2>4. CASE pc = "joining" /\ Pooled
    <3>1. pc' = "teardown"
      BY <1>6, <2>4 DEF Interrupt, AfterInterrupt, AtLastBarrier
    <3> QED BY <1>1, <1>2, <2>1, <3>1, <2>4 DEF Pooled
  <2>5. CASE strategy = "bo" \/ pc \notin Waits
    <3>1. pc # "disconnect" /\ pc \notin {"exit", "teardown"}
      BY <1>2a, <1>6, <2>5 DEF Interrupt
    <3>2. pc' = "teardown"
      BY <1>6, <2>5, <3>1 DEF Interrupt, AfterInterrupt, AtLastBarrier, Pooled
    <3> QED BY <1>1, <1>2, <2>1, <2>5, <3>1, <3>2
  <2> QED BY <1>2a, <2>2, <2>3, <2>4, <2>5 DEF Pooled
<1>7. CASE Release
  <2>1. busy' = {} \/ UNCHANGED <<pc, busy>>
    BY <1>7 DEF Release
  <2>2. (signals' = signals /\ pc' \notin {"joining", "disconnect"}) \/ UNCHANGED <<pc, signals>>
    BY <1>7 DEF Release
  <2> QED BY <1>1, <1>2, <2>1, <2>2
<1>8. CASE \E w \in Workers : EvaluationEnds(w) \/ Arrive(w)
  <2>1. UNCHANGED <<pc, signals>> /\ busy' \subseteq busy
    BY <1>8 DEF EvaluationEnds, Arrive
  <2> QED BY <1>1, <1>2, <2>1
<1> QED BY <1>3, <1>4, <1>5, <1>6, <1>7, <1>8 DEF Quiet

LEMMA QuietStopped == Inv /\ Quiet => StoppedInv'
<1> SUFFICES ASSUME Inv, Quiet PROVE StoppedInv'
  OBVIOUS
<1>1. strategy' = strategy /\ saved' = saved
  BY QuietType DEF data
<1>2. signals \in Nat /\ pc \in Places /\ flawed \in BOOLEAN
  BY Numbers DEF Inv, TypeOK
<1>3. pc \notin {"write_best", "exit"} => saved.state # "whole"
  BY DEF Inv, TraceInv, NoTrace
<1> USE DEF Inv, StoppedInv, Setup, InRound
<1>4. CASE Load \/ CreateEnvironment \/ BringUp \/ SeedInitialConfigs \/ Evaluated \/ Joined
  BY <1>1, <1>2, <1>3, <1>4 DEF Load, CreateEnvironment, BringUp, SeedInitialConfigs, Evaluated, Joined
<1>5. CASE Teardown
  <2>1. signals' = signals /\ busy' = busy /\ (running' = {} \/ flawed' = TRUE)
    BY <1>5 DEF Teardown
  <2>2. signals <= 1 => busy = {}
    BY <1>5 DEF Teardown, BusyInv, Waits
  <2> QED BY <2>1, <2>2
<1>6. CASE CleanUp \/ AssembleResults \/ WriteBestConfig
  BY <1>1, <1>2, <1>6 DEF CleanUp, AssembleResults, WriteBestConfig
<1>7. CASE Raise \/ ForegroundRaises
  BY <1>1, <1>2, <1>3, <1>7 DEF Raise, ForegroundRaises
<1>8. CASE Interrupt
  <2>1. pc' \notin {"cleanup", "assemble", "write", "write_best"} /\ saved.state # "whole"
    BY <1>3, <1>8 DEF Interrupt, AfterInterrupt
  <2> QED BY <1>1, <2>1
<1>9. CASE Release
  <2>1. pc \in {"evaluating", "disconnect"}
    BY <1>9, ConstantsType DEF Release, PartyInv
  <2>2. pc' \notin {"cleanup", "assemble", "write", "write_best"}
    BY <1>9, <2>1 DEF Release
  <2> QED BY <1>1, <1>3, <2>1, <2>2
<1>10. CASE \E w \in Workers : EvaluationEnds(w) \/ Arrive(w)
  <2>1. PICK w \in Workers : EvaluationEnds(w) \/ Arrive(w)
    BY <1>10
  <2>2. UNCHANGED <<pc, signals, flawed>>
    BY <2>1 DEF EvaluationEnds, Arrive
  <2>3. UNCHANGED <<busy, running>> \/ busy # {}
    BY <2>1 DEF EvaluationEnds, Arrive
  <2> QED BY <1>1, <1>2, <2>2, <2>3
<1> QED BY <1>4, <1>5, <1>6, <1>7, <1>8, <1>9, <1>10 DEF Quiet

LEMMA StartInv == Inv /\ StartRound => Inv'
<1> SUFFICES ASSUME Inv, StartRound PROVE Inv'
  OBVIOUS
<1>1. /\ pc = "start" /\ pc' = "evaluating" /\ current' = current + 1 /\ current < Rounds
      /\ UNCHANGED <<strategy, metrics, env, exc, signals, running, history, counted, best, saved,
                     flawed>>
      /\ waiting' = {} /\ stage' = [w \in Workers |-> 1]
      /\ busy' = CASE Pooled -> Workers [] strategy = "cotenant" -> Loaders [] OTHER -> {}
  BY DEF StartRound, session, data
<1>2. busy' \subseteq Workers /\ (strategy = "bo" => busy' = {})
      /\ (strategy = "cotenant" => Foreground \notin busy')
  BY <1>1 DEF Pooled, Loaders
<1>3. stage' \in [Workers -> 1 .. Stages]
  BY <1>1, ConstantsType
<1>4. saved = NoTrace /\ saved.state # "whole"
  BY <1>1 DEF Inv, TraceInv, NoTrace
<1>5. TypeOK'
  <2>1. saved' \in [state : {"none", "partial", "whole"}, history : 0 .. current + 1,
                    counted : 0 .. current + 1, best : 0 .. current + 1]
    BY <1>1, <1>4, Numbers DEF NoTrace
  <2>2. /\ current' \in 0 .. Rounds /\ counted' \in 0 .. current' /\ history' \in 0 .. current'
        /\ best' \in 0 .. current'
    BY <1>1, Numbers, ConstantsType
  <2>3. /\ strategy' \in Strategies /\ signals' \in 0 .. MaxSignals
        /\ exc' \in {"none", "interrupt", "error"}
        /\ metrics' \in BOOLEAN /\ env' \in BOOLEAN /\ flawed' \in BOOLEAN
        /\ running' \subseteq Workers
    BY <1>1 DEF Inv, TypeOK
  <2> QED BY <1>1, <1>2, <1>3, <2>1, <2>2, <2>3 DEF TypeOK, InRound
<1>6. CountsInv'
  BY <1>1, Numbers DEF Inv, CountsInv, Setup, Waits, Over
<1>7. TraceInv' /\ StoppedInv'
  BY <1>1, <1>4 DEF TraceInv, StoppedInv
<1>8. BusyInv' /\ PartyInv'
  BY <1>1, <1>2 DEF BusyInv, PartyInv, Waits, Pooled
<1> QED BY <1>5, <1>6, <1>7, <1>8 DEF Inv

LEMMA RecordInv == Inv /\ (RecordBest \/ AppendHistory \/ CountRound) => Inv'
<1> SUFFICES ASSUME Inv, RecordBest \/ AppendHistory \/ CountRound PROVE Inv'
  OBVIOUS
<1>1. /\ pc \in {"record", "append", "count"}
      /\ UNCHANGED <<strategy, metrics, env, exc, signals, running, busy, stage, waiting, current,
                     saved, flawed>>
  BY DEF RecordBest, AppendHistory, CountRound, session, lockstep
<1>2. saved = NoTrace /\ saved.state # "whole"
  BY <1>1 DEF Inv, TraceInv, NoTrace
<1>3. /\ busy # {} => signals > 1
      /\ strategy = "cotenant" => Foreground \notin busy /\ Foreground \notin waiting
      /\ strategy = "bo" => busy = {}
  BY <1>1, Numbers DEF Inv, BusyInv, PartyInv, Waits
<1>4. /\ pc' \in {"append", "count", "start", "teardown"}
      /\ counted' \in 0 .. current /\ history' \in 0 .. current /\ best' \in 0 .. current
      /\ CountsInv'
  <2> USE <1>1, Numbers DEF Inv, CountsInv, Setup, Waits, Over
  <2>1. CASE RecordBest
    BY <2>1 DEF RecordBest
  <2>2. CASE AppendHistory
    BY <2>2 DEF AppendHistory
  <2>3. CASE CountRound
    <3>1. pc' \in {"start", "teardown"} /\ counted' = counted + 1 /\ pc = "count"
          /\ UNCHANGED <<history, best>>
      BY <2>3 DEF CountRound
    <3> QED BY <3>1
  <2> QED BY <2>1, <2>2, <2>3
<1>5. TypeOK'
  <2>1. saved \in [state : {"none", "partial", "whole"}, history : 0 .. current,
                   counted : 0 .. current, best : 0 .. current]
    BY DEF Inv, TypeOK
  <2> QED BY <1>1, <1>4, <2>1 DEF Inv, TypeOK, InRound
<1>6. TraceInv' /\ StoppedInv'
  BY <1>1, <1>2, <1>4 DEF TraceInv, StoppedInv
<1>7. BusyInv' /\ PartyInv'
  <2>1. signals \in Nat
    BY Numbers
  <2> QED BY <1>1, <1>2, <1>3, <1>4, <2>1 DEF BusyInv, PartyInv, Waits, Pooled
<1> QED BY <1>4, <1>5, <1>6, <1>7 DEF Inv

LEMMA WriteInv == Inv /\ WriteSession => Inv'
<1> SUFFICES ASSUME Inv, WriteSession PROVE Inv'
  OBVIOUS
<1>1. /\ pc = "write" /\ pc' = "write_best"
      /\ saved' = [state |-> "whole", history |-> history, counted |-> counted, best |-> best]
      /\ UNCHANGED <<strategy, metrics, env, exc, signals, running, busy, stage, waiting, current,
                     history, counted, best, flawed>>
  BY DEF WriteSession, session, lockstep
<1>2. TypeOK'
  <2>1. saved' \in [state : {"none", "partial", "whole"}, history : 0 .. current,
                    counted : 0 .. current, best : 0 .. current]
    BY <1>1, Numbers
  <2> QED BY <1>1, <2>1 DEF Inv, TypeOK
<1>3. CountsInv'
  BY <1>1 DEF Inv, CountsInv, Setup, Waits, Over
<1>4. TraceInv' /\ PartyInv' /\ StoppedInv'
  BY <1>1 DEF Inv, TraceInv, PartyInv, StoppedInv
<1>5. BusyInv'
  <2>1. saved.state # "whole"
    BY <1>1 DEF Inv, TraceInv, NoTrace
  <2> QED BY <1>1, <2>1 DEF Inv, BusyInv, Waits, Pooled
<1> QED BY <1>2, <1>3, <1>4, <1>5 DEF Inv

LEMMA EndInv == Inv /\ InterruptAtEnd => Inv'
<1> SUFFICES ASSUME Inv, InterruptAtEnd PROVE Inv'
  OBVIOUS
<1>1. /\ pc \in {"teardown", "cleanup", "assemble", "write", "write_best"} /\ pc' = "exit"
      /\ signals < MaxSignals /\ signals' = signals + 1 /\ exc' = "error"
      /\ saved' = saved \/ (pc = "write" /\ saved' = [saved EXCEPT !.state = "partial"])
      /\ UNCHANGED <<strategy, metrics, env, running, busy, stage, waiting, current, history,
                     counted, best, flawed>>
  BY DEF InterruptAtEnd, session, lockstep
<1>2. signals \in Nat /\ signals' \in 0 .. MaxSignals
  BY <1>1, Numbers, ConstantsType
<1>3. \/ saved' = saved
      \/ saved.state # "whole" /\ saved'.state = "partial"
         /\ saved' \in [state : {"none", "partial", "whole"}, history : 0 .. current,
                        counted : 0 .. current, best : 0 .. current]
  <2>1. CASE pc = "write" /\ saved' = [saved EXCEPT !.state = "partial"]
    <3>1. saved = NoTrace
      BY <2>1 DEF Inv, TraceInv
    <3> QED BY <2>1, <3>1, Numbers DEF NoTrace
  <2> QED BY <1>1, <2>1
<1>4. TypeOK'
  BY <1>1, <1>2, <1>3 DEF Inv, TypeOK
<1>5. CountsInv'
  BY <1>1 DEF Inv, CountsInv, Setup, Waits, Over
<1>6. TraceInv' /\ PartyInv'
  BY <1>1, <1>3 DEF Inv, TraceInv, PartyInv
<1>7. StoppedInv'
  BY <1>1, <1>2, <1>3 DEF Inv, StoppedInv
<1>8. BusyInv'
  <2>1. pc = "teardown" => saved.state # "whole"
    BY DEF Inv, TraceInv, NoTrace
  <2> QED BY <1>1, <1>2, <1>3, <2>1 DEF Inv, BusyInv, Waits, Pooled
<1> QED BY <1>4, <1>5, <1>6, <1>7, <1>8 DEF Inv

LEMMA NextInv == Inv /\ [Next]_vars => Inv'
<1> SUFFICES ASSUME Inv, [Next]_vars PROVE Inv'
  OBVIOUS
<1>1. CASE Quiet
  BY <1>1, QuietType, QuietCounts, QuietTrace, QuietParty, QuietBusy, QuietStopped DEF Inv
<1>2. CASE UNCHANGED vars
  BY <1>2 DEF vars, Inv, TypeOK, CountsInv, TraceInv, BusyInv, PartyInv, StoppedInv, Pooled
<1> QED BY <1>1, <1>2, StartInv, RecordInv, WriteInv, EndInv DEF Next, MainSteps, Faults, Quiet

(* Every variable keeps its type.                                          *)
THEOREM TypeCorrect == Spec => []TypeOK
<1>1. Init => Inv
  BY InitInv
<1>2. Inv /\ [Next]_vars => Inv'
  BY NextInv
<1>3. Inv => TypeOK
  BY DEF Inv
<1> QED BY <1>1, <1>2, <1>3, PTL DEF Spec

(* A trace on disk is final, for every strategy and whenever the operator  *)
(* pressed Ctrl-C: what it counts is recorded, its best configuration is   *)
(* from a round it knows, and nothing runs on.                             *)
THEOREM TracesAreFinal == Spec => []SavedIsFinal
<1>1. Init => Inv
  BY InitInv
<1>2. Inv /\ [Next]_vars => Inv'
  BY NextInv
<1>3. Inv => SavedIsFinal
  <2>1. SUFFICES ASSUME Inv, saved.state = "whole" PROVE SavedIsFinal
    BY DEF SavedIsFinal, SavedMeansStopped, CountedIsRecorded
  <2>2. SavedMeansStopped
    BY <2>1 DEF Inv, StoppedInv, SavedMeansStopped
  <2>3. pc \in {"write_best", "exit"} /\ saved.history = history /\ saved.counted = counted
        /\ saved.best = best
    BY <2>1 DEF Inv, TraceInv, NoTrace
  <2>4. counted \in {history - 1, history} /\ best <= history + 1
    BY <2>1, Numbers DEF Inv, CountsInv
  <2>5. exc = "none" => counted = history /\ best <= history
    BY <2>1, <2>3, Numbers DEF Inv, CountsInv, Over
  <2> QED BY <2>2, <2>3, <2>4, <2>5 DEF SavedIsFinal, CountedIsRecorded
<1> QED BY <1>1, <1>2, <1>3, PTL DEF Spec
=============================================================================
