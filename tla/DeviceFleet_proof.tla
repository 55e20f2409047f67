-------------------------- MODULE DeviceFleet_proof --------------------------
(***************************************************************************)
(* Proofs about DeviceFleet, for any number of devices, sessions,          *)
(* generations and faults.                                                 *)
(*                                                                         *)
(* TypeInv: types.  CallInv: a request somebody still waits for is the one *)
(* of the present phase, and there is one per device.  LaunchInv: what an  *)
(* agent that this session launched has, and whom it works for.            *)
(***************************************************************************)
EXTENDS DeviceFleet, FiniteSetTheorems, TLAPS

Agents == [up: BOOLEAN, hand: BOOLEAN, build: Builds \cup {"current"}]
Marks == [force: BOOLEAN, booted: BOOLEAN]

\* The phases in which no generation is left to run.
Ending == {"off", "teardown", "cleanup", "shutdown"}
TypeInv ==
    /\ session \in 0 .. MaxSessions /\ bootstrap \in BOOLEAN
    /\ phase \in Phases /\ due \subseteq Workers
    /\ gen \in 0 .. MaxGenerations /\ (phase \notin Ending => gen < MaxGenerations)
    /\ call \in [Workers -> {"none", "waiting", "ok", "failed"}]
    /\ worker \in [Workers -> Marks]
    /\ agent \in [Workers -> Agents]
    /\ dev \in [Workers -> Backends]
    /\ handlers \in [Workers -> SUBSET Requests]
    /\ got \in [Workers -> SUBSET (0 .. MaxSessions)]
    /\ \A w \in Workers : got[w] = {} \/ \E x \in 0 .. MaxSessions : got[w] = {x}
    /\ faults \in 0 .. MaxFaults

LEMMA ConstantsType ==
  /\ MaxSessions \in Nat /\ MaxGenerations \in Nat \ {0} /\ MaxFaults \in Nat
  /\ Bootstraps \subseteq BOOLEAN
  BY DeviceFleetAssumption

LEMMA InitType == Init => TypeInv
  BY ConstantsType DEF Init, Agents, Marks, TypeInv, Phases, NoCall, NewWorker, Backends, Ending

LEMMA BackendType ==
  ASSUME NEW d \in Backends
  PROVE  /\ \A x \in {"none", "baseline", "drifted"} : [d EXCEPT !.data = x] \in Backends
         /\ \A x \in {"none", "baseline", "drifted"} :
               [d EXCEPT !.ready = FALSE, !.data = x] \in Backends
         /\ NewBackend(d) \in Backends
         /\ d.data \in {"none", "baseline", "drifted"} /\ d.env \in {"none", "live"}
<1>1. ASSUME NEW x \in {"none", "baseline", "drifted"} PROVE [d EXCEPT !.data = x] \in Backends
  BY DEF Backends
<1>2. ASSUME NEW x \in {"none", "baseline", "drifted"}
      PROVE  [d EXCEPT !.ready = FALSE, !.data = x] \in Backends
  BY DEF Backends
<1>3. NewBackend(d) \in Backends
  <2>1. 0 \in 0 .. MaxSessions
    BY ConstantsType
  <2> QED BY <2>1 DEF Backends, NewBackend
<1>4. d.data \in {"none", "baseline", "drifted"} /\ d.env \in {"none", "live"}
  BY DEF Backends
<1> QED BY <1>1, <1>2, <1>3, <1>4

LEMMA AgentType ==
  ASSUME NEW r \in Agents
  PROVE  /\ [r EXCEPT !.up = FALSE, !.hand = FALSE] \in Agents
         /\ [r EXCEPT !.up = FALSE] \in Agents
         /\ [r EXCEPT !.up = TRUE, !.hand = TRUE] \in Agents
<1>1. [r EXCEPT !.up = FALSE, !.hand = FALSE] \in Agents
  BY DEF Agents
<1>2. [r EXCEPT !.up = FALSE] \in Agents
  BY DEF Agents
<1>3. [r EXCEPT !.up = TRUE, !.hand = TRUE] \in Agents
  BY DEF Agents
<1> QED BY <1>1, <1>2, <1>3

LEMMA AnswerType ==
  ASSUME TypeInv, NEW w \in Workers, NEW h \in handlers[w], NEW a \in Answers(w, h)
  PROVE  /\ a.dev \in Backends /\ a.ok \in BOOLEAN /\ a.restarted \in BOOLEAN
<1>1. dev[w] \in Backends
  BY DEF TypeInv
<1>1a. handlers[w] \in SUBSET Requests
  BY DEF TypeInv
<1>1b. h \in Requests
  BY <1>1a
<1>1c. h.session \in 0 .. MaxSessions /\ h.force \in BOOLEAN
  BY <1>1b DEF Requests
<1>2. CASE a \in SetUp(w, h)
  <2>1. ASSUME NEW n \in 0 .. MaxSessions, NEW x \in {"none", "baseline", "drifted"}
        PROVE  [env |-> "live", ready |-> TRUE, window |-> n, data |-> x] \in Backends
    BY DEF Backends
  <2>2. ASSUME NEW b \in BOOLEAN, NEW n \in {h.session, 0}, NEW x \in {"baseline", dev[w].data},
               a = Answer([env |-> "live", ready |-> TRUE, window |-> n, data |-> x], b, "none")
        PROVE  a.dev \in Backends /\ a.ok \in BOOLEAN /\ a.restarted \in BOOLEAN
    <3>0. dev[w].data \in {"none", "baseline", "drifted"}
      BY <1>1, BackendType
    <3>1. n \in 0 .. MaxSessions /\ x \in {"none", "baseline", "drifted"}
      BY <1>1c, <3>0, ConstantsType
    <3> QED BY <2>1, <2>2, <3>1 DEF Answer
  <2>3. ASSUME NEW x \in {dev[w].data, "none"},
               a = Answer([dev[w] EXCEPT !.data = x], FALSE, "setup")
        PROVE  a.dev \in Backends /\ a.ok \in BOOLEAN /\ a.restarted \in BOOLEAN
    BY <1>1, <2>3, BackendType DEF Answer
  <2> QED BY <1>2, <2>2, <2>3 DEF SetUp
<1>3. CASE a \in RunEval(w, h)
  <2> DEFINE after == [dev[w] EXCEPT !.data = "drifted"]
  <2>1. \/ a = Answer(dev[w], FALSE, "none")
        \/ a = [dev |-> after, ok |-> TRUE, restarted |-> h.force, fault |-> "none"]
        \/ a = [dev |-> after, ok |-> TRUE, restarted |-> FALSE, fault |-> "restart"]
        \/ a = Answer(after, FALSE, "eval")
    BY <1>3 DEF RunEval
  <2>2. after \in Backends
    BY <1>1, BackendType
  <2>3. a.dev \in {dev[w], after} /\ a.ok \in {TRUE, FALSE} /\ a.restarted \in {h.force, FALSE}
    <3> HIDE DEF after
    <3>1. CASE a = Answer(dev[w], FALSE, "none")
      BY <3>1 DEF Answer
    <3>2. CASE a = [dev |-> after, ok |-> TRUE, restarted |-> h.force, fault |-> "none"]
      BY <3>2
    <3>3. CASE a = [dev |-> after, ok |-> TRUE, restarted |-> FALSE, fault |-> "restart"]
      BY <3>3
    <3>4. CASE a = Answer(after, FALSE, "eval")
      BY <3>4 DEF Answer
    <3> QED BY <2>1, <3>1, <3>2, <3>3, <3>4
  <2> HIDE DEF after
  <2> QED BY <1>1, <1>1c, <2>2, <2>3
<1>4. CASE a \in Reset(w)
  <2> DEFINE reset == [dev[w] EXCEPT !.data = "baseline"]
  <2>1. \/ a = Answer(dev[w], FALSE, "none") \/ a = Answer(dev[w], TRUE, "restore")
        \/ a = Answer(reset, TRUE, "none")
    BY <1>4 DEF Reset
  <2>2. reset \in Backends
    BY <1>1, BackendType
  <2>3. a.dev \in {dev[w], reset} /\ a.ok \in {TRUE, FALSE} /\ a.restarted = FALSE
    <3> HIDE DEF reset
    <3>1. CASE a = Answer(dev[w], FALSE, "none")
      BY <3>1 DEF Answer
    <3>2. CASE a = Answer(dev[w], TRUE, "restore")
      BY <3>2 DEF Answer
    <3>3. CASE a = Answer(reset, TRUE, "none")
      BY <3>3 DEF Answer
    <3> QED BY <2>1, <3>1, <3>2, <3>3
  <2> HIDE DEF reset
  <2> QED BY <1>1, <2>2, <2>3
<1>5. CASE a \in CleanUp(w)
  <2>1. PICK x \in {dev[w].data, "none"} :
          a = Answer([dev[w] EXCEPT !.ready = FALSE, !.data = x], TRUE, "none")
    BY <1>5 DEF CleanUp
  <2> QED BY <1>1, <2>1, BackendType DEF Answer
<1> QED BY <1>2, <1>3, <1>4, <1>5 DEF Answers

\* The windows and the orphans stay, the data changes: what an answer does to a backend.
LEMMA AnswerWindow ==
  ASSUME TypeInv, NEW w \in Workers, NEW h \in handlers[w], NEW a \in Answers(w, h),
         agent[w].build = "current"
  PROVE  (a.dev).env = "live" =>
            \/ (a.dev).window = h.session
            \/ dev[w].env = "live" /\ (a.dev).window = dev[w].window
<1>1. dev[w] \in Backends
  BY DEF TypeInv
<1>1a. dev[w] = [env |-> dev[w].env, ready |-> dev[w].ready, window |-> dev[w].window,
                 data |-> dev[w].data]
  BY <1>1 DEF Backends
<1>2. CASE a \in SetUp(w, h)
  BY <1>1a, <1>2 DEF SetUp, Answer
<1>3. CASE a \in RunEval(w, h)
  <2>1. a.dev \in {dev[w], [dev[w] EXCEPT !.data = "drifted"]}
    BY <1>3 DEF RunEval, Answer
  <2> QED BY <1>1a, <2>1
<1>4. CASE a \in Reset(w)
  <2>1. a.dev \in {dev[w], [dev[w] EXCEPT !.data = "baseline"]}
    BY <1>4 DEF Reset, Answer
  <2> QED BY <1>1a, <2>1
<1>5. CASE a \in CleanUp(w)
  <2>1. PICK x \in {dev[w].data, "none"} :
          a = Answer([dev[w] EXCEPT !.ready = FALSE, !.data = x], TRUE, "none")
    BY <1>5 DEF CleanUp
  <2> QED BY <1>1a, <2>1 DEF Answer
<1> QED BY <1>2, <1>3, <1>4, <1>5 DEF Answers

LEMMA RequestType ==
  ASSUME NEW h \in Requests
  PROVE  [h EXCEPT !.attached = FALSE] \in Requests /\ [h EXCEPT !.running = TRUE] \in Requests
<1>1. [h EXCEPT !.attached = FALSE] \in Requests
  BY DEF Requests
<1>2. [h EXCEPT !.running = TRUE] \in Requests
  BY DEF Requests
<1> QED BY <1>1, <1>2

\* The three maps, one entry of which changes, or all.
LEMMA MapTypes ==
  ASSUME TypeInv
  PROVE  /\ \A w : [dev EXCEPT ![w] = NewBackend(@)] \in [Workers -> Backends]
         /\ [w \in Workers |-> NewBackend(dev[w])] \in [Workers -> Backends]
         /\ \A w : \A r \in SUBSET Requests :
               [handlers EXCEPT ![w] = r] \in [Workers -> SUBSET Requests]
         /\ \A w \in Workers : {[h EXCEPT !.attached = FALSE] : h \in handlers[w]} \in SUBSET Requests
         /\ \A w \in Workers : handlers[w] \in SUBSET Requests
<1>1. dev \in [Workers -> Backends] /\ handlers \in [Workers -> SUBSET Requests]
  BY DEF TypeInv
<1>2. \A d \in Backends : NewBackend(d) \in Backends
  BY BackendType
<1>3. \A h \in Requests : [h EXCEPT !.attached = FALSE] \in Requests
  BY RequestType
<1>4. \A w : [dev EXCEPT ![w] = NewBackend(@)] \in [Workers -> Backends]
  BY <1>1, <1>2
<1>5. [w \in Workers |-> NewBackend(dev[w])] \in [Workers -> Backends]
  BY <1>1, <1>2
<1>6. \A w : \A r \in SUBSET Requests :
         [handlers EXCEPT ![w] = r] \in [Workers -> SUBSET Requests]
  BY <1>1
<1>7. \A w \in Workers : handlers[w] \in SUBSET Requests
  BY <1>1
<1>8. \A w \in Workers : {[h EXCEPT !.attached = FALSE] : h \in handlers[w]} \in SUBSET Requests
  BY <1>3, <1>7
<1> QED BY <1>4, <1>5, <1>6, <1>7, <1>8

LEMMA NextType == TypeInv /\ [Next]_vars => TypeInv'
<1> SUFFICES ASSUME TypeInv, [Next]_vars PROVE TypeInv'
  OBVIOUS
<1> USE ConstantsType DEF Ending, Phases, Calling
<1>1. NoCall \in [Workers -> {"none", "waiting", "ok", "failed"}]
  BY DEF NoCall
<1>2. [w \in Workers |-> NewWorker] \in [Workers -> Marks]
  BY DEF NewWorker, Marks
<1>3. ASSUME NEW b \in Bootstraps, Start(b) PROVE TypeInv'
  BY <1>1, <1>2, <1>3 DEF Start, Call, TypeInv
<1>4. CASE Bootstrap
  <2>1. PICK w : \/ /\ Launched(w) /\ UNCHANGED faults
                    /\ IF due = {w} THEN Call("health", Workers) ELSE Call("bootstrap", due \ {w})
                 \/ Failing("launch") /\ Spend /\ Abort /\ UNCHANGED <<agent, dev, handlers>>
    BY <1>4 DEF Bootstrap
  <2>2. phase = "bootstrap" /\ UNCHANGED <<session, bootstrap, gen, worker, got>>
    BY <1>4 DEF Bootstrap
  <2>3. /\ agent' \in [Workers -> Agents]
        /\ dev' \in [Workers -> Backends] /\ handlers' \in [Workers -> SUBSET Requests]
    <3>1. CASE UNCHANGED <<agent, dev, handlers>>
      BY <3>1 DEF TypeInv
    <3>2. CASE /\ agent' = [agent EXCEPT ![w] = [up |-> TRUE, hand |-> FALSE, build |-> "current"]]
               /\ dev' = [dev EXCEPT ![w] = NewBackend(@)]
               /\ handlers' = [handlers EXCEPT ![w] = {}]
      <4>1. agent' \in [Workers -> Agents]
        BY <3>2 DEF TypeInv, Agents
      <4> QED BY <3>2, <4>1, MapTypes
    <3> QED BY <2>1, <3>1, <3>2 DEF Launched
  <2>4. phase' \in Phases /\ due' \subseteq Workers /\ call' = NoCall
    BY <2>1 DEF Call, Abort, TypeInv
  <2>5. faults' \in 0 .. MaxFaults
    BY <2>1 DEF Failing, Spend, TypeInv
  <2> QED BY <1>1, <2>2, <2>3, <2>4, <2>5 DEF TypeInv
<1>5. CASE WaitForAgents \/ SetupReturns \/ CleanupReturns \/ \E remove \in BOOLEAN : Teardown(remove)
  BY <1>1, <1>5 DEF WaitForAgents, SetupReturns, CleanupReturns, Teardown, Call, Abort, TypeInv
<1>6. CASE RescueAll
  BY <1>1, <1>2, <1>6 DEF RescueAll, Call, TypeInv
<1>7. CASE \E targets \in SUBSET Workers : Exploit(targets)
  BY <1>1, <1>7 DEF Exploit, NextGeneration, Call, Abort, TypeInv
<1>8. CASE RescueReturns
  BY <1>1, <1>8 DEF RescueReturns, NextGeneration, Call, Abort, TypeInv
<1>9. CASE Shutdown
  <2>1. agent' \in [Workers -> Agents]
    <3>1. agent' = [w \in Workers |-> [agent[w] EXCEPT !.up = FALSE, !.hand = FALSE]]
      BY <1>9 DEF Shutdown
    <3>2. \A w \in Workers : agent[w] \in Agents
      BY DEF TypeInv
    <3> QED BY <3>1, <3>2, AgentType
  <2>2. dev' \in [Workers -> Backends] /\ handlers' \in [Workers -> SUBSET Requests]
    BY <1>9, MapTypes DEF Shutdown
  <2>3. /\ phase' = "off" /\ due' = {} /\ call' = NoCall /\ gen' = 0 /\ bootstrap' = TRUE
        /\ worker' = [w \in Workers |-> NewWorker] /\ got' = [w \in Workers |-> {}]
        /\ UNCHANGED <<session, faults>>
    BY <1>9 DEF Shutdown, Forget, Call
  <2> QED BY <1>1, <1>2, <2>1, <2>2, <2>3 DEF TypeInv
<1>10. CASE Killed
  <2>1. handlers' \in [Workers -> SUBSET Requests]
    BY <1>10, MapTypes DEF Killed
  <2>2. /\ phase' = "off" /\ due' = {} /\ call' = NoCall /\ gen' = 0 /\ bootstrap' = TRUE
        /\ worker' = [w \in Workers |-> NewWorker] /\ got' = [w \in Workers |-> {}]
        /\ UNCHANGED <<session, agent, dev>> /\ faults' = faults + 1 /\ faults < MaxFaults
    BY <1>10 DEF Killed, Forget, Call, Failing, Spend
  <2> QED BY <1>1, <1>2, <2>1, <2>2 DEF TypeInv
<1>11. ASSUME NEW w \in Workers, Send(w) PROVE TypeInv'
  <2>1. /\ UNCHANGED <<session, bootstrap, phase, gen, due, worker, got, agent, dev, faults>>
        /\ phase \in Calling
    BY <1>11 DEF Send
  <2>2. call' \in [Workers -> {"none", "waiting", "ok", "failed"}]
    <3>1. call' = [call EXCEPT ![w] = "waiting"] \/ call' = [call EXCEPT ![w] = "failed"]
      BY <1>11 DEF Send
    <3>2. call \in [Workers -> {"none", "waiting", "ok", "failed"}]
      BY DEF TypeInv
    <3> QED BY <3>1, <3>2
  <2>3. ASSUME NEW r \in BOOLEAN
        PROVE  [op |-> phase, attached |-> TRUE, running |-> r, session |-> session,
                force |-> worker[w].force] \in Requests
    BY <2>1 DEF Requests, Marks, TypeInv
  <2>4. handlers[w] \in SUBSET Requests /\ (handlers[w] = {}) \in BOOLEAN
    BY MapTypes
  <2>5. PICK r \in BOOLEAN :
          \/ handlers' = handlers
          \/ handlers' = [handlers EXCEPT ![w] = @ \cup
               {[op |-> phase, attached |-> TRUE, running |-> r, session |-> session,
                 force |-> worker[w].force]}]
    BY <1>11, <2>4 DEF Send
  <2>6. handlers' \in [Workers -> SUBSET Requests]
    <3>1. handlers \in [Workers -> SUBSET Requests]
      BY DEF TypeInv
    <3> DEFINE sent == [op |-> phase, attached |-> TRUE, running |-> r, session |-> session,
                        force |-> worker[w].force]
    <3>2. sent \in Requests
      BY <2>3
    <3>3. handlers' = handlers \/ handlers' = [handlers EXCEPT ![w] = @ \cup {sent}]
      BY <2>5
    <3> HIDE DEF sent
    <3> QED BY <3>1, <3>2, <3>3
  <2> QED BY <2>1, <2>2, <2>6 DEF TypeInv
<1>12. ASSUME NEW w \in Workers, GiveUp(w) PROVE TypeInv'
  <2>1. UNCHANGED <<session, bootstrap, phase, gen, due, worker, got, agent, dev>>
    BY <1>12 DEF GiveUp
  <2>2. call' \in [Workers -> {"none", "waiting", "ok", "failed"}]
    BY <1>12 DEF GiveUp, TypeInv
  <2>3. handlers' \in [Workers -> SUBSET Requests]
    BY <1>12, MapTypes DEF GiveUp, Detached
  <2>4. faults' = faults \/ (faults' = faults + 1 /\ faults < MaxFaults)
    BY <1>12 DEF GiveUp, TimesOut, Failing
  <2> QED BY <2>1, <2>2, <2>3, <2>4 DEF TypeInv
<1>13. ASSUME NEW w \in Workers, NEW h \in handlers[w], Begin(w, h) PROVE TypeInv'
  <2>1. h \in Requests /\ handlers[w] \in SUBSET Requests
    BY MapTypes
  <2>2. (handlers[w] \ {h}) \cup {[h EXCEPT !.running = TRUE]} \in SUBSET Requests
    BY <2>1, RequestType
  <2>3. handlers' \in [Workers -> SUBSET Requests]
    BY <1>13, <2>2, MapTypes DEF Begin
  <2> QED BY <1>13, <2>3 DEF Begin, TypeInv
<1>14. ASSUME NEW w \in Workers, NEW h \in handlers[w], NEW a \in Answers(w, h),
              NEW arrives \in BOOLEAN, Finish(w, h, a, arrives)
       PROVE  TypeInv'
  <2>1. UNCHANGED <<session, bootstrap, phase, gen, due, agent>>
    BY <1>14 DEF Finish
  <2>2. dev' \in [Workers -> Backends]
    BY <1>14, AnswerType DEF Finish, TypeInv
  <2>3. handlers' \in [Workers -> SUBSET Requests]
    <3>1. handlers[w] \ {h} \in SUBSET Requests
      BY MapTypes
    <3> QED BY <1>14, <3>1, MapTypes DEF Finish
  <2>4. call' \in [Workers -> {"none", "waiting", "ok", "failed"}]
    BY <1>14 DEF Finish, TypeInv
  <2>5. faults' = faults \/ (faults' = faults + 1 /\ faults < MaxFaults)
    BY <1>14 DEF Finish, Failing
  <2>6. worker' \in [Workers -> Marks]
    <3>1. worker' = worker \/ worker' = Credited(w, h, a)
      BY <1>14 DEF Finish
    <3>2. Credited(w, h, a) \in [Workers -> Marks]
      <4>1. worker \in [Workers -> Marks]
        BY DEF TypeInv
      <4> DEFINE f == IF h.force /\ a.restarted THEN FALSE ELSE worker[w].force
                 b == worker[w].booted \/ (a.restarted /\ h.force)
      <4>2. Credited(w, h, a) = [worker EXCEPT ![w] = [worker[w] EXCEPT !.force = f, !.booted = b]]
        BY <4>1 DEF Credited
      <4>3. f \in BOOLEAN /\ b \in BOOLEAN
        BY <4>1 DEF Marks
      <4> HIDE DEF f, b
      <4>4. worker[w] \in Marks
        BY <4>1
      <4>5. [worker[w] EXCEPT !.force = f, !.booted = b] \in Marks
        BY <4>3, <4>4 DEF Marks
      <4> QED BY <4>1, <4>2, <4>5
    <3> QED BY <3>1, <3>2 DEF TypeInv
  <2>7. got' = got \/ got' = [got EXCEPT ![w] = {dev[w].window}]
    BY <1>14 DEF Finish
  <2>8. dev[w].window \in 0 .. MaxSessions
    BY DEF TypeInv, Backends
  <2>9. /\ got' \in [Workers -> SUBSET (0 .. MaxSessions)]
        /\ \A v \in Workers : got'[v] = {} \/ \E x \in 0 .. MaxSessions : got'[v] = {x}
    <3>1. /\ got \in [Workers -> SUBSET (0 .. MaxSessions)]
          /\ \A v \in Workers : got[v] = {} \/ \E x \in 0 .. MaxSessions : got[v] = {x}
      BY DEF TypeInv
    <3>2. CASE got' = [got EXCEPT ![w] = {dev[w].window}]
      <4>1. {dev[w].window} \in SUBSET (0 .. MaxSessions)
        BY <2>8
      <4>2. got' \in [Workers -> SUBSET (0 .. MaxSessions)]
        BY <3>1, <3>2, <4>1
      <4>3. \A v \in Workers : got'[v] = IF v = w THEN {dev[w].window} ELSE got[v]
        BY <3>1, <3>2
      <4> QED BY <2>8, <3>1, <4>2, <4>3
    <3> QED BY <2>7, <3>1, <3>2
  <2> QED BY <2>1, <2>2, <2>3, <2>4, <2>5, <2>6, <2>9 DEF TypeInv
<1>15. ASSUME NEW w \in Workers, AgentDies(w) PROVE TypeInv'
  <2>1. agent' \in [Workers -> Agents]
    <3>1. agent' = [agent EXCEPT ![w] = [agent[w] EXCEPT !.up = FALSE]]
      BY <1>15 DEF AgentDies, TypeInv
    <3>2. agent \in [Workers -> Agents] /\ agent[w] \in Agents
      BY DEF TypeInv
    <3> QED BY <3>1, <3>2, AgentType
  <2>2. dev' \in [Workers -> Backends] /\ handlers' \in [Workers -> SUBSET Requests]
    BY <1>15, MapTypes DEF AgentDies
  <2>3. /\ UNCHANGED <<session, bootstrap, phase, gen, due, call, worker, got>>
        /\ faults' = faults + 1 /\ faults < MaxFaults
    BY <1>15 DEF AgentDies, Failing, Spend
  <2> QED BY <2>1, <2>2, <2>3 DEF TypeInv
<1>16. CASE StartedByHand
  <2>1. agent' \in [Workers -> Agents]
    <3>1. agent' = [w \in Workers |-> IF agent[w].up THEN agent[w]
                                      ELSE [agent[w] EXCEPT !.up = TRUE, !.hand = TRUE]]
      BY <1>16 DEF StartedByHand
    <3>2. \A w \in Workers : agent[w] \in Agents
      BY DEF TypeInv
    <3> QED BY <3>1, <3>2, AgentType
  <2> QED BY <1>16, <2>1 DEF StartedByHand, TypeInv
<1>17. CASE UNCHANGED vars
  BY <1>17 DEF vars, TypeInv
<1> QED BY <1>3, <1>4, <1>5, <1>6, <1>7, <1>8, <1>9, <1>10, <1>11, <1>12, <1>13, <1>14, <1>15,
           <1>16, <1>17 DEF Next, Coordinator, Device

-----------------------------------------------------------------------------
(* What is known of the calls and of the agents this session launched.     *)

CallInv ==
    \A w \in Workers : \A h \in handlers[w] : h.attached =>
        /\ phase \in Calling /\ w \in due /\ call[w] = "waiting" /\ h.op = phase
        /\ \A g \in handlers[w] : g.attached => g = h

\* The session has got past the launch of this agent, and goes on.
Past(w) == \/ phase \in {"health", "setup", "eval", "recover", "reset"}
           \/ phase = "bootstrap" /\ w \notin due
OurAgent(w) ==
    /\ agent[w].build = "current"
    /\ \A h \in handlers[w] : h.session = session
    /\ dev[w].env = "live" => dev[w].window = session
LaunchInv ==
    bootstrap => \A w \in Workers : Past(w) /\ ~agent[w].hand => OurAgent(w)
GotInv ==
    /\ phase \in {"off", "bootstrap"} => \A w \in Workers : got[w] = {}
    /\ WindowIsTheSessions
Inv == TypeInv /\ CallInv /\ LaunchInv /\ GotInv

NoneWaits == \A w \in Workers : \A h \in handlers[w] : ~h.attached

LEMMA InitInv == Init => Inv
<1> SUFFICES ASSUME Init PROVE Inv
  OBVIOUS
<1>1. CallInv /\ LaunchInv /\ GotInv
  BY DEF Init, CallInv, LaunchInv, GotInv, WindowIsTheSessions, Past
<1> QED BY <1>1, InitType DEF Inv

LEMMA NobodyWaits == Inv /\ (phase \notin Calling \/ Returned) => NoneWaits
  BY DEF Inv, CallInv, NoneWaits, Returned

\* An action of the coordinator that only goes from one phase to the next.
LEMMA PhaseInv ==
  ASSUME Inv, TypeInv', NoneWaits, phase \notin {"off", "bootstrap"},
         phase' \notin {"off", "bootstrap"},
         phase' \in {"health", "setup", "eval", "recover", "reset"} =>
             phase \in {"health", "setup", "eval", "recover", "reset"},
         UNCHANGED <<session, bootstrap, got, agent, dev, handlers>>
  PROVE  Inv'
<1>1. CallInv'
  BY DEF NoneWaits, CallInv
<1>2. LaunchInv'
  BY DEF Inv, LaunchInv, OurAgent, Past
<1>3. GotInv'
  BY DEF Inv, GotInv, WindowIsTheSessions
<1> QED BY <1>1, <1>2, <1>3 DEF Inv

\* The coordinator's process ends; its requests, if they go on, are orphans.
LEMMA ForgetInv ==
  ASSUME TypeInv', phase' = "off", NoneWaits', got' = [w \in Workers |-> {}] PROVE Inv'
  BY DEF Inv, CallInv, LaunchInv, GotInv, WindowIsTheSessions, Past, NoneWaits

LEMMA StartInv == ASSUME Inv, TypeInv', NEW b \in Bootstraps, Start(b) PROVE Inv'
<1>1. NoneWaits
  BY NobodyWaits DEF Start, Calling
<1>2. /\ got' = [w \in Workers |-> {}] /\ handlers' = handlers /\ bootstrap' = b
      /\ due' = Workers /\ phase' = IF b THEN "bootstrap" ELSE "health"
  BY DEF Start, Call
<1> QED BY <1>1, <1>2 DEF Inv, CallInv, LaunchInv, GotInv, WindowIsTheSessions, Past, NoneWaits

LEMMA BootstrapInv == Inv /\ TypeInv' /\ Bootstrap => Inv'
<1> SUFFICES ASSUME Inv, TypeInv', Bootstrap PROVE Inv'
  OBVIOUS
<1>1. NoneWaits
  BY NobodyWaits DEF Bootstrap, Calling
<1>2. phase = "bootstrap" /\ UNCHANGED <<session, bootstrap, gen, worker, got>>
      /\ phase' \in {"bootstrap", "health", "teardown"} /\ \A w \in Workers : got[w] = {}
  BY DEF Bootstrap, Call, Abort, Inv, GotInv
<1>3. GotInv'
  BY <1>2 DEF GotInv, WindowIsTheSessions
<1>4. PICK w : \/ /\ Launched(w)
                  /\ IF due = {w} THEN Call("health", Workers) ELSE Call("bootstrap", due \ {w})
               \/ Abort /\ UNCHANGED <<agent, dev, handlers>>
  BY DEF Bootstrap
<1>5. CASE Abort /\ UNCHANGED <<agent, dev, handlers>>
  BY <1>1, <1>3, <1>5 DEF Abort, Call, Inv, CallInv, LaunchInv, Past, NoneWaits
<1>6. CASE /\ Launched(w)
           /\ IF due = {w} THEN Call("health", Workers) ELSE Call("bootstrap", due \ {w})
  <2>1. \A v \in Workers : v # w =>
           agent'[v] = agent[v] /\ dev'[v] = dev[v] /\ handlers'[v] = handlers[v]
    BY <1>6 DEF Launched, Inv, TypeInv
  <2>2. w \in Workers =>
           \/ UNCHANGED <<agent, dev, handlers>> /\ agent[w].hand
           \/ agent'[w].build = "current" /\ handlers'[w] = {} /\ (dev'[w]).env = "none"
    <3>1. CASE agent[w].up /\ agent[w].hand
      BY <1>6, <3>1 DEF Launched
    <3>2. CASE ~(agent[w].up /\ agent[w].hand) /\ w \in Workers
      <4>1. /\ agent'[w].build = "current" /\ handlers'[w] = {}
            /\ dev'[w] = NewBackend(dev[w])
        BY <1>6, <3>2 DEF Launched, Inv, TypeInv
      <4>2. dev[w] \in Backends
        BY <3>2 DEF Inv, TypeInv
      <4>3. NewBackend(dev[w]).env = "none"
        BY <4>2 DEF NewBackend, Backends
      <4> QED BY <4>1, <4>3
    <3> QED BY <3>1, <3>2
  <2>3. CallInv'
    BY <1>1, <2>1, <2>2 DEF CallInv, NoneWaits
  <2>4. \A v \in Workers : Past(v)' => v = w \/ Past(v)
    BY <1>2, <1>6 DEF Past, Call
  <2>5. LaunchInv'
    <3>1. SUFFICES ASSUME bootstrap', NEW v \in Workers, Past(v)', ~agent'[v].hand
                   PROVE  OurAgent(v)'
      BY DEF LaunchInv
    <3>2. CASE v = w
      BY <2>2, <3>1, <3>2 DEF OurAgent
    <3>3. CASE v # w
      BY <1>2, <2>1, <2>4, <3>1, <3>3 DEF Inv, LaunchInv, OurAgent
    <3> QED BY <3>2, <3>3
  <2> QED BY <1>3, <2>3, <2>5 DEF Inv
<1> QED BY <1>4, <1>5, <1>6

\* A step at one device: the others keep what they have.
LEMMA DeviceInv ==
  ASSUME Inv, TypeInv', NEW w \in Workers,
         UNCHANGED <<session, bootstrap, phase, due>>,
         \A v \in Workers \ {w} : /\ agent'[v] = agent[v] /\ dev'[v] = dev[v] /\ got'[v] = got[v]
                                  /\ handlers'[v] = handlers[v] /\ call'[v] = call[v],
         agent'[w].hand = agent[w].hand,
         \A h \in handlers'[w] : h.attached =>
            /\ phase \in Calling /\ w \in due /\ call'[w] = "waiting" /\ h.op = phase
            /\ \A g \in handlers'[w] : g.attached => g = h,
         bootstrap /\ Past(w) /\ ~agent[w].hand => OurAgent(w)',
         got'[w] = got[w] \/ (phase = "eval" /\ (bootstrap => agent[w].hand \/ got'[w] \subseteq {session}))
  PROVE  Inv'
<1>1. CallInv'
  BY DEF Inv, CallInv
<1>2. \A v \in Workers : Past(v)' <=> Past(v)
  BY DEF Past
<1>3. LaunchInv'
  BY <1>2 DEF Inv, LaunchInv, OurAgent
<1>4. GotInv'
  BY DEF Inv, GotInv, WindowIsTheSessions
<1> QED BY <1>1, <1>3, <1>4 DEF Inv

LEMMA SendInv == ASSUME Inv, TypeInv', NEW w \in Workers, Send(w) PROVE Inv'
<1> DEFINE r == [op |-> phase, attached |-> TRUE, running |-> handlers[w] = {},
                 session |-> session, force |-> worker[w].force]
<1>1. /\ UNCHANGED <<session, bootstrap, phase, gen, due, worker, got, agent, dev, faults>>
      /\ phase \in Calling /\ w \in due /\ call[w] = "none"
  BY DEF Send
<1>2. \/ handlers' = handlers /\ call' = [call EXCEPT ![w] = "failed"]
      \/ handlers' = [handlers EXCEPT ![w] = @ \cup {r}] /\ call' = [call EXCEPT ![w] = "waiting"]
  BY DEF Send
<1>3. \A h \in handlers[w] : ~h.attached
  BY <1>1 DEF Inv, CallInv
<1>4. r.op = phase /\ r.session = session
  OBVIOUS
<1> HIDE DEF r
<1>5. /\ \A v \in Workers \ {w} : handlers'[v] = handlers[v] /\ call'[v] = call[v]
      /\ \/ handlers'[w] = handlers[w]
         \/ handlers'[w] = handlers[w] \cup {r} /\ call'[w] = "waiting"
  BY <1>2 DEF Inv, TypeInv
<1>6. \A h \in handlers'[w] : h.attached =>
          /\ phase \in Calling /\ w \in due /\ call'[w] = "waiting" /\ h.op = phase
          /\ \A g \in handlers'[w] : g.attached => g = h
  BY <1>1, <1>3, <1>4, <1>5
<1>7. bootstrap /\ Past(w) /\ ~agent[w].hand => OurAgent(w)'
  BY <1>1, <1>4, <1>5 DEF Inv, LaunchInv, OurAgent
<1> QED BY <1>1, <1>5, <1>6, <1>7, DeviceInv

LEMMA DetachedShape ==
  ASSUME NEW h \in Requests
  PROVE  /\ [h EXCEPT !.attached = FALSE].attached = FALSE
         /\ [h EXCEPT !.attached = FALSE].session = h.session
         /\ [h EXCEPT !.running = TRUE].attached = h.attached
         /\ [h EXCEPT !.running = TRUE].session = h.session
         /\ [h EXCEPT !.running = TRUE].op = h.op
  BY DEF Requests

LEMMA GiveUpInv == ASSUME Inv, TypeInv', NEW w \in Workers, GiveUp(w) PROVE Inv'
<1> DEFINE orphan(h) == [h EXCEPT !.attached = FALSE]
<1>1. UNCHANGED <<session, bootstrap, phase, gen, due, worker, got, agent, dev>>
  BY DEF GiveUp
<1>2. /\ handlers' = [handlers EXCEPT ![w] = {orphan(h) : h \in handlers[w]}]
      /\ call' = [call EXCEPT ![w] = "failed"]
  BY DEF GiveUp, Detached, Inv, TypeInv
<1>3. handlers[w] \in SUBSET Requests
  BY MapTypes DEF Inv
<1>4. \A h \in handlers[w] : orphan(h).attached = FALSE /\ orphan(h).session = h.session
  BY <1>3, DetachedShape
<1> HIDE DEF orphan
<1>5. /\ \A v \in Workers \ {w} : handlers'[v] = handlers[v] /\ call'[v] = call[v]
      /\ handlers'[w] = {orphan(h) : h \in handlers[w]}
  BY <1>2 DEF Inv, TypeInv
<1>6. \A h \in handlers'[w] : ~h.attached
  BY <1>4, <1>5
<1>7. bootstrap /\ Past(w) /\ ~agent[w].hand => OurAgent(w)'
  BY <1>1, <1>4, <1>5 DEF Inv, LaunchInv, OurAgent
<1> QED BY <1>1, <1>5, <1>6, <1>7, DeviceInv

LEMMA BeginInv ==
  ASSUME Inv, TypeInv', NEW w \in Workers, NEW h \in handlers[w], Begin(w, h) PROVE Inv'
<1> DEFINE b == [h EXCEPT !.running = TRUE]
<1>1. UNCHANGED <<session, bootstrap, phase, gen, due, call, worker, got, agent, dev>>
  BY DEF Begin
<1>2. /\ \A v \in Workers \ {w} : handlers'[v] = handlers[v]
      /\ handlers'[w] = (handlers[w] \ {h}) \cup {b}
  BY DEF Begin, Inv, TypeInv
<1>3. handlers[w] \in SUBSET Requests
  BY MapTypes DEF Inv
<1>4. b.attached = h.attached /\ b.session = h.session /\ b.op = h.op
  BY <1>3, DetachedShape
<1> HIDE DEF b
<1>5. \A g \in handlers[w] : g.attached =>
         /\ phase \in Calling /\ w \in due /\ call[w] = "waiting" /\ g.op = phase
         /\ \A f \in handlers[w] : f.attached => f = g
  BY DEF Inv, CallInv
<1>6. \A g \in handlers'[w] : g.attached =>
         /\ phase \in Calling /\ w \in due /\ call'[w] = "waiting" /\ g.op = phase
         /\ \A f \in handlers'[w] : f.attached => f = g
  BY <1>1, <1>2, <1>4, <1>5
<1>7. bootstrap /\ Past(w) /\ ~agent[w].hand => OurAgent(w)'
  BY <1>1, <1>2, <1>4 DEF Inv, LaunchInv, OurAgent
<1> QED BY <1>1, <1>2, <1>6, <1>7, DeviceInv

LEMMA UsableWindow ==
  ASSUME TypeInv, NEW w \in Workers, NEW h \in handlers[w], NEW a \in Answers(w, h),
         h.op = "eval", a.ok
  PROVE  dev[w].env = "live"
<1>1. dev[w].env \in {"none", "live"}
  BY DEF TypeInv, Backends
<1>2. a \in RunEval(w, h)
  BY DEF Answers
<1>3. Usable(dev[w])
  BY <1>2 DEF RunEval, Answer
<1> QED BY <1>1, <1>3 DEF Usable

LEMMA FinishInv ==
  ASSUME Inv, TypeInv', NEW w \in Workers, NEW h \in handlers[w], NEW a \in Answers(w, h),
         NEW arrives \in BOOLEAN, Finish(w, h, a, arrives)
  PROVE  Inv'
<1>1. UNCHANGED <<session, bootstrap, phase, gen, due, agent>>
  BY DEF Finish
<1>2. /\ dev' = [dev EXCEPT ![w] = a.dev] /\ handlers' = [handlers EXCEPT ![w] = @ \ {h}]
      /\ got' = got \/ /\ got' = [got EXCEPT ![w] = {dev[w].window}]
                       /\ h.attached /\ h.op = "eval" /\ a.ok
      /\ call' = call \/ \E c \in {"ok", "failed"} : h.attached /\ call' = [call EXCEPT ![w] = c]
  BY DEF Finish
<1>3. /\ \A v \in Workers \ {w} : /\ dev'[v] = dev[v] /\ got'[v] = got[v]
                                  /\ handlers'[v] = handlers[v] /\ call'[v] = call[v]
      /\ dev'[w] = a.dev /\ handlers'[w] = handlers[w] \ {h}
      /\ h.attached \/ call'[w] = call[w]
      /\ got'[w] = got[w] \/ /\ got'[w] = {dev[w].window}
                             /\ h.attached /\ h.op = "eval" /\ a.ok
  BY <1>2 DEF Inv, TypeInv
<1>4. \A g \in handlers[w] : g.attached =>
         /\ phase \in Calling /\ w \in due /\ call[w] = "waiting" /\ g.op = phase
         /\ \A f \in handlers[w] : f.attached => f = g
  BY DEF Inv, CallInv
<1>5. \A g \in handlers'[w] : g.attached =>
         /\ phase \in Calling /\ w \in due /\ call'[w] = "waiting" /\ g.op = phase
         /\ \A f \in handlers'[w] : f.attached => f = g
  BY <1>3, <1>4
<1>6. bootstrap /\ Past(w) /\ ~agent[w].hand => OurAgent(w)'
  <2>1. SUFFICES ASSUME bootstrap, Past(w), ~agent[w].hand PROVE OurAgent(w)'
    OBVIOUS
  <2>2. OurAgent(w)
    BY <2>1 DEF Inv, LaunchInv
  <2>3. (a.dev).env = "live" => (a.dev).window = session
    BY <2>2, AnswerWindow DEF OurAgent, Inv
  <2> QED BY <1>1, <1>3, <2>2, <2>3 DEF OurAgent
<1>7. got'[w] = got[w] \/ (phase = "eval" /\ (bootstrap => agent[w].hand \/ got'[w] \subseteq {session}))
  <2>1. SUFFICES ASSUME got'[w] # got[w]
                 PROVE  phase = "eval" /\ (bootstrap => agent[w].hand \/ got'[w] \subseteq {session})
    OBVIOUS
  <2>2. got'[w] = {dev[w].window} /\ h.attached /\ h.op = "eval" /\ a.ok
    BY <1>3, <2>1
  <2>3. phase = "eval" /\ dev[w].env = "live"
    BY <1>4, <2>2, UsableWindow DEF Inv
  <2>4. ASSUME bootstrap, ~agent[w].hand PROVE got'[w] \subseteq {session}
    <3>1. OurAgent(w)
      BY <2>3, <2>4 DEF Inv, LaunchInv, Past
    <3> QED BY <2>2, <2>3, <3>1 DEF OurAgent
  <2> QED BY <2>3, <2>4
<1> QED BY <1>1, <1>3, <1>5, <1>6, <1>7, DeviceInv

LEMMA DiesInv == ASSUME Inv, TypeInv', NEW w \in Workers, AgentDies(w) PROVE Inv'
<1>1. UNCHANGED <<session, bootstrap, phase, gen, due, call, worker, got>>
  BY DEF AgentDies
<1>2. agent[w] \in Agents /\ dev[w] \in Backends
  BY DEF Inv, TypeInv
<1>3. /\ \A v \in Workers \ {w} : /\ agent'[v] = agent[v] /\ dev'[v] = dev[v]
                                  /\ handlers'[v] = handlers[v]
      /\ agent'[w] = [agent[w] EXCEPT !.up = FALSE] /\ handlers'[w] = {}
      /\ dev'[w] = NewBackend(dev[w])
  BY DEF AgentDies, Inv, TypeInv
<1>4. agent'[w].hand = agent[w].hand /\ agent'[w].build = agent[w].build
  BY <1>2, <1>3 DEF Agents
<1>5. (dev'[w]).env = "none"
  BY <1>2, <1>3 DEF NewBackend, Backends
<1>6. bootstrap /\ Past(w) /\ ~agent[w].hand => OurAgent(w)'
  BY <1>3, <1>4, <1>5 DEF Inv, LaunchInv, OurAgent
<1> QED BY <1>1, <1>3, <1>4, <1>6, DeviceInv

LEMMA OffInv == Inv /\ TypeInv' /\ (Shutdown \/ Killed \/ StartedByHand) => Inv'
<1> SUFFICES ASSUME Inv, TypeInv', Shutdown \/ Killed \/ StartedByHand PROVE Inv'
  OBVIOUS
<1>1. CASE Shutdown
  <2>1. phase' = "off" /\ got' = [w \in Workers |-> {}] /\ handlers' = [w \in Workers |-> {}]
    BY <1>1 DEF Shutdown, Call, Forget
  <2> QED BY <2>1, ForgetInv DEF NoneWaits
<1>2. CASE Killed
  <2>1. /\ phase' = "off" /\ got' = [w \in Workers |-> {}]
        /\ handlers' = [w \in Workers |-> {[h EXCEPT !.attached = FALSE] : h \in handlers[w]}]
    BY <1>2 DEF Killed, Call, Forget
  <2>2. \A w \in Workers : \A h \in handlers[w] : [h EXCEPT !.attached = FALSE].attached = FALSE
    <3>1. \A w \in Workers : handlers[w] \in SUBSET Requests
      BY MapTypes DEF Inv
    <3> QED BY <3>1, DetachedShape
  <2>3. NoneWaits'
    BY <2>1, <2>2 DEF NoneWaits
  <2> QED BY <2>1, <2>3, ForgetInv
<1>3. CASE StartedByHand
  <2>1. phase' = "off" /\ phase = "off" /\ UNCHANGED <<session, bootstrap, handlers, got>>
    BY <1>3 DEF StartedByHand
  <2>2. NoneWaits'
    BY <2>1, NobodyWaits DEF NoneWaits, Calling
  <2>3. got' = [w \in Workers |-> {}]
    BY <2>1 DEF Inv, GotInv, TypeInv
  <2> QED BY <2>1, <2>2, <2>3, ForgetInv
<1> QED BY <1>1, <1>2, <1>3

LEMMA CoordinatorInv ==
  ASSUME Inv, TypeInv',
         \/ WaitForAgents \/ SetupReturns \/ RescueAll \/ RescueReturns \/ CleanupReturns
         \/ \E targets \in SUBSET Workers : Exploit(targets)
         \/ \E remove \in BOOLEAN : Teardown(remove)
  PROVE  Inv'
<1>1. phase \notin Calling \/ Returned
  BY DEF WaitForAgents, SetupReturns, RescueAll, RescueReturns, CleanupReturns, Exploit,
     Teardown, Calling
<1>2. NoneWaits
  BY <1>1, NobodyWaits
<1>3. /\ UNCHANGED <<session, bootstrap, got, agent, dev, handlers>>
      /\ phase \notin {"off", "bootstrap"} /\ phase' \notin {"off", "bootstrap"}
      /\ phase' \in {"health", "setup", "eval", "recover", "reset"} =>
            phase \in {"health", "setup", "eval", "recover", "reset"}
  BY DEF WaitForAgents, SetupReturns, RescueAll, RescueReturns, CleanupReturns, Exploit,
     Teardown, NextGeneration, Call, Abort
<1> QED BY <1>2, <1>3, PhaseInv

LEMMA NextInv == Inv /\ [Next]_vars => Inv'
<1> SUFFICES ASSUME Inv, [Next]_vars PROVE Inv'
  OBVIOUS
<1>1. TypeInv'
  BY NextType DEF Inv
<1>2. CASE UNCHANGED vars
  BY <1>1, <1>2 DEF vars, Inv, CallInv, LaunchInv, GotInv, WindowIsTheSessions, Past, OurAgent
<1>3. CASE Coordinator
  BY <1>1, <1>3, BootstrapInv, CoordinatorInv, OffInv, SendInv DEF Coordinator
<1>4. ASSUME NEW w \in Workers, GiveUp(w) \/ Device(w) \/ AgentDies(w) PROVE Inv'
  BY <1>1, <1>4, GiveUpInv, BeginInv, FinishInv, DiesInv DEF Device
<1>5. ASSUME NEW b \in Bootstraps, Start(b) PROVE Inv'
  BY <1>1, <1>5, StartInv
<1> QED BY <1>1, <1>2, <1>3, <1>4, <1>5, OffInv DEF Next

(* Every variable keeps its type.                                          *)
THEOREM TypeCorrect == Spec => []TypeOK
<1>1. Init => TypeInv
  BY InitType
<1>2. TypeInv /\ [Next]_vars => TypeInv'
  BY NextType
<1>3. TypeInv => TypeOK
  <2>1. SUFFICES ASSUME TypeInv, NEW w \in Workers PROVE Cardinality(got[w]) <= 1
    BY MapTypes DEF TypeInv, TypeOK, Agents, Marks
  <2>2. CASE got[w] = {}
    BY <2>2, FS_EmptySet
  <2>3. ASSUME NEW x, got[w] = {x} PROVE Cardinality(got[w]) <= 1
    <3>1. Cardinality({x}) = 1
      BY FS_Singleton
    <3> QED BY <2>3, <3>1
  <2> QED BY <2>1, <2>2, <2>3 DEF TypeInv
<1> QED BY <1>1, <1>2, <1>3, PTL DEF Spec

(* An agent that a session launched measures in the window this session    *)
(* sent, whatever requests earlier sessions, timeouts or killed            *)
(* coordinators have left behind at the devices.                           *)
THEOREM WindowsAreTheSessions == Spec => []WindowIsTheSessions
<1>1. Init => Inv
  BY InitInv
<1>2. Inv /\ [Next]_vars => Inv'
  BY NextInv
<1>3. Inv => WindowIsTheSessions
  BY DEF Inv, GotInv
<1> QED BY <1>1, <1>2, <1>3, PTL DEF Spec

(* The coordinator takes a forced restart for done only when the device    *)
(* has restarted for it.                                                   *)
THEOREM ForceReaches == Spec => []ForceReachesDevice
<1> DEFINE ForceInv == TypeInv /\ ForceReachesDevice
<1>1. Init => ForceInv
  <2>1. ASSUME Init PROVE ForceReachesDevice
    BY <2>1 DEF Init, ForceReachesDevice, NewWorker
  <2> QED BY <2>1, InitType
<1>2. ForceInv /\ [Next]_vars => ForceInv'
  <2> SUFFICES ASSUME TypeInv, ForceReachesDevice, [Next]_vars PROVE ForceReachesDevice'
    BY NextType
  <2>1. CASE worker' = worker
    BY <2>1 DEF ForceReachesDevice
  <2>2. CASE worker' = [w \in Workers |-> NewWorker]
    BY <2>2 DEF ForceReachesDevice, NewWorker
  <2>3. ASSUME NEW w \in Workers, NEW h, NEW a, worker' = Credited(w, h, a)
        PROVE  ForceReachesDevice'
    <3> DEFINE f == IF h.force /\ a.restarted THEN FALSE ELSE worker[w].force
               b == worker[w].booted \/ (a.restarted /\ h.force)
    <3>1. worker \in [Workers -> Marks]
      BY DEF TypeInv
    <3>2. worker' = [worker EXCEPT ![w] = [worker[w] EXCEPT !.force = f, !.booted = b]]
      BY <2>3, <3>1 DEF Credited
    <3>3. f \/ b
      BY DEF ForceReachesDevice
    <3> HIDE DEF f, b
    <3>4. worker'[w].force = f /\ worker'[w].booted = b
      BY <3>1, <3>2 DEF Marks
    <3>5. \A v \in Workers \ {w} : worker'[v] = worker[v]
      BY <3>1, <3>2
    <3> QED BY <3>3, <3>4, <3>5 DEF ForceReachesDevice
  <2>4. ASSUME NEW w \in Workers, Device(w)
        PROVE  worker' = worker \/ \E h, a : worker' = Credited(w, h, a)
    BY <2>4 DEF Device, Begin, Finish
  <2>5. worker' = worker \/ worker' = [w \in Workers |-> NewWorker]
           \/ \E w \in Workers : Device(w)
    BY DEF Next, Coordinator, vars, Start, Bootstrap, WaitForAgents, SetupReturns, RescueAll,
       Exploit, RescueReturns, Teardown, CleanupReturns, Shutdown, Send, GiveUp, AgentDies,
       StartedByHand, Killed, Forget
  <2> QED BY <2>1, <2>2, <2>3, <2>4, <2>5
<1>3. ForceInv => ForceReachesDevice
  OBVIOUS
<1> QED BY <1>1, <1>2, <1>3, PTL DEF Spec
=============================================================================
