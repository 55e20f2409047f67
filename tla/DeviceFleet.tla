---------------------------- MODULE DeviceFleet ----------------------------
(***************************************************************************)
(* Distributed tuning: a coordinator drives one agent per device over      *)
(* HTTP.  A request becomes a handler thread of the agent; handlers that   *)
(* touch the instance take the agent's lock one at a time, in any order.   *)
(* When the coordinator gives a request up, or dies, the handler goes on:  *)
(* it is an orphan then.                                                   *)
(***************************************************************************)
EXTENDS Naturals, FiniteSets

CONSTANTS NWorkers,
          Bootstraps,              \* the values of --bootstrap to consider
          Builds,                  \* what an agent found running may be
          MaxSessions, MaxGenerations,
          Faults, MaxFaults

AllFaults == {"launch", "die", "timeout", "reply", "setup", "eval", "restart", "restore",
              "kill"}

ASSUME DeviceFleetAssumption ==
    /\ NWorkers \in Nat \ {0} /\ Bootstraps \subseteq BOOLEAN
    /\ Builds \subseteq {"current", "silent", "major"}
    /\ MaxSessions \in Nat /\ MaxGenerations \in Nat \ {0} /\ MaxFaults \in Nat
    /\ Faults \subseteq AllFaults

Workers == 0 .. NWorkers - 1

VARIABLES
    session, bootstrap,   \* the coordinator's session; it launches the agents itself
    phase, gen,
    due,                  \* the workers whose device is called in this phase
    call,                 \* per worker: that call
    worker,               \* per worker: the coordinator's worker
    got,                  \* per worker: the window its last evaluation was measured in
    agent,                \* per device: the agent process; hand: started without a pidfile
    dev,                  \* per device: the agent's backend and the instance
    handlers,             \* per device: the requests its agent is processing (of those given
                          \* up, equal ones are one)
    faults

vars == <<session, bootstrap, phase, gen, due, call, worker, got, agent, dev, handlers, faults>>

Calling == {"setup", "eval", "recover", "reset", "cleanup"}
Phases == Calling \cup {"off", "bootstrap", "health", "evolve", "teardown", "shutdown"}

NoCall == [w \in Workers |-> "none"]
Failing(f) == f \in Faults /\ faults < MaxFaults
Spend == faults' = faults + 1

Call(p, ws) == phase' = p /\ due' = ws /\ call' = NoCall
Abort == Call("teardown", {})

\* BaseWorker.  booted: since force was set, the device has restarted.
NewWorker == [force |-> TRUE, booted |-> FALSE]

\* The coordinator's process ends, and what it knew with it.
Forget ==
    /\ worker' = [w \in Workers |-> NewWorker] /\ got' = [w \in Workers |-> {}]
    /\ gen' = 0 /\ bootstrap' = TRUE

\* An agent process that has just started: no backend objects, nothing running.
NewBackend(d) == [d EXCEPT !.env = "none", !.ready = FALSE, !.window = 0]

-----------------------------------------------------------------------------
(* Bringing the fleet up. *)

Start(b) ==
    /\ phase = "off" /\ session < MaxSessions
    /\ session' = session + 1 /\ bootstrap' = b /\ gen' = 0
    /\ Call(IF b THEN "bootstrap" ELSE "health", Workers)
    /\ worker' = [w \in Workers |-> NewWorker] /\ got' = [w \in Workers |-> {}]
    /\ UNCHANGED <<agent, dev, handlers, faults>>

\* Mutant: an agent that is found running is kept.
Launched_KeepsStale(w) ==
    IF agent[w].up THEN UNCHANGED <<agent, dev, handlers>>
    ELSE /\ agent' = [agent EXCEPT ![w] = [up |-> TRUE, hand |-> FALSE, build |-> "current"]]
         /\ dev' = [dev EXCEPT ![w] = NewBackend(@)]
         /\ handlers' = [handlers EXCEPT ![w] = {}]

\* Stop the agent of the pidfile, with all its threads, and launch one of this build.  An
\* agent that runs without a pidfile keeps the port, and the new one exits.
Launched(w) ==
    IF agent[w].up /\ agent[w].hand THEN UNCHANGED <<agent, dev, handlers>>
    ELSE /\ agent' = [agent EXCEPT ![w] = [up |-> TRUE, hand |-> FALSE, build |-> "current"]]
         /\ dev' = [dev EXCEPT ![w] = NewBackend(@)]
         /\ handlers' = [handlers EXCEPT ![w] = {}]

\* bootstrap_all: device by device; a failing step raises BootstrapError.
Bootstrap ==
    /\ phase = "bootstrap"
    /\ LET w == CHOOSE w \in due : \A v \in due : w <= v
       IN \/ /\ Launched(w)
             /\ IF due = {w} THEN Call("health", Workers) ELSE Call("bootstrap", due \ {w})
             /\ UNCHANGED faults
          \/ /\ Failing("launch") /\ Spend
             /\ Abort /\ UNCHANGED <<agent, dev, handlers>>
    /\ UNCHANGED <<session, bootstrap, gen, worker, got>>

\* wait_for_agents: until all answer with the protocol's major version, or the deadline.
WaitForAgents ==
    /\ phase = "health"
    /\ IF \A w \in Workers : agent[w].up /\ agent[w].build # "major"
       THEN Call("setup", Workers) ELSE Abort
    /\ UNCHANGED <<session, bootstrap, gen, worker, got, agent, dev, handlers, faults>>

-----------------------------------------------------------------------------
(* A call: AgentClient._request to one device. *)

\* recover_instance is called worker by worker, the others are fanned out.
InTurn(w) == phase = "recover" => \A v \in due : v < w => call[v] \notin {"none", "waiting"}

\* A request to an idle agent takes the lock at once.
Send(w) ==
    /\ phase \in Calling /\ w \in due /\ call[w] = "none" /\ InTurn(w)
    /\ IF agent[w].up
       THEN /\ handlers' = [handlers EXCEPT ![w] = @ \cup
                  {[op |-> phase, attached |-> TRUE, running |-> @ = {},
                    session |-> session, force |-> worker[w].force]}]
            /\ call' = [call EXCEPT ![w] = "waiting"]
       ELSE call' = [call EXCEPT ![w] = "failed"] /\ UNCHANGED handlers
    /\ UNCHANGED <<session, bootstrap, phase, gen, due, worker, got, agent, dev, faults>>

Attached(w) == {h \in handlers[w] : h.attached}
Busy(w) == \E h \in handlers[w] : h.running

\* Mutant: a call does not notice that the agent is gone.
TimesOut_Answered(w) ==
    \/ \E h \in handlers[w] : h.running /\ ~h.attached
    \/ Failing("timeout")

\* The timeout passes: of itself only as a fault, but surely behind another handler's
\* lock, or when the agent is gone.
TimesOut(w) ==
    \/ Attached(w) = {}
    \/ \E h \in handlers[w] : h.running /\ ~h.attached
    \/ Failing("timeout")

Detached(w) == handlers' = [handlers EXCEPT ![w] = {[h EXCEPT !.attached = FALSE] : h \in @}]

GiveUp(w) ==
    /\ call[w] = "waiting" /\ TimesOut(w)
    /\ faults' = IF \/ Attached(w) = {}
                    \/ \E h \in handlers[w] : h.running /\ ~h.attached
                 THEN faults ELSE faults + 1
    /\ Detached(w)
    /\ call' = [call EXCEPT ![w] = "failed"]
    /\ UNCHANGED <<session, bootstrap, phase, gen, due, worker, got, agent, dev>>

\* "with state.lock"
Begin(w, h) ==
    /\ h \in handlers[w] /\ ~h.running /\ ~Busy(w)
    /\ handlers' = [handlers EXCEPT ![w] = (@ \ {h}) \cup {[h EXCEPT !.running = TRUE]}]
    /\ UNCHANGED <<session, bootstrap, phase, gen, due, call, worker, got, agent, dev, faults>>

-----------------------------------------------------------------------------
(* What a handler does to its device, and what it answers.  ok: a 2xx answer that
   the coordinator takes as success; restarted: run_eval's flag; fault: what has gone
   wrong, if anything. *)

Answer(d, ok, fault) == [dev |-> d, ok |-> ok, restarted |-> FALSE, fault |-> fault]

\* LocalDeviceBackend.setup: a rebuild, or no baseline, means fresh data.  An agent of
\* an older build does not echo what it uses: the coordinator raises.
SetUp(w, h) ==
    LET d == dev[w]
        fresh == h.op = "recover" \/ d.data = "none"
        current == agent[w].build = "current"
    IN {Answer([env |-> "live", ready |-> TRUE, window |-> IF current THEN h.session ELSE 0,
                data |-> IF fresh THEN "baseline" ELSE d.data],
               current, "none")}
       \cup {Answer([d EXCEPT !.data = data], FALSE, "setup") : data \in {d.data, "none"}}

Usable(d) == d.env # "none" /\ d.data # "none"

\* run_eval: the device's worker takes the configuration and the flag of the request;
\* a restart that fails goes unnoticed.
RunEval(w, h) ==
    LET d == dev[w]
        after == [d EXCEPT !.data = "drifted"]
        Measured(restarted, fault) == [dev |-> after, ok |-> TRUE, restarted |-> restarted,
                                       fault |-> fault]
    IN IF ~Usable(d) THEN {Answer(d, FALSE, "none")}
       ELSE {Measured(h.force, "none"), Measured(FALSE, "restart"), Answer(after, FALSE, "eval")}

\* reset ignores what restore_snapshot returns.
Reset(w) ==
    LET d == dev[w]
    IN IF d.env = "none" THEN {Answer(d, FALSE, "none")}
       ELSE {Answer([d EXCEPT !.data = "baseline"], TRUE, "none"), Answer(d, TRUE, "restore")}

\* The backend objects stay.
CleanUp(w) ==
    LET d == dev[w]
    IN {Answer([d EXCEPT !.ready = FALSE, !.data = IF d.env = "none" THEN @ ELSE "none"],
               TRUE, "none")}

Answers(w, h) ==
    CASE h.op \in {"setup", "recover"} -> SetUp(w, h)
      [] h.op = "eval" -> RunEval(w, h)
      [] h.op = "reset" -> Reset(w)
      [] OTHER -> CleanUp(w)

\* Mutant: the forced restart counts as done with the answer.
Credited_AnyAnswer(w, h, a) ==
    [worker EXCEPT ![w].force = IF h.force THEN FALSE ELSE @,
                   ![w].booted = @ \/ (a.restarted /\ h.force)]

\* RemoteWorkloadOrchestrator: the marker goes when the device confirms the restart.
Credited(w, h, a) ==
    [worker EXCEPT ![w].force = IF h.force /\ a.restarted THEN FALSE ELSE @,
                   ![w].booted = @ \/ (a.restarted /\ h.force)]

\* The handler ends, the lock is free, the answer arrives if anybody waits for it and
\* it is not lost.
Finish(w, h, a, arrives) ==
    /\ h \in handlers[w] /\ h.running /\ a \in Answers(w, h)
    /\ a.fault # "none" => Failing(a.fault)
    /\ ~arrives /\ h.attached => Failing("reply")
    /\ ~(a.fault # "none" /\ ~arrives /\ h.attached)
    /\ arrives => h.attached
    /\ faults' = IF a.fault # "none" \/ (~arrives /\ h.attached) THEN faults + 1 ELSE faults
    /\ dev' = [dev EXCEPT ![w] = a.dev]
    /\ handlers' = [handlers EXCEPT ![w] = @ \ {h}]
    /\ call' = IF h.attached
               THEN [call EXCEPT ![w] = IF arrives /\ a.ok THEN "ok" ELSE "failed"] ELSE call
    /\ IF arrives /\ a.ok /\ h.op = "eval"
       THEN /\ worker' = Credited(w, h, a)
            /\ got' = [got EXCEPT ![w] = {dev[w].window}]
       ELSE UNCHANGED <<worker, got>>
    /\ UNCHANGED <<session, bootstrap, phase, gen, due, agent>>

-----------------------------------------------------------------------------
(* The phases of a session. *)

Returned == phase \in Calling /\ \A w \in due : call[w] \in {"ok", "failed"}
Ok == {w \in due : call[w] = "ok"}

NextGeneration ==
    /\ gen' = gen + 1
    /\ IF gen + 1 < MaxGenerations THEN Call("eval", Workers) ELSE Abort

\* setup_instances raises what a device raised; verify_instances asks /health.
SetupReturns ==
    /\ phase = "setup" /\ Returned
    /\ IF Ok = Workers /\ \A w \in Workers : agent[w].up /\ dev[w].ready
       THEN Call("eval", Workers) ELSE Abort
    /\ UNCHANGED <<session, bootstrap, gen, worker, got, agent, dev, handlers, faults>>

\* A generation nobody survived: new configurations, forced restarts, and
\* recover_instance, which sets each device up again.
RescueAll ==
    /\ phase = "eval" /\ Returned /\ Ok = {}
    /\ worker' = [w \in Workers |-> NewWorker]
    /\ Call("recover", Workers)
    /\ UNCHANGED <<session, bootstrap, gen, got, agent, dev, handlers, faults>>

\* Exploit and explore: the targets, all failed workers among them, adopt a parent's
\* knobs in the coordinator; their devices are reset.
Exploit(targets) ==
    /\ phase = "eval" /\ Returned /\ Ok # {}
    /\ Workers \ Ok \subseteq targets /\ targets # Workers
    /\ IF targets = {} THEN NextGeneration ELSE Call("reset", targets) /\ UNCHANGED gen
    /\ UNCHANGED <<session, bootstrap, worker, got, agent, dev, handlers, faults>>

\* Neither the rescue nor the clone looks at what came back.
RescueReturns ==
    /\ phase \in {"recover", "reset"} /\ Returned
    /\ NextGeneration
    /\ UNCHANGED <<session, bootstrap, worker, got, agent, dev, handlers, faults>>

\* BaseTuner.teardown: stop_all does nothing here.
Teardown(remove) ==
    /\ phase = "teardown"
    /\ Call(IF remove THEN "cleanup" ELSE "shutdown", Workers)
    /\ UNCHANGED <<session, bootstrap, gen, worker, got, agent, dev, handlers, faults>>

CleanupReturns ==
    /\ phase = "cleanup" /\ Returned
    /\ Call("shutdown", Workers)
    /\ UNCHANGED <<session, bootstrap, gen, worker, got, agent, dev, handlers, faults>>

\* shutdown_agents: a process that exits takes its handlers with it.
Shutdown ==
    /\ phase = "shutdown"
    /\ agent' = [w \in Workers |-> [agent[w] EXCEPT !.up = FALSE, !.hand = FALSE]]
    /\ handlers' = [w \in Workers |-> {}]
    /\ dev' = [w \in Workers |-> NewBackend(dev[w])]
    /\ Call("off", {}) /\ Forget
    /\ UNCHANGED <<session, faults>>

-----------------------------------------------------------------------------
(* What happens to the fleet. *)

\* The coordinator is killed: its requests go on without it.
Killed ==
    /\ phase # "off" /\ Failing("kill") /\ Spend
    /\ Call("off", {}) /\ Forget
    /\ handlers' = [w \in Workers |-> {[h EXCEPT !.attached = FALSE] : h \in handlers[w]}]
    /\ UNCHANGED <<session, agent, dev>>

\* An agent dies, and its requests with it.
AgentDies(w) ==
    /\ agent[w].up /\ Failing("die") /\ Spend
    /\ agent' = [agent EXCEPT ![w].up = FALSE]
    /\ handlers' = [handlers EXCEPT ![w] = {}]
    /\ dev' = [dev EXCEPT ![w] = NewBackend(@)]
    /\ UNCHANGED <<session, bootstrap, phase, gen, due, call, worker, got>>

\* Somebody starts the agents that do not run by hand, between two sessions.
StartedByHand ==
    /\ phase = "off" /\ \E w \in Workers : ~agent[w].up
    /\ agent' = [w \in Workers |-> IF agent[w].up THEN agent[w]
                                   ELSE [agent[w] EXCEPT !.up = TRUE, !.hand = TRUE]]
    /\ UNCHANGED <<session, bootstrap, phase, gen, due, call, worker, got, dev, handlers, faults>>

-----------------------------------------------------------------------------

Init ==
    /\ session = 0 /\ bootstrap = TRUE /\ phase = "off" /\ gen = 0
    /\ due = {} /\ call = NoCall
    /\ worker = [w \in Workers |-> NewWorker]
    /\ got = [w \in Workers |-> {}]
    /\ \E build \in Builds : agent = [w \in Workers |-> [up |-> FALSE, hand |-> FALSE, build |-> build]]
    /\ dev = [w \in Workers |-> [env |-> "none", ready |-> FALSE, window |-> 0, data |-> "none"]]
    /\ handlers = [w \in Workers |-> {}]
    /\ faults = 0

Device(w) ==
    \E h \in handlers[w] :
        Begin(w, h) \/ \E a \in Answers(w, h), arrives \in BOOLEAN : Finish(w, h, a, arrives)

Coordinator ==
    \/ Bootstrap \/ WaitForAgents \/ SetupReturns
    \/ RescueAll
    \/ \E targets \in SUBSET Workers : Exploit(targets)
    \/ RescueReturns
    \/ \E remove \in BOOLEAN : Teardown(remove)
    \/ CleanupReturns \/ Shutdown
    \/ \E w \in Workers : Send(w)

Next ==
    \/ \E b \in Bootstraps : Start(b)
    \/ Coordinator
    \/ \E w \in Workers : GiveUp(w) \/ Device(w) \/ AgentDies(w)
    \/ StartedByHand \/ Killed

Spec == Init /\ [][Next]_vars

\* A coordinator that runs goes on, a handler ends, and a timeout passes.
FairSpec ==
    /\ Spec /\ WF_vars(Coordinator)
    /\ \A w \in Workers : WF_vars(Device(w)) /\ WF_vars(GiveUp(w))

-----------------------------------------------------------------------------
(* Properties. *)

Backends == [env: {"none", "live"}, ready: BOOLEAN, window: 0 .. MaxSessions,
             data: {"none", "baseline", "drifted"}]

Requests == [op: Calling, attached: BOOLEAN, running: BOOLEAN,
             session: 0 .. MaxSessions, force: BOOLEAN]

TypeOK ==
    /\ session \in 0 .. MaxSessions /\ bootstrap \in BOOLEAN
    /\ phase \in Phases /\ gen \in 0 .. MaxGenerations /\ due \subseteq Workers
    /\ call \in [Workers -> {"none", "waiting", "ok", "failed"}]
    /\ worker \in [Workers -> [force: BOOLEAN, booted: BOOLEAN]]
    /\ agent \in [Workers -> [up: BOOLEAN, hand: BOOLEAN, build: Builds \cup {"current"}]]
    /\ dev \in [Workers -> Backends]
    /\ \A w \in Workers : handlers[w] \subseteq Requests /\ Cardinality(got[w]) <= 1
    /\ faults \in 0 .. MaxFaults

\* An agent that a session launched measures in the window this session sent, whatever
\* requests earlier sessions have left behind and whatever was retried.
\* (stop_agent_command, SetupRequest, verify_orchestrator_echo)
WindowIsTheSessions ==
    bootstrap => \A w \in Workers : agent[w].hand \/ got[w] \subseteq {session}

\* The coordinator only takes a forced restart for done when the device has restarted
\* for it, through lost answers and restarts that failed.  (force_restart)
ForceReachesDevice == \A w \in Workers : worker[w].force \/ worker[w].booted

\* No request waits for ever, whoever holds the lock and whoever has died: a session
\* ends.  (request_timeout_s, eval_timeout_s, health_timeout_s)
SessionEnds == phase # "off" ~> phase = "off"

\* "Here we only ensure the target's *data* is the byte-identical benchmark baseline
\* again." (remote_environment.py:328)  A reset that came back ok is followed by a
\* measurement on the baseline.
ResetGivesBaseline ==
    [][\A w \in Workers :
          phase = "reset" /\ w \in due /\ call[w] = "ok" /\ phase' = "eval"
          => dev[w].data = "baseline"]_vars

\* "Any divergence is a hard error at setup rather than a discovery made after a
\* multi-hour run" (remote_environment.py:60): also when the agents were running.
WindowIsAlwaysTheSessions ==
    \A w \in Workers : got[w] \subseteq {session}
=============================================================================
