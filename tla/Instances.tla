----------------------------- MODULE Instances -----------------------------
(***************************************************************************)
(* The PostgreSQL instances of a tuning session: how they are set up, how  *)
(* an evaluation applies a configuration to its instance and activates it, *)
(* how the baseline is restored, and how failed instances come back.       *)
(*                                                                         *)
(* The workers of a generation move through an evaluation in lockstep (see *)
(* WorkerEvaluation): stage is the part of it they are in, todo the        *)
(* workers that have yet to take it.                                       *)
(*                                                                         *)
(* A configuration has two knobs: pm, read when the server starts          *)
(* (postmaster context), and dyn, read on a reload.  0 is the default.     *)
(***************************************************************************)
EXTENDS Naturals, FiniteSets

CONSTANTS NWorkers,
          Configs,            \* the configurations the tuner may propose
          Poison,             \* values of pm with which the server does not start
          Kinds, TuningModes,
          RestoreInterval, AdaptiveInterval,
          Period,             \* bound: a multiple of both, generations wrap there
          Faults, MaxFaults, MaxSessions

AllFaults == {"apply", "restart", "copy", "rebuild", "verify", "die", "clone", "crash"}

ASSUME InstancesAssumption ==
    /\ NWorkers \in Nat \ {0}
    /\ Configs \subseteq [pm: Nat, dyn: Nat] /\ Poison \subseteq Nat \ {0}
    /\ Kinds \subseteq {"docker", "bare_metal"}
    /\ TuningModes \subseteq {"online", "offline", "adaptive"}
    /\ RestoreInterval \in Nat \ {0} /\ AdaptiveInterval \in Nat \ {0}
    /\ Period \in Nat \ {0}
    /\ Period % RestoreInterval = 0 /\ Period % AdaptiveInterval = 0
    /\ Faults \subseteq AllFaults /\ MaxFaults \in Nat /\ MaxSessions \in Nat

Workers == 0 .. NWorkers - 1
Default == [pm |-> 0, dyn |-> 0]
Knobs == {"pm", "dyn"}

VARIABLES
    kind, tuning,   \* backend and tuning mode
    opts,           \* --force-recreate-instances, force_recreate_baseline, enable_snapshots
    session,        \* how many sessions were started
    stage, todo,
    inst,           \* per worker: its instance
    snap,           \* baseline snapshot: its content, and whether it has a manifest
    gen,            \* current_generation
    worker,         \* per worker: the tuner's worker and its evaluation
    faults

vars == <<kind, tuning, opts, session, stage, todo, inst, snap, gen, worker, faults>>
fixed == <<kind, tuning, opts, session>>

Setting == {"clear", "provide", "initialize", "snapshot", "copy"}
Evaluating == {"apply", "activate", "verify", "measure"}
Stages == Setting \cup Evaluating \cup {"off", "evolve", "teardown"}

-----------------------------------------------------------------------------
(* One instance.  known: in DatabaseEnvironment.instances; box: its container or
   server process; file: postgresql.auto.conf; active: what the server runs with.
   Data is none, an empty cluster, the prepared baseline, or drifted from it by
   evaluations of this session or of an old one; a copy that stopped half-way is
   broken. *)

Data == {"none", "empty", "baseline", "drifted", "old", "broken"}

NoInstance == [known |-> FALSE, box |-> "absent", data |-> "none",
               file |-> Default, active |-> Default]

Up(i) == i.box = "running"

Startable(i) == i.data \notin {"none", "broken"} /\ i.file.pm \notin Poison

\* The server comes up with what the file says, or not at all.
Start(i) == IF Startable(i) THEN [i EXCEPT !.box = "running", !.active = i.file]
            ELSE [i EXCEPT !.box = "stopped"]

Stop(i) == [i EXCEPT !.box = IF i.box = "absent" THEN "absent" ELSE "stopped"]

\* An empty data directory is initialised when its server first starts.
Fresh(i) == Start([i EXCEPT !.data = "empty", !.file = Default])

SchemaValid(i) == Up(i) /\ i.data \in {"baseline", "drifted", "old"}

\* recover_instance: Docker starts the container it has; pg_ctl stop and start.
Recover(i) == IF i.box = "absent" /\ kind = "docker" THEN i ELSE Start(i)

\* Docker's snapshot_exists wants a manifest, bare metal only a directory.
SnapshotExists == snap.content # "none" /\ (kind = "docker" => snap.manifest)

-----------------------------------------------------------------------------
(* The tuner's worker. *)

NoEvaluation == [plan |-> "none", forced |-> FALSE, restarted |-> FALSE,
                 want |-> Default, seen |-> Default, on |-> "none",
                 verified |-> FALSE, clean |-> TRUE, result |-> "none"]

\* BaseWorker: the first evaluation restarts.  booted is a history variable: an
\* evaluation has restarted the server since force was set.
NewWorker(config) == [config |-> config, force |-> TRUE, booted |-> FALSE,
                      eval |-> NoEvaluation]

RestoreDue == opts.snapshots /\ gen > 0 /\ gen % RestoreInterval = 0

\* Mutant: offline mode defers like adaptive mode.
ShouldRestart_Deferring(required, force) ==
    force \/ (required /\ tuning # "online" /\ gen % AdaptiveInterval = 0)

\* should_restart
ShouldRestart(required, force) ==
    \/ force
    \/ required /\ CASE tuning = "online"  -> FALSE
                     [] tuning = "offline" -> TRUE
                     [] OTHER -> gen % AdaptiveInterval = 0

\* _postmaster_value_matches: compared with what the server runs with.
RestartRequired(i, c, written) == "pm" \in written /\ c.pm # i.active.pm

Failing(f) == f \in Faults /\ faults < MaxFaults
Spend == faults' = faults + 1

Done(w, next) ==
    /\ todo' = IF todo = {w} THEN Workers ELSE todo \ {w}
    /\ stage' = IF todo = {w} THEN next ELSE stage

\* An exception leaves train_generation or setup: BaseTuner.run tears down.
Abort == stage' = "teardown" /\ todo' = Workers

Fail(w) == [worker EXCEPT ![w].eval.result = "failed"]

\* PBTTuner._attempt_recovery.  A worker the environment no longer knows is a
\* KeyError, which nobody handles.
FailAndRecover(w, next) ==
    /\ worker' = Fail(w)
    /\ IF inst[w].known
       THEN inst' = [inst EXCEPT ![w] = Recover(@)] /\ Done(w, next)
       ELSE UNCHANGED inst /\ Abort

Proceeding(w) == w \in todo /\ worker[w].eval.result = "none"

\* A worker whose evaluation failed takes no further part.
Idle(w) ==
    /\ stage \in {"activate", "verify", "measure"}
    /\ w \in todo /\ worker[w].eval.result = "failed"
    /\ Done(w, CASE stage = "activate" -> "verify" [] stage = "verify" -> "measure"
                 [] OTHER -> "evolve")
    /\ UNCHANGED <<fixed, inst, snap, gen, worker, faults>>

-----------------------------------------------------------------------------
(* An evaluation. *)

ConnectFails(w) ==
    /\ stage = "apply" /\ Proceeding(w) /\ ~Up(inst[w])
    /\ FailAndRecover(w, "activate")
    /\ UNCHANGED <<fixed, snap, gen, faults>>

\* ALTER SYSTEM SET of the knobs in written: each is validated and written on its own,
\* and one that fails is left out.
WrittenFile(i, c, written) ==
    [pm |-> IF "pm" \in written THEN c.pm ELSE i.file.pm,
     dyn |-> IF "dyn" \in written THEN c.dyn ELSE i.file.dyn]

\* What apply_configuration decides next: nothing when a restore is due, a restart, a
\* reload, or to defer the restart.
Plan(required, written, force) ==
    IF RestoreDue THEN "restore"
    ELSE IF ShouldRestart(required, force) THEN "restart"
    ELSE IF written # {} /\ ~required THEN "reload" ELSE "none"

Reloaded(i) == [i EXCEPT !.active.dyn = i.file.dyn]

\* apply_only, and the reload if that is all it takes.
Apply(w, written) ==
    /\ stage = "apply" /\ Proceeding(w) /\ Up(inst[w])
    /\ IF written = Knobs THEN UNCHANGED faults ELSE Failing("apply") /\ Spend
    /\ LET c == worker[w].config
           plan == Plan(RestartRequired(inst[w], c, written), written, worker[w].force)
           i == [inst[w] EXCEPT !.file = WrittenFile(inst[w], c, written)]
       IN /\ inst' = [inst EXCEPT ![w] = IF plan = "reload" THEN Reloaded(i) ELSE i]
          /\ worker' = [worker EXCEPT ![w].eval =
                  [NoEvaluation EXCEPT !.plan = plan, !.want = c, !.clean = (written = Knobs),
                                       !.forced = worker[w].force]]
    /\ Done(w, "activate")
    /\ UNCHANGED <<fixed, snap, gen>>

\* Mutant: a restart that was not asked for counts.
Restarted_Always(w) ==
    [worker EXCEPT ![w].eval.restarted = TRUE, ![w].force = FALSE]

\* "Cleared forced-restart marker after successful restart".
Restarted(w) ==
    [worker EXCEPT ![w].eval.restarted = TRUE, ![w].booted = TRUE,
                   ![w].force = IF worker[w].eval.forced THEN FALSE ELSE @]

NoActivation(w) ==
    /\ stage = "activate" /\ Proceeding(w) /\ worker[w].eval.plan \in {"none", "reload"}
    /\ Done(w, "verify")
    /\ UNCHANGED <<fixed, inst, snap, gen, worker, faults>>

\* perform_restart turns each failure into FALSE: the server may be down, or up as
\* it was, or up again although the call was given up.
NotRestarted(w) == [worker EXCEPT ![w].eval.clean = FALSE]

\* A restart that timed out is looked at again, or given up.
AfterTimeout(i) == {i, Start(i)}

Restart(w) ==
    /\ stage = "activate" /\ Proceeding(w) /\ worker[w].eval.plan = "restart"
    /\ LET i == Start(inst[w])
       IN \/ /\ inst' = [inst EXCEPT ![w] = i]
             /\ worker' = IF Up(i) THEN Restarted(w) ELSE NotRestarted(w)
             /\ UNCHANGED faults
          \/ /\ Failing("restart") /\ Spend
             /\ \E after \in AfterTimeout(inst[w]) : inst' = [inst EXCEPT ![w] = after]
             /\ worker' = NotRestarted(w)
    /\ Done(w, "verify")
    /\ UNCHANGED <<fixed, snap, gen>>

\* Mutant: nothing is copied.
Seeded_Nothing(i) == i

\* Docker's copy keeps auto.conf, and so does the rsync.
Seeded(i) == [i EXCEPT !.data = snap.content]

Restore(w) ==
    /\ stage = "activate" /\ Proceeding(w) /\ worker[w].eval.plan = "restore"
    /\ snap.content # "none" /\ (kind = "bare_metal" => inst[w].known)
    /\ LET i == Start(Seeded(inst[w]))
       IN /\ inst' = [inst EXCEPT ![w] = i]
          /\ IF Up(i) THEN worker' = Restarted(w) /\ Done(w, "verify")
             ELSE IF kind = "docker"
             THEN worker' = [worker EXCEPT ![w].eval.plan = "rebuild"] /\ UNCHANGED <<stage, todo>>
             ELSE worker' = Fail(w) /\ Done(w, "verify")
    /\ UNCHANGED <<fixed, snap, gen, faults>>

\* The snapshot is gone, or the copy fails at the start or half-way: Docker has
\* removed the container by then; bare metal starts the server on what is there, and
\* has lost the evaluation if it does not come up.
RestoreFails(w) ==
    /\ stage = "activate" /\ Proceeding(w) /\ worker[w].eval.plan = "restore"
    /\ IF snap.content = "none" THEN UNCHANGED <<inst, faults>>
       ELSE /\ kind = "bare_metal" => inst[w].known
            /\ Failing("copy") /\ Spend
            /\ \E data \in {"broken", inst[w].data} :
                 LET i == [inst[w] EXCEPT !.data = data]
                 IN inst' = [inst EXCEPT ![w] = IF kind = "docker" THEN [i EXCEPT !.box = "absent"]
                                                ELSE Start(i)]
    /\ IF kind = "bare_metal" /\ ~Up(inst'[w])
       THEN worker' = Fail(w) /\ Done(w, "verify")
       ELSE worker' = [worker EXCEPT ![w].eval.plan = "rebuild"] /\ UNCHANGED <<stage, todo>>
    /\ UNCHANGED <<fixed, snap, gen>>

\* Bare metal has forgotten the instance: a KeyError, and the evaluation is lost.
Forgotten(w) ==
    /\ stage = "activate" /\ Proceeding(w) /\ worker[w].eval.plan \in {"restore", "rebuild"}
    /\ kind = "bare_metal" /\ ~inst[w].known
    /\ worker' = Fail(w)
    /\ Done(w, "verify")
    /\ UNCHANGED <<fixed, inst, snap, gen, faults>>

\* rebuild_worker_instance of Docker: a new container on a new data directory.
RebuildContainer(w) ==
    /\ stage = "activate" /\ Proceeding(w) /\ worker[w].eval.plan = "rebuild"
    /\ kind = "docker"
    /\ \/ /\ inst' = [inst EXCEPT ![w] = [Fresh(@) EXCEPT !.data = "baseline"]]
          /\ worker' = [Restarted(w) EXCEPT ![w].eval.clean = FALSE]
          /\ UNCHANGED faults
       \/ /\ Failing("rebuild") /\ Spend
          /\ inst' = [inst EXCEPT ![w] = [Stop(@) EXCEPT !.data = "none", !.file = Default]]
          /\ worker' = Fail(w)
    /\ Done(w, "verify")
    /\ UNCHANGED <<fixed, snap, gen>>

\* rebuild_worker_instance of bare metal: cleanup forgets every instance and removes
\* its data, then worker 0 alone is set up.
RebuildCluster(w) ==
    /\ stage = "activate" /\ Proceeding(w) /\ worker[w].eval.plan = "rebuild"
    /\ kind = "bare_metal" /\ inst[w].known
    /\ inst' = [v \in Workers |->
                    IF v = 0 THEN [Fresh(NoInstance) EXCEPT !.known = TRUE, !.data = "baseline"]
                    ELSE [NoInstance EXCEPT !.box = "stopped"]]
    /\ snap' = IF snap.content = "none" THEN [snap EXCEPT !.content = "baseline"] ELSE snap
    /\ worker' = [v \in Workers |->
                    [(IF w = 0 THEN Restarted(w) ELSE Fail(w))[v] EXCEPT !.eval.clean = FALSE]]
    /\ Done(w, "verify")
    /\ UNCHANGED <<fixed, gen, faults>>

ReconnectFails(w) ==
    /\ stage = "verify" /\ Proceeding(w) /\ ~Up(inst[w])
    /\ FailAndRecover(w, "measure")
    /\ UNCHANGED <<fixed, snap, gen, faults>>

\* Mutant: the configuration stays what was asked for.
Capture_Nothing(w) == [worker EXCEPT ![w].eval.verified = TRUE]

\* _verify_and_capture_config: the worker's configuration becomes what the server
\* runs with.
Capture(w) == [worker EXCEPT ![w].eval.verified = TRUE, ![w].config = inst[w].active]

\* KnobApplicator.verify swallows its errors; then nothing is captured.
Verify(w, ok) ==
    /\ stage = "verify" /\ Proceeding(w) /\ Up(inst[w])
    /\ IF ok THEN worker' = Capture(w) /\ UNCHANGED faults
       ELSE UNCHANGED worker /\ Failing("verify") /\ Spend
    /\ Done(w, "measure")
    /\ UNCHANGED <<fixed, inst, snap, gen>>

Measure(w) ==
    /\ stage = "measure" /\ Proceeding(w) /\ Up(inst[w])
    /\ worker' = [worker EXCEPT ![w].eval.result = "ok", ![w].eval.seen = inst[w].active,
                                ![w].eval.on = inst[w].data]
    /\ inst' = [inst EXCEPT ![w].data = "drifted"]
    /\ Done(w, "evolve")
    /\ UNCHANGED <<fixed, snap, gen, faults>>

MeasureFails(w) ==
    /\ stage = "measure" /\ Proceeding(w) /\ ~Up(inst[w])
    /\ FailAndRecover(w, "evolve")
    /\ UNCHANGED <<fixed, snap, gen, faults>>

-----------------------------------------------------------------------------
(* The end of a generation. *)

Ok == {w \in Workers : worker[w].eval.result = "ok"}
NextGeneration == gen' = (IF gen = Period THEN 1 ELSE gen + 1) /\ stage' = "apply" /\ todo' = Workers

NextEvaluation(w, x) == [x EXCEPT !.eval = NoEvaluation]

\* rescue_dead_workers without an alive worker: new configurations, a forced
\* restart, and another attempt to recover the instance.
Resample(config) ==
    /\ stage = "evolve" /\ Ok = {}
    /\ worker' = [w \in Workers |-> NewWorker(config[w])]
    /\ IF \A w \in Workers : inst[w].known
       THEN inst' = [w \in Workers |-> Recover(inst[w])] /\ NextGeneration
       ELSE UNCHANGED <<inst, gen>> /\ Abort
    /\ UNCHANGED <<fixed, snap, faults>>

\* Mutant: the clone keeps auto.conf.
Copied_WithFile(i, source) == [i EXCEPT !.data = inst[source].data]

\* clone_instances: the source is stopped and started again, the targets get its
\* data; with Docker they lose their auto.conf, with bare metal they keep it.
Copied(i, source) == [i EXCEPT !.data = inst[source].data,
                               !.file = IF kind = "docker" THEN Default ELSE @]

Cloned(source, targets) ==
    [w \in Workers |-> IF w = source THEN Start(inst[w])
                       ELSE IF w \in targets THEN Start(Copied(inst[w], source))
                       ELSE inst[w]]

\* The source does not come up again, or the copy fails: the targets' containers
\* have been removed.
ClonedInPart(source, targets) ==
    [w \in Workers |-> IF w = source THEN Stop(inst[w])
                       ELSE IF w \in targets
                       THEN [Copied(inst[w], source) EXCEPT !.box = "absent"]
                       ELSE inst[w]]

\* execute_exploit_explore: the targets, among them all dead workers, adopt and
\* perturb the configuration of a healthy source; then their instances follow.
Exploit(source, targets, config) ==
    /\ stage = "evolve" /\ source \in Ok /\ targets # {} /\ source \notin targets
    /\ Workers \ Ok \subseteq targets
    /\ worker' = [w \in Workers |-> NextEvaluation(w,
                    IF w \in targets THEN [worker[w] EXCEPT !.config = config] ELSE worker[w])]
    /\ IF \E w \in targets \cup {source} : ~inst[w].known /\ kind = "bare_metal"
       THEN UNCHANGED <<inst, gen, faults>> /\ Abort
       ELSE \/ /\ Startable(inst[source]) /\ UNCHANGED faults
               /\ inst' = Cloned(source, targets)
               /\ NextGeneration
            \/ /\ IF Startable(inst[source]) THEN Failing("clone") /\ Spend ELSE UNCHANGED faults
               /\ kind = "docker"
               /\ inst' = ClonedInPart(source, targets)
               /\ NextGeneration
            \/ /\ ~Startable(inst[source]) /\ kind = "bare_metal"
               /\ UNCHANGED <<inst, gen, faults>> /\ Abort
    /\ UNCHANGED <<fixed, snap>>

\* Nobody is dead, nobody poor and ready.
NoExploit ==
    /\ stage = "evolve" /\ Ok = Workers
    /\ worker' = [w \in Workers |-> NextEvaluation(w, worker[w])]
    /\ NextGeneration
    /\ UNCHANGED <<fixed, inst, snap, faults>>

-----------------------------------------------------------------------------
(* Setting up and ending a session.  setup_instances goes through the workers in
   order. *)

Current == CHOOSE w \in todo : \A v \in todo : w <= v

\* A new process knows no instance; what was drift is old now.
StartSession(o) ==
    /\ stage = "off" /\ session < MaxSessions
    /\ session' = session + 1 /\ opts' = o
    /\ stage' = (IF o.rebaseline THEN "clear" ELSE "provide") /\ todo' = Workers
    /\ inst' = [w \in Workers |->
                  [inst[w] EXCEPT !.known = FALSE,
                                  !.data = IF @ = "drifted" THEN "old" ELSE @]]
    /\ gen' = 0
    /\ UNCHANGED <<kind, tuning, snap, worker, faults>>

\* _remove_baseline_snapshot: first the directory, then the manifest.
RemoveBaseline ==
    /\ stage = "clear"
    /\ IF snap.content # "none" THEN snap' = [snap EXCEPT !.content = "none"] /\ UNCHANGED stage
       ELSE snap' = [snap EXCEPT !.manifest = FALSE] /\ stage' = "provide"
    /\ UNCHANGED <<fixed, todo, inst, gen, worker, faults>>

\* A data directory that is not a cluster is initialised.
Missing(w) == opts.recreate \/ inst[w].box = "absent" \/ inst[w].data = "none"

\* Mutant: worker 0 is not replaced for the baseline.
Replaced_WhenMissing(w) == Missing(w)

\* Docker also replaces worker 0 when there is no baseline, so that the snapshot is of
\* fresh data.
Replaced(w) == Missing(w) \/ (kind = "docker" /\ w = 0 /\ ~SnapshotExists)

Provide ==
    /\ stage = "provide"
    /\ LET w == Current
           i == IF Replaced(w) THEN Fresh(inst[w]) ELSE Start(inst[w])
       IN /\ inst' = [inst EXCEPT ![w] = [(IF Up(inst[w]) /\ ~Replaced(w) /\ kind = "docker"
                                            THEN inst[w] ELSE i) EXCEPT !.known = TRUE]]
          /\ IF Up(inst'[w]) THEN stage' = "initialize" /\ UNCHANGED todo ELSE Abort
    /\ UNCHANGED <<fixed, snap, gen, worker, faults>>

\* _reset_persisted_configuration.
Reset(i) == [i EXCEPT !.file = Default, !.active = Default]

\* initialize_schema: reset, validate, or else restore the snapshot, or prepare.
Initialize ==
    /\ stage = "initialize"
    /\ LET w == Current
           i == Reset(inst[w])
           j == IF SchemaValid(i) THEN i
                ELSE IF snap.content # "none" THEN Start(Seeded(i))
                ELSE [i EXCEPT !.data = "baseline"]
       IN /\ inst' = [inst EXCEPT ![w] = j]
          /\ IF ~Up(j) THEN Abort /\ UNCHANGED worker
             ELSE IF w = 0 /\ ~SnapshotExists
             THEN stage' = "snapshot" /\ UNCHANGED <<todo, worker>>
             ELSE IF todo = {w}
             THEN /\ stage' = "apply" /\ todo' = Workers
                  /\ worker' \in [Workers -> {NewWorker(c) : c \in Configs}]
             ELSE stage' = "provide" /\ todo' = todo \ {w} /\ UNCHANGED worker
    /\ UNCHANGED <<fixed, snap, gen, faults>>

\* create_snapshot: the server stops, an old directory goes, the copy begins ...
SnapshotBegins ==
    /\ stage = "snapshot"
    /\ inst' = [inst EXCEPT ![0] = Stop(@)]
    /\ snap' = [snap EXCEPT !.content = "broken"]
    /\ stage' = "copy"
    /\ UNCHANGED <<fixed, todo, gen, worker, faults>>

\* ... and ends; the manifest is written last.
SnapshotEnds ==
    /\ stage = "copy"
    /\ inst' = [inst EXCEPT ![0] = Start(@)]
    /\ snap' = [content |-> inst[0].data, manifest |-> TRUE]
    /\ IF todo = {0}
       THEN /\ stage' = "apply" /\ todo' = Workers
            /\ worker' \in [Workers -> {NewWorker(c) : c \in Configs}]
       ELSE stage' = "provide" /\ todo' = todo \ {0} /\ UNCHANGED worker
    /\ UNCHANGED <<fixed, gen, faults>>

\* The loop ends, by should_stop, its bound or an interrupt.
EndSession ==
    /\ stage = "apply" /\ todo = Workers
    /\ Abort
    /\ UNCHANGED <<fixed, inst, snap, gen, worker, faults>>

StoppedAll(i) == [Stop(i) EXCEPT !.known = FALSE]
CleanedUp(i) == NoInstance

\* BaseTuner.teardown: stop_all, and cleanup if asked for.
Teardown(remove) ==
    /\ stage = "teardown"
    /\ inst' = [w \in Workers |->
                  IF ~inst[w].known THEN inst[w]
                  ELSE IF remove THEN CleanedUp(inst[w]) ELSE StoppedAll(inst[w])]
    /\ worker' = [w \in Workers |-> NewWorker(Default)]
    /\ stage' = "off" /\ todo' = Workers
    /\ UNCHANGED <<fixed, snap, gen, faults>>

\* The tuner is killed; its instances stay as they are.
Crash ==
    /\ stage # "off" /\ Failing("crash") /\ Spend
    /\ stage' = "off" /\ todo' = Workers
    /\ worker' = [w \in Workers |-> NewWorker(Default)]
    /\ UNCHANGED <<fixed, inst, snap, gen>>

\* A server is killed, by the kernel or with its container.
Die(w) ==
    /\ stage \in Evaluating /\ Up(inst[w]) /\ Failing("die") /\ Spend
    /\ inst' = [inst EXCEPT ![w] = Stop(@)]
    /\ worker' = IF worker[w].eval.result = "none"
                 THEN [worker EXCEPT ![w].eval.clean = FALSE] ELSE worker
    /\ UNCHANGED <<fixed, stage, todo, snap, gen>>

-----------------------------------------------------------------------------

Init ==
    /\ kind \in Kinds /\ tuning \in TuningModes
    /\ opts = [recreate |-> FALSE, rebaseline |-> FALSE, snapshots |-> FALSE]
    /\ session = 0 /\ stage = "off" /\ todo = Workers
    /\ inst = [w \in Workers |-> NoInstance]
    /\ snap = [content |-> "none", manifest |-> FALSE]
    /\ gen = 0
    /\ worker = [w \in Workers |-> NewWorker(Default)]
    /\ faults = 0

Evaluation(w) ==
    \/ ConnectFails(w) \/ \E written \in SUBSET Knobs : Apply(w, written)
    \/ NoActivation(w) \/ Restart(w) \/ Restore(w) \/ RestoreFails(w) \/ Forgotten(w)
    \/ RebuildContainer(w) \/ RebuildCluster(w)
    \/ ReconnectFails(w) \/ \E ok \in BOOLEAN : Verify(w, ok)
    \/ Measure(w) \/ MeasureFails(w) \/ Idle(w)

Evolve ==
    \/ \E config \in [Workers -> Configs] : Resample(config)
    \/ \E source \in Workers, targets \in SUBSET Workers, config \in Configs :
            Exploit(source, targets, config)
    \/ NoExploit

Setup == Provide \/ Initialize \/ RemoveBaseline \/ SnapshotBegins \/ SnapshotEnds

Next ==
    \/ \E w \in Workers : Evaluation(w)
    \/ Evolve
    \/ \E o \in [recreate: BOOLEAN, rebaseline: BOOLEAN, snapshots: BOOLEAN] : StartSession(o)
    \/ Setup
    \/ EndSession \/ \E remove \in BOOLEAN : Teardown(remove)
    \/ Crash \/ \E w \in Workers : Die(w)

Spec == Init /\ [][Next]_vars

\* The tuner does not stop between two steps of a generation.
FairSpec == Spec /\ WF_vars(Evolve) /\ \A w \in Workers : WF_vars(Evaluation(w))

-----------------------------------------------------------------------------
(* Properties. *)

Configurations == [pm: {0} \cup {c.pm : c \in Configs}, dyn: {0} \cup {c.dyn : c \in Configs}]

TypeOK ==
    /\ kind \in Kinds /\ tuning \in TuningModes
    /\ opts \in [recreate: BOOLEAN, rebaseline: BOOLEAN, snapshots: BOOLEAN]
    /\ session \in 0 .. MaxSessions /\ stage \in Stages
    /\ todo \subseteq Workers /\ todo # {}
    /\ inst \in [Workers -> [known: BOOLEAN, box: {"absent", "stopped", "running"}, data: Data,
                             file: Configurations, active: Configurations]]
    /\ snap \in [content: Data, manifest: BOOLEAN]
    /\ gen \in 0 .. Period /\ faults \in 0 .. MaxFaults
    /\ worker \in [Workers -> [config: Configurations, force: BOOLEAN, booted: BOOLEAN,
                     eval: [plan: {"none", "reload", "restart", "restore", "rebuild"},
                            forced: BOOLEAN, restarted: BOOLEAN, want: Configurations,
                            seen: Configurations, on: Data, verified: BOOLEAN, clean: BOOLEAN,
                            result: {"none", "ok", "failed"}]]]

\* The configuration a measurement is credited to is the one the server ran with:
\* also where a knob was not written, a restart was deferred or failed, or the
\* instance was rebuilt.  (_verify_and_capture_config; _run_workload)
CreditedWasActive ==
    \A w \in Workers : LET e == worker[w].eval
                       IN e.result = "ok" /\ e.verified => worker[w].config = e.seen

\* In offline mode "the score reflects the full configuration"
\* (docs/architecture/workload-orchestrator.md:192): with nothing failing on the way,
\* what ran is what was asked for, through restarts, restores, clones, recoveries and
\* whatever earlier evaluations had left in auto.conf.
OfflineRunsRequested ==
    \A w \in Workers : LET e == worker[w].eval
                       IN tuning = "offline" /\ e.result = "ok" /\ e.clean => e.seen = e.want

\* When a restore is due, no measurement is taken on data that evaluations of this
\* session have changed.  ("Repeatable baseline", environment-backends.md:88)
DueMeansRestored ==
    \A w \in Workers : RestoreDue /\ worker[w].eval.result = "ok"
                       => worker[w].eval.on # "drifted"

\* A measurement is of what it is taken for: of the configuration it is credited to, the
\* one asked for, on the data that was due.
MeasuredAsCredited == CreditedWasActive /\ OfflineRunsRequested /\ DueMeansRestored

\* The Docker baseline is never taken from data an earlier session has used.
\* (recreate_worker0_for_baseline)
BaselineIsPristine == kind = "docker" => snap.content \in {"none", "broken", "baseline"}

\* The forced restart is only called done when an evaluation has restarted.
\* (orchestrator.evaluate_worker, force_restart_next_eval)
ForceIsHonoured == \A w \in Workers : worker[w].force \/ worker[w].booted

AllDown == \A w \in Workers : ~Up(inst[w])

\* A Docker instance that is down while a peer is up comes back, also when it is its
\* own configuration that keeps it from starting: the clone drops auto.conf.
\* (_attempt_recovery, execute_exploit_explore, clone_instances)
HealsWhileAPeerLives ==
    \A w \in Workers :
        kind = "docker" /\ stage \in Evaluating /\ ~Up(inst[w])
        ~> Up(inst[w]) \/ AllDown \/ stage \in {"teardown", "off"}

\* "Persistent failures escalate to a full rebuild, then to dead-worker rescue",
\* which gives "a fresh config and a fresh instance".
\* (docs/architecture/environment-backends.md:304 and 274)
PersistentFailuresHeal ==
    \A w \in Workers :
        stage \in Evaluating /\ ~Up(inst[w]) ~> Up(inst[w]) \/ stage \in {"teardown", "off"}
\* "Rebuild a worker instance from scratch" (utils/environments/base.py:345): of the
\* worker whose restore failed, and no other loses its own by it.
RebuildKeepsPeers ==
    [][stage = "activate" => \A w \in Workers : inst[w].known => inst'[w].known \/ stage' = "off"]_vars
=============================================================================
