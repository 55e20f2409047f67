-------------------------- MODULE ExperimentRunner --------------------------
(***************************************************************************)
(* The campaign runner: one experiment, its seeds in order, per seed the   *)
(* phases PBT, BO and EVAL (or the single LHS phase).  Each phase is a     *)
(* command; its progress is kept in a manifest that survives the runner,   *)
(* its result is committed to a git repository of results, and a later     *)
(* invocation resumes from the manifest.  Under distributed execution BO   *)
(* and EVAL run on a device that outlives the coordinator.                 *)
(*                                                                         *)
(* A result file ("artifact") is the number of its writing: a larger       *)
(* number is a newer modification time.  0 stands for None.                *)
(***************************************************************************)
EXTENDS Naturals, Sequences, FiniteSets, SequencesExt

CONSTANTS NSeeds,          \* the seeds of the experiment are 1 .. NSeeds
          Modes,           \* how the campaign may be configured
          Faults,          \* which faults may happen
          MaxFaults,       \* bound: faults of one behaviour
          MaxInvocations,  \* bound: times the runner is started
          StopRetries      \* GCP_STOP_RETRIES

Phases == {"pbt", "bo", "eval", "lhs"}
AllFaults == {"crash", "stop_in_stash", "interrupt", "interrupt_in_cleanup",
              "unreachable", "pop_conflict"}
ModeRecords == [strategy: {"pbt", "lhs"}, distributed: BOOLEAN, runBO: BOOLEAN,
                push: BOOLEAN, stopFleet: BOOLEAN]

ASSUME CampaignAssumption ==
    /\ NSeeds \in Nat \ {0}
    /\ MaxFaults \in Nat /\ MaxInvocations \in Nat \ {0} /\ StopRetries \in Nat \ {0}
    /\ Faults \subseteq AllFaults
    /\ Modes \subseteq {m \in ModeRecords : /\ m.distributed => m.strategy = "pbt"
                                            /\ m.stopFleet => m.distributed}

Seeds == 1 .. NSeeds
Keys == Seeds \X Phases

VARIABLES
    mode,        \* configuration of the campaign
    invocation,  \* which start of the runner this is: RunnerIdentity.runner_id
    retry,       \* --retry-failed
    pc,          \* where the runner is; "idle" when none holds the lock
    at,          \* <<seed, phase>> it is working on
    session,     \* pbt_session_path and bo_session_path of the seed
    mem,         \* the manifest in memory
    disk,        \* the manifest in the working tree
    files,       \* the artifacts in the working tree of the results
    head,        \* the last local commit: manifest and artifacts
    upstream,    \* the artifacts the shared results repository holds
    stash,       \* the stack of git stashes
    made,        \* the artifacts ever written, oldest first
    receipts,    \* receipts on the comparison device
    procs,       \* phase commands that run, with or without their runner
    host,        \* CPU governor of the coordinator, and the snapshot of it
    fleet,       \* worker VMs, the recorded shutdown status, stop attempts
    completed,   \* history: phases that have left their attempt as done
    dirty,       \* history: an exit skipped the cleanup of the host
    faults

manifests == <<mem, disk>>
repository == <<files, head, upstream, stash>>
world == <<made, receipts, procs>>
vars == <<mode, invocation, retry, pc, at, session, mem, disk, files, head, upstream,
          stash, made, receipts, procs, host, fleet, completed, dirty, faults>>

-----------------------------------------------------------------------------
(* The manifest. *)

Terminal == {"done", "failed", "interrupted", "stale"}
Statuses == {"none", "running", "syncing"} \cup Terminal
NoAttempt == <<0, 0>>

\* An entry of "runs".  id is attempt_id: the runner's identity and the attempt's
\* number; tries are the statuses of attempts[]; contract is the attempt whose
\* receipt remote_artifact names.
NoEntry == [status |-> "none", tries |-> <<>>, id |-> NoAttempt, started |-> 0,
            artifact |-> 0, contract |-> NoAttempt, pub |-> "none"]

EmptyManifest == [k \in Keys |-> NoEntry]

WithLast(s, x) == IF s = <<>> THEN s ELSE [s EXCEPT ![Len(s)] = x]

\* atomic_write_json replaces the file as a whole.
Save(m) == mem' = m /\ disk' = m

\* Mutant: the attempt before is left as it was.
StartPhase_NotSuperseding(m, k) ==
    [m EXCEPT ![k].status = "running", ![k].tries = Append(@, "running"),
              ![k].id = <<invocation, Len(m[k].tries) + 1>>, ![k].started = Len(made)]

\* _start_phase: the attempt before, if it never ended, is superseded.
StartPhase(m, k) ==
    LET e == m[k]
        old == IF e.status \in {"running", "syncing"}
               THEN WithLast(e.tries, "stale") ELSE e.tries
    IN [m EXCEPT ![k] = [e EXCEPT !.status = "running",
                                  !.tries = Append(old, "running"),
                                  !.id = <<invocation, Len(old) + 1>>,
                                  !.started = Len(made)]]

\* _mark_status: entry and last attempt move together.
MarkStatus(m, k, status) ==
    [m EXCEPT ![k].status = status, ![k].tries = WithLast(@, status)]

MarkDone(m, k, artifact) ==
    [MarkStatus(m, k, "done") EXCEPT ![k].artifact = artifact]

SetPublication(m, k, status) == [m EXCEPT ![k].pub = status]

SetRemoteArtifact(m, k) == [m EXCEPT ![k].contract = m[k].id]

\* Mutant: a phase is not done before it is published.
IsDone_Published(k) == \/ mem[k].status = "done" /\ mem[k].pub \in {"published", "disabled"}
                       \/ mem[k].status = "failed" /\ ~retry

\* _is_done: also a failed phase, unless failures are retried.
IsDone(k) == \/ mem[k].status = "done"
             \/ mem[k].status = "failed" /\ ~retry

-----------------------------------------------------------------------------
(* Artifacts. *)

Newest(S) == IF S = {} THEN 0 ELSE CHOOSE i \in S : \A j \in S : j <= i

\* _paths_to_stage: the directory of a phase is shared by the seeds.
OfPhase(S, phase) == {i \in S : made[i].phase = phase}

\* _find_latest_session_json, and the search for comparison files of local EVAL.
FindLatest(phase) == Newest(OfPhase(files, phase))

OnDevice(phase) == OfPhase({i \in DOMAIN made : made[i].remote}, phase)

Remote(k) == mode.distributed /\ k[2] \in {"bo", "eval"}

\* _remote_artifact_spec: the receipt an entry waits for; _reconcile_remote_artifact
\* prefers the contract on record to the one of the present attempt.
Contract(e) == IF e.contract # NoAttempt THEN e.contract ELSE e.id

\* _remote_artifact_from_receipt: the receipt, or else the newest file written
\* since started_at.
ReceiptOrNewer(k, e) ==
    LET own == {r \in receipts : r.id = Contract(e)}
    IN IF own # {} THEN (CHOOSE r \in own : TRUE).artifact
       ELSE Newest({i \in OnDevice(k[2]) : i > e.started})

\* Mutant: the seed of the result is not looked at.
Valid_AnySeed(k, i) == made[i].phase = k[2]

\* _validate_remote_artifact_path and _validate_reconciled_json.
Valid(k, i) == made[i].phase = k[2] /\ made[i].seed = k[1]

-----------------------------------------------------------------------------
(* The order of the phases. *)

PhaseOrder == IF mode.strategy = "lhs" THEN <<"lhs">>
              ELSE IF mode.runBO THEN <<"pbt", "bo", "eval">> ELSE <<"pbt", "eval">>

FirstKey(seed) == <<seed, PhaseOrder[1]>>

PhaseEntry(k) == IF Remote(k) THEN "reconcile" ELSE "phase"

NextSeed ==
    /\ session' = [pbt |-> 0, bo |-> 0]
    /\ IF at[1] < NSeeds
       THEN /\ at' = FirstKey(at[1] + 1)
            /\ pc' = "phase"
       ELSE at' = at /\ pc' = "exit"

NextPhase ==
    LET i == CHOOSE j \in DOMAIN PhaseOrder : PhaseOrder[j] = at[2]
        k == <<at[1], PhaseOrder[i + 1]>>
    IN IF i = Len(PhaseOrder) THEN NextSeed
       ELSE at' = k /\ pc' = PhaseEntry(k) /\ UNCHANGED session

\* An exception nobody on the way handles: the campaign session unwinds.
Abort == pc' = "exit"

-----------------------------------------------------------------------------
(* Starting and resuming. *)

Init ==
    /\ mode \in Modes
    /\ invocation = 0 /\ retry = FALSE /\ pc = "idle" /\ at = FirstKey(1)
    /\ session = [pbt |-> 0, bo |-> 0]
    /\ mem = EmptyManifest /\ disk = EmptyManifest /\ files = {}
    /\ head = [m |-> EmptyManifest, files |-> {}]
    /\ upstream = {} /\ stash = <<>>
    /\ made = <<>> /\ receipts = {} /\ procs = {}
    /\ host = [governor |-> "original", saved |-> "original"]
    /\ fleet = [vm |-> "RUNNING", recorded |-> "none", attempts |-> 0]
    /\ completed = {} /\ dirty = FALSE /\ faults = 0

\* Mutant: the snapshot is taken after the governor was set.
PinCpu_LateSnapshot == host' = IF mode.distributed THEN host
                               ELSE [governor |-> "performance", saved |-> "performance"]

\* read_cpu_perf_state and set_performance_mode; not in distributed mode.
PinCpu == host' = IF mode.distributed THEN host
                  ELSE [governor |-> "performance", saved |-> host.governor]

\* The campaign lock is free, so this process takes it, loads the manifest of the
\* experiment and turns to the first seed.  A process that finds the lock taken
\* ends without an effect.
StartCampaign(again) ==
    /\ pc = "idle" /\ invocation < MaxInvocations
    /\ invocation' = invocation + 1 /\ retry' = again
    /\ mem' = disk
    /\ at' = FirstKey(1) /\ pc' = "phase"
    /\ session' = [pbt |-> 0, bo |-> 0]
    /\ fleet' = [vm |-> "RUNNING", recorded |-> "none", attempts |-> 0]
    /\ PinCpu
    /\ UNCHANGED <<mode, disk, repository, world, completed, dirty, faults>>

\* _try_reconcile_remote_phase: is there abandoned remote work to look for?
Recoverable(k) == LET s == mem[k].status
                  IN s \in {"running", "syncing", "interrupted"} \/ (s = "failed" /\ retry)

NothingToReconcile ==
    /\ pc = "reconcile" /\ ~Recoverable(at)
    /\ pc' = "phase"
    /\ UNCHANGED <<mode, invocation, retry, at, session, manifests, repository, world,
                   host, fleet, completed, dirty, faults>>

\* The device knows no result, or cannot be asked, which is treated alike.
ReconcileFindsNothing(reachable) ==
    /\ pc = "reconcile" /\ Recoverable(at)
    /\ IF reachable THEN ReceiptOrNewer(at, mem[at]) = 0 /\ UNCHANGED faults
       ELSE "unreachable" \in Faults /\ faults < MaxFaults /\ faults' = faults + 1
    /\ IF mem[at].status \in {"running", "syncing"}
       THEN Save(MarkStatus(mem, at, "stale")) ELSE UNCHANGED manifests
    /\ pc' = "phase"
    /\ UNCHANGED <<mode, invocation, retry, at, session, repository, world,
                   host, fleet, completed, dirty>>

\* The result is fetched and the phase done without being run again.
ReconcileRecovers ==
    /\ pc = "reconcile" /\ Recoverable(at)
    /\ LET i == ReceiptOrNewer(at, mem[at])
       IN /\ i # 0 /\ Valid(at, i)
          /\ files' = files \cup OnDevice(at[2])
          /\ Save(MarkDone(mem, at, i))
          /\ session' = IF at[2] = "bo" THEN [session EXCEPT !.bo = i] ELSE session
    /\ completed' = completed \cup {at}
    /\ pc' = "publish"
    /\ UNCHANGED <<mode, invocation, retry, at, head, upstream, stash, world, host, fleet,
                   dirty, faults>>

\* A result of another seed, or one that cannot be fetched, is an error that
\* ends the campaign.
ReconcileFails ==
    /\ pc = "reconcile" /\ Recoverable(at)
    /\ LET i == ReceiptOrNewer(at, mem[at])
       IN i # 0 /\ (Valid(at, i) => "unreachable" \in Faults /\ faults < MaxFaults)
    /\ faults' = IF Valid(at, ReceiptOrNewer(at, mem[at])) THEN faults + 1 ELSE faults
    /\ Abort
    /\ UNCHANGED <<mode, invocation, retry, at, session, manifests, repository, world, host,
                   fleet, completed, dirty>>

\* "Skipping ... (already done/failed)", and _resume_publication_if_needed.
SkipPhase ==
    /\ pc = "phase" /\ IsDone(at)
    /\ session' = IF at[2] = "pbt" THEN [session EXCEPT !.pbt = mem[at].artifact]
                  ELSE IF at[2] = "bo" /\ session.bo = 0
                       THEN [session EXCEPT !.bo = mem[at].artifact] ELSE session
    /\ pc' = IF mem[at].status = "done" /\ mem[at].pub \notin {"published", "disabled"}
             THEN "publish" ELSE "after"
    /\ UNCHANGED <<mode, invocation, retry, at, manifests, repository, world, host, fleet,
                   completed, dirty, faults>>

NeedsPbt(k) == k[2] \in {"bo", "eval"}

\* "Cannot run BO/EVAL: PBT session JSON not found."
MissingSession ==
    /\ pc = "phase" /\ ~IsDone(at) /\ NeedsPbt(at) /\ session.pbt = 0
    /\ Save(MarkStatus(mem, at, "failed"))
    /\ pc' = "after"
    /\ UNCHANGED <<mode, invocation, retry, at, session, repository, world, host, fleet,
                   completed, dirty, faults>>

-----------------------------------------------------------------------------
(* One attempt. *)

Command(k, id) == [key |-> k, id |-> id, remote |-> Remote(k), marker |-> Len(made),
                   wrote |-> 0]

Attached == {p \in procs : pc = "command" /\ p.id = mem[at].id /\ p.key = at}

\* _phase_attempt is entered; a local command starts at once.
BeginAttempt ==
    /\ pc = "phase" /\ ~IsDone(at) /\ (NeedsPbt(at) => session.pbt # 0)
    /\ LET m == StartPhase(mem, at)
       IN /\ Save(m)
          /\ procs' = IF Remote(at) THEN procs ELSE procs \cup {Command(at, m[at].id)}
    /\ pc' = IF Remote(at) THEN "contract" ELSE "command"
    /\ UNCHANGED <<mode, invocation, retry, at, session, repository, made, receipts, host,
                   fleet, completed, dirty, faults>>

\* _set_remote_artifact, then the remote command with its marker.
LaunchRemote ==
    /\ pc = "contract"
    /\ Save(SetRemoteArtifact(mem, at))
    /\ procs' = procs \cup {Command(at, mem[at].id)}
    /\ pc' = "command"
    /\ UNCHANGED <<mode, invocation, retry, at, session, repository, made, receipts, host,
                   fleet, completed, dirty, faults>>

\* The command writes its result, whoever still waits for it.
CommandWrites(p) ==
    /\ p.wrote = 0
    /\ made' = Append(made, [phase |-> p.key[2], seed |-> p.key[1], remote |-> p.remote])
    /\ procs' = (procs \ {p}) \cup {[p EXCEPT !.wrote = Len(made')]}
    /\ files' = IF p.remote THEN files ELSE files \cup {Len(made')}
    /\ UNCHANGED <<mode, invocation, retry, pc, at, session, manifests, head, upstream,
                   stash, receipts, host, fleet, completed, dirty, faults>>

\* The command ends.  The remote shell leaves a receipt of the newest file
\* written since its marker.
CommandEnds(p, ok) ==
    /\ ok => p.wrote # 0
    /\ procs' = procs \ {p}
    /\ receipts' = IF p.remote /\ ok
                   THEN receipts \cup {[id |-> p.id, artifact |->
                            Newest({i \in OnDevice(p.key[2]) : i > p.marker})]}
                   ELSE receipts
    /\ pc' = IF p \notin Attached THEN pc
             ELSE IF ~ok THEN "failed" ELSE IF p.remote THEN "completed" ELSE "succeeded"
    /\ UNCHANGED <<mode, invocation, retry, at, session, manifests, repository, made, host,
                   fleet, completed, dirty, faults>>

RecordLocal ==
    /\ pc = "succeeded"
    /\ IF FindLatest(at[2]) = 0
       THEN Save(MarkStatus(mem, at, "failed")) /\ Abort
       ELSE Save(MarkDone(mem, at, FindLatest(at[2]))) /\ pc' = "recorded"
    /\ UNCHANGED <<mode, invocation, retry, at, session, repository, world, host, fleet,
                   completed, dirty, faults>>

\* "syncing": executed on the device, not yet here.
RemoteCompleted ==
    /\ pc = "completed"
    /\ Save(MarkStatus(mem, at, "syncing"))
    /\ pc' = "sync"
    /\ UNCHANGED <<mode, invocation, retry, at, session, repository, world, host, fleet,
                   completed, dirty, faults>>

SyncRemote ==
    /\ pc = "sync"
    /\ LET i == ReceiptOrNewer(at, mem[at])
       IN IF i # 0 /\ Valid(at, i)
          THEN /\ files' = files \cup OnDevice(at[2])
               /\ Save(MarkDone(mem, at, i)) /\ pc' = "recorded"
          ELSE Abort /\ UNCHANGED <<files, manifests>>
    /\ UNCHANGED <<mode, invocation, retry, at, session, head, upstream, stash, world, host,
                   fleet, completed, dirty, faults>>

\* _phase_attempt keeps "syncing" when the transfer fails.
SyncFails ==
    /\ pc = "sync" /\ "unreachable" \in Faults /\ faults < MaxFaults
    /\ faults' = faults + 1
    /\ Save(MarkStatus(mem, at, "syncing"))
    /\ Abort
    /\ UNCHANGED <<mode, invocation, retry, at, session, repository, world, host, fleet,
                   completed, dirty>>

LeaveAttempt ==
    /\ pc = "recorded"
    /\ session' = IF at[2] \in {"pbt", "bo"} THEN [session EXCEPT ![at[2]] = mem[at].artifact]
                  ELSE session
    /\ completed' = completed \cup {at}
    /\ pc' = "publish"
    /\ UNCHANGED <<mode, invocation, retry, at, manifests, repository, world, host, fleet,
                   dirty, faults>>

\* A failed PBT or BO phase skips the rest of the seed.
RecordFailure ==
    /\ pc = "failed"
    /\ Save(MarkStatus(mem, at, "failed"))
    /\ IF mode.distributed /\ at[2] = "pbt"
       THEN pc' = "after" /\ UNCHANGED <<at, session>>
       ELSE NextSeed
    /\ UNCHANGED <<mode, invocation, retry, repository, world, host, fleet, completed,
                   dirty, faults>>

-----------------------------------------------------------------------------
(* Publishing the result. *)

PublicationBegins ==
    /\ pc = "publish"
    /\ IF mode.push THEN Save(SetPublication(mem, at, "pending")) /\ pc' = "stash"
       ELSE Save(SetPublication(mem, at, "disabled")) /\ pc' = "after"
    /\ UNCHANGED <<mode, invocation, retry, at, session, repository, world, host, fleet,
                   completed, dirty, faults>>

\* git stash push --include-untracked: manifest and results leave the tree.
StashPush ==
    /\ pc = "stash"
    /\ stash' = Append(stash, [m |-> disk, files |-> files \ head.files])
    /\ disk' = head.m /\ files' = files \cap head.files
    /\ pc' = "pull"
    /\ UNCHANGED <<mode, invocation, retry, at, session, mem, head, upstream, world, host,
                   fleet, completed, dirty, faults>>

\* What git stash pop does to the tree.
Unstash == /\ disk' = Last(stash).m
           /\ files' = files \cup Last(stash).files
           /\ stash' = SubSeq(stash, 1, Len(stash) - 1)

\* pull --rebase (peers own other files, so it changes nothing here), stash pop.
StashPop ==
    /\ pc = "pull"
    /\ Unstash
    /\ pc' = "commit"
    /\ UNCHANGED <<mode, invocation, retry, at, session, mem, head, upstream, world, host,
                   fleet, completed, dirty, faults>>

PopConflicts ==
    /\ pc = "pull" /\ "pop_conflict" \in Faults /\ faults < MaxFaults
    /\ faults' = faults + 1
    /\ pc' = "commit_unpopped"
    /\ UNCHANGED <<mode, invocation, retry, at, session, manifests, repository, world, host,
                   fleet, completed, dirty>>

Staged == OfPhase(files, at[2]) \ head.files

\* git add; nothing staged ends the publication, else git commit.
CommitResults ==
    /\ pc \in {"commit", "commit_unpopped"}
    /\ IF pc = "commit_unpopped" /\ Staged = {}
       THEN /\ Save(SetPublication(mem, at, "no_changes"))
            /\ pc' = "after" /\ UNCHANGED head
       ELSE /\ head' = [m |-> disk, files |-> head.files \cup Staged]
            /\ pc' = (IF pc = "commit" THEN "push" ELSE "push_unpopped")
            /\ UNCHANGED manifests
    /\ UNCHANGED <<mode, invocation, retry, at, session, files, upstream, stash, world, host,
                   fleet, completed, dirty, faults>>

\* Mutant: the record does not look at the outcome of the push.
PushResults_Unchecked(ok) ==
    /\ pc \in {"push", "push_unpopped"}
    /\ upstream' = IF ok THEN head.files ELSE upstream
    /\ Save(SetPublication(mem, at, "published"))
    /\ pc' = "flush"
    /\ UNCHANGED <<mode, invocation, retry, at, session, files, head, stash, world, host,
                   fleet, completed, dirty, faults>>

\* git push, up to PUSH_RETRIES times.
PushResults(ok) ==
    /\ pc \in {"push", "push_unpopped"}
    /\ upstream' = IF ok THEN head.files ELSE upstream
    /\ Save(SetPublication(mem, at, IF ok THEN "published" ELSE "failed"))
    /\ pc' = IF ok THEN "flush" ELSE "after"
    /\ UNCHANGED <<mode, invocation, retry, at, session, files, head, stash, world, host,
                   fleet, completed, dirty, faults>>

\* _flush_publication_record: the manifest alone; its push is best effort and
\* brings the repository no artifact.
FlushRecord ==
    /\ pc = "flush"
    /\ head' = [head EXCEPT !.m = disk]
    /\ pc' = "after"
    /\ UNCHANGED <<mode, invocation, retry, at, session, manifests, files, upstream, stash,
                   world, host, fleet, completed, dirty, faults>>

-----------------------------------------------------------------------------
(* Between phases. *)

\* After PBT the fleet is handed to the comparison phases: agents and instances are
\* stopped.  The traces the next phase reads are uploaded, if there are any.
HandOff ==
    /\ pc = "after" /\ mode.distributed /\ at[2] \in {"pbt", "bo"}
    /\ LET trace == session[at[2]]
       IN IF at[2] = "pbt" /\ trace = 0 THEN NextSeed
          ELSE IF trace \in files \cup {0} THEN NextPhase
          ELSE Abort /\ UNCHANGED <<at, session>>
    /\ UNCHANGED <<mode, invocation, retry, manifests, repository, world, host, fleet,
                   completed, dirty, faults>>

\* A device that does not answer ends the campaign.
HandOffFails ==
    /\ pc = "after" /\ mode.distributed /\ at[2] \in {"pbt", "bo"}
    /\ "unreachable" \in Faults /\ faults < MaxFaults
    /\ faults' = faults + 1
    /\ Abort
    /\ UNCHANGED <<mode, invocation, retry, at, session, manifests, repository, world, host,
                   fleet, completed, dirty>>

Proceed ==
    /\ pc = "after" /\ ~(mode.distributed /\ at[2] \in {"pbt", "bo"})
    /\ NextPhase
    /\ UNCHANGED <<mode, invocation, retry, manifests, repository, world, host, fleet,
                   completed, dirty, faults>>

-----------------------------------------------------------------------------
(* Leaving: the two campaign sessions clean up. *)

\* cpu_performance_session: _restore_once.
RestoreCpu ==
    /\ pc = "exit" /\ ~mode.stopFleet
    /\ host' = IF mode.distributed THEN host ELSE [host EXCEPT !.governor = host.saved]
    /\ pc' = "idle"
    /\ UNCHANGED <<mode, invocation, retry, at, session, manifests, repository, world, fleet,
                   completed, dirty, faults>>

\* _stop_gcp_fleet: ask for the shutdown ...
StopVm ==
    /\ pc = "exit" /\ mode.stopFleet /\ fleet.attempts < StopRetries
    /\ fleet' = [fleet EXCEPT !.recorded = "stopping", !.attempts = @ + 1]
    /\ pc' = "verify"
    /\ UNCHANGED <<mode, invocation, retry, at, session, manifests, repository, world, host,
                   completed, dirty, faults>>

\* ... the machine stops when it does ...
VmTerminates ==
    /\ fleet.recorded = "stopping" /\ fleet.vm = "RUNNING"
    /\ fleet' = [fleet EXCEPT !.vm = "TERMINATED"]
    /\ UNCHANGED <<mode, invocation, retry, pc, at, session, manifests, repository, world,
                   host, completed, dirty, faults>>

\* Mutant: the stop command is believed.
VerifyVm_Trusting ==
    /\ pc = "verify"
    /\ fleet' = [fleet EXCEPT !.recorded = "terminated"] /\ pc' = "idle"
    /\ UNCHANGED <<mode, invocation, retry, at, session, manifests, repository, world, host,
                   completed, dirty, faults>>

\* ... and is believed stopped only when it says so.
VerifyVm ==
    /\ pc = "verify"
    /\ IF fleet.vm = "TERMINATED"
       THEN fleet' = [fleet EXCEPT !.recorded = "terminated"] /\ pc' = "idle"
       ELSE IF fleet.attempts < StopRetries THEN pc' = "exit" /\ UNCHANGED fleet
       ELSE fleet' = [fleet EXCEPT !.recorded = "failed"] /\ pc' = "idle"
    /\ UNCHANGED <<mode, invocation, retry, at, session, manifests, repository, world, host,
                   completed, dirty, faults>>

-----------------------------------------------------------------------------
(* Faults. *)

InAttempt == {"contract", "command", "failed", "succeeded", "completed", "sync", "recorded"}
InStash == {"pull", "commit_unpopped", "push_unpopped"}
InCleanup == {"exit", "verify"}

\* A signal: KeyboardInterrupt.  An attempt is marked interrupted and its local
\* command killed; a stash is popped by the finally clause, unless that has failed.
Interrupt ==
    /\ "interrupt" \in Faults /\ faults < MaxFaults /\ pc \notin InCleanup \cup {"idle"}
    /\ pc \in {"commit_unpopped", "push_unpopped"} => "stop_in_stash" \in Faults
    /\ faults' = faults + 1
    /\ IF pc \in InAttempt THEN Save(MarkStatus(mem, at, "interrupted")) /\ UNCHANGED <<files, stash>>
       ELSE IF pc = "pull" THEN Unstash /\ UNCHANGED mem
       ELSE UNCHANGED <<manifests, files, stash>>
    /\ procs' = procs \ {p \in Attached : ~p.remote}
    /\ Abort
    /\ UNCHANGED <<mode, invocation, retry, at, session, head, upstream, made, receipts,
                   host, fleet, completed, dirty>>

\* A signal during the cleanup: nothing resumes it, the exit handlers are
\* unregistered or find it marked as done.
InterruptInCleanup ==
    /\ "interrupt_in_cleanup" \in Faults /\ faults < MaxFaults /\ pc \in InCleanup
    /\ faults' = faults + 1
    /\ pc' = "idle" /\ dirty' = TRUE
    /\ UNCHANGED <<mode, invocation, retry, at, session, manifests, repository, world, host,
                   fleet, completed>>

\* The runner dies without unwinding: the kernel releases the lock, what was on
\* disk stays, its command dies or goes on alone.
Crash(survives) ==
    /\ pc # "idle" /\ faults < MaxFaults
    /\ IF pc \in InStash THEN "stop_in_stash" \in Faults ELSE "crash" \in Faults
    /\ faults' = faults + 1
    /\ procs' = IF survives THEN procs ELSE procs \ Attached
    /\ mem' = EmptyManifest
    /\ pc' = "idle" /\ dirty' = TRUE
    /\ UNCHANGED <<mode, invocation, retry, at, session, disk, repository, made, receipts,
                   host, fleet, completed>>

-----------------------------------------------------------------------------

Next ==
    \/ \E again \in BOOLEAN : StartCampaign(again)
    \/ NothingToReconcile
    \/ \E reachable \in BOOLEAN : ReconcileFindsNothing(reachable)
    \/ ReconcileRecovers \/ ReconcileFails
    \/ SkipPhase \/ MissingSession
    \/ BeginAttempt \/ LaunchRemote
    \/ \E p \in procs : CommandWrites(p) \/ \E ok \in BOOLEAN : CommandEnds(p, ok)
    \/ RecordLocal \/ RemoteCompleted \/ SyncRemote \/ SyncFails
    \/ LeaveAttempt \/ RecordFailure
    \/ PublicationBegins \/ StashPush \/ StashPop \/ PopConflicts \/ CommitResults
    \/ \E ok \in BOOLEAN : PushResults(ok)
    \/ FlushRecord
    \/ HandOff \/ HandOffFails \/ Proceed
    \/ RestoreCpu \/ StopVm \/ VmTerminates \/ VerifyVm
    \/ Interrupt \/ InterruptInCleanup \/ \E survives \in BOOLEAN : Crash(survives)

Spec == Init /\ [][Next]_vars

-----------------------------------------------------------------------------
(* Properties. *)

Artifacts == 0 .. Len(made)
Entries == [status: Statuses, tries: Seq(Statuses), id: Nat \X Nat, started: Nat,
            artifact: Nat, contract: Nat \X Nat,
            pub: {"none", "pending", "published", "failed", "no_changes", "disabled"}]
Manifests == [Keys -> Entries]

TypeOK ==
    /\ mode \in Modes /\ invocation \in 0 .. MaxInvocations /\ retry \in BOOLEAN
    /\ pc \in {"idle", "reconcile", "phase", "publish", "stash", "pull", "commit",
               "commit_unpopped", "push", "push_unpopped", "flush", "after"} \cup InAttempt \cup InCleanup
    /\ at \in Keys /\ session \in [pbt: Artifacts, bo: Artifacts]
    /\ mem \in Manifests /\ disk \in Manifests
    /\ files \subseteq Artifacts
    /\ head \in [m: Manifests, files: SUBSET Artifacts]
    /\ upstream \subseteq Artifacts
    /\ completed \subseteq Keys /\ faults \in 0 .. MaxFaults

\* Of the attempts on record for a phase, at most the last is live, and it is as
\* live as the phase says: a resumed campaign never leaves two attempts running.
\* (_start_phase, _mark_status, _try_reconcile_remote_phase)
OneLiveAttempt ==
    \A k \in Keys : LET t == disk[k].tries
                    IN /\ \A i \in 1 .. Len(t) - 1 : t[i] \in Terminal
                       /\ t # <<>> => Last(t) = disk[k].status

\* The result recorded for a remote phase is one of that phase and that seed,
\* whatever other results lie in the same directory of the device, those of
\* commands that lost their runner included.  (_validate_reconciled_json)
RemoteResultMatches ==
    \A k \in Keys : Remote(k) /\ disk[k].status = "done" =>
        made[disk[k].artifact].phase = k[2] /\ made[disk[k].artifact].seed = k[1]

\* Once a phase has completed, the manifest on disk says so, through
\* interruptions, crashes and resumptions; but for the moments in which it lies
\* in the stash.  "A phase's progress is already persisted in the manifest before
\* this runs." (_sync_results_repo)
DoneIsKept == pc \notin InStash => \A k \in completed : disk[k].status = "done"

\* A result recorded as published is in the shared repository, or, where git could
\* not restore it, "preserved in the stash".  (_publish_phase, _sync_results_repo)
PublishedIsKept ==
    \A k \in Keys : disk[k].pub = "published" =>
        disk[k].artifact \in upstream \cup UNION {stash[i].files : i \in DOMAIN stash}

\* What the campaign has achieved is not lost: neither the record of a completed
\* phase, nor a result that is said to be published.
ResultsAreKept == DoneIsKept /\ PublishedIsKept

\* The shutdown is recorded as done only for machines that have stopped.
\* (_stop_gcp_fleet, _gcp_instance_status)
TerminatedIsVerified == fleet.recorded = "terminated" => fleet.vm = "TERMINATED"

\* A runner that unwinds leaves the host's CPU policy as it found it.  After a
\* crash the next snapshot is of a pinned host, so none can.
\* (cpu_performance_session: "always restored on exit")
HostRestored == pc = "idle" /\ ~dirty => host.governor = "original"

\* EVAL of an experiment with a BO phase compares with a BO session: it is only
\* done when BO is.  "BO phase failed. Skipping EVAL for this seed."
EvalComparesBo ==
    \A s \in Seeds : mode.runBO /\ disk[<<s, "eval">>].status = "done"
                     => disk[<<s, "bo">>].status = "done"
=============================================================================
