-------------------------- MODULE Instances_proof --------------------------
(***************************************************************************)
(* Proofs about Instances, for any number of instances, configurations,    *)
(* sessions and faults, and both backends.                                 *)
(*                                                                         *)
(* TypeInv: types of the instances, the snapshot and the workers.          *)
(* BaselineInv: how far a Docker baseline is, from the container made for  *)
(* it to the copy of its data.                                             *)
(*                                                                         *)
(* MeasuredInv: what holds of a worker's evaluation from its plan to its   *)
(* result.                                                                 *)
(***************************************************************************)
EXTENDS Instances, TLAPS

Instance == [known: BOOLEAN, box: {"absent", "stopped", "running"}, data: Data,
             file: Configurations, active: Configurations]
EvaluationRecord ==
    [plan: {"none", "reload", "restart", "restore", "rebuild"},
     forced: BOOLEAN, restarted: BOOLEAN, want: Configurations,
     seen: Configurations, on: Data, verified: BOOLEAN, clean: BOOLEAN,
     result: {"none", "ok", "failed"}]
Worker == [config: Configurations, force: BOOLEAN, booted: BOOLEAN, eval: EvaluationRecord]

\* Workers of their type, none of which has lost a forced restart.
Good(f) == f \in [Workers -> Worker] /\ \A w \in Workers : f[w].force \/ f[w].booted

TypeInv ==
    /\ inst \in [Workers -> Instance]
    /\ snap \in [content: Data, manifest: BOOLEAN]
    /\ Good(worker)

LEMMA ConstantsType ==
  /\ NWorkers \in Nat \ {0} /\ 0 \in Workers
  /\ Default \in Configurations /\ Configs \subseteq Configurations
<1>1. NWorkers \in Nat \ {0} /\ Configs \subseteq [pm: Nat, dyn: Nat]
  BY InstancesAssumption
<1>2. 0 \in Workers
  BY <1>1 DEF Workers
<1>3. Default \in Configurations
  BY DEF Default, Configurations
<1>4. ASSUME NEW c \in Configs PROVE c \in Configurations
  BY <1>1 DEF Configurations
<1> QED BY <1>1, <1>2, <1>3, <1>4

-----------------------------------------------------------------------------
(* What is done to one instance.                                           *)

LEMMA StartType ==
  ASSUME NEW i \in Instance
  PROVE  /\ Start(i) \in Instance /\ Start(i).data = i.data
         /\ Up(Start(i)) => i.data # "broken"
         /\ Stop(i) \in Instance /\ Stop(i).data = i.data
<1>1. Start(i) \in Instance
  <2>1. [i EXCEPT !.box = "running", !.active = i.file] \in Instance
    BY DEF Instance
  <2>2. [i EXCEPT !.box = "stopped"] \in Instance
    BY DEF Instance
  <2> QED BY <2>1, <2>2 DEF Start
<1>2. Start(i).data = i.data
  BY DEF Start, Instance
<1>3. Up(Start(i)) => i.data # "broken"
  BY DEF Start, Up, Startable, Instance
<1>4. Stop(i) \in Instance /\ Stop(i).data = i.data
  BY DEF Stop, Instance
<1> QED BY <1>1, <1>2, <1>3, <1>4

LEMMA SetType ==
  ASSUME NEW i \in Instance
  PROVE  /\ \A d \in Data : [i EXCEPT !.data = d] \in Instance /\ [i EXCEPT !.data = d].data = d
         /\ \A f \in Configurations : [i EXCEPT !.file = f] \in Instance
         /\ \A b \in BOOLEAN : [i EXCEPT !.known = b] \in Instance
                               /\ [i EXCEPT !.known = b].data = i.data
         /\ \A x \in {"absent", "stopped", "running"} : [i EXCEPT !.box = x] \in Instance
         /\ i.data \in Data /\ i.file \in Configurations /\ i.active \in Configurations
<1>1. ASSUME NEW d \in Data
      PROVE  [i EXCEPT !.data = d] \in Instance /\ [i EXCEPT !.data = d].data = d
  BY DEF Instance
<1>2. ASSUME NEW f \in Configurations PROVE [i EXCEPT !.file = f] \in Instance
  BY DEF Instance
<1>3. ASSUME NEW b \in BOOLEAN
      PROVE  [i EXCEPT !.known = b] \in Instance /\ [i EXCEPT !.known = b].data = i.data
  BY DEF Instance
<1>4. ASSUME NEW x \in {"absent", "stopped", "running"} PROVE [i EXCEPT !.box = x] \in Instance
  BY DEF Instance
<1>5. i.data \in Data /\ i.file \in Configurations /\ i.active \in Configurations
  BY DEF Instance
<1> QED BY <1>1, <1>2, <1>3, <1>4, <1>5

LEMMA OperationType ==
  ASSUME NEW i \in Instance
  PROVE  /\ Fresh(i) \in Instance /\ Fresh(i).data = "empty"
         /\ Recover(i) \in Instance
         /\ Reset(i) \in Instance /\ Reset(i).data = i.data
         /\ Reloaded(i) \in Instance
         /\ StoppedAll(i) \in Instance
<1>1. Fresh(i) \in Instance /\ Fresh(i).data = "empty"
  <2>1. /\ [i EXCEPT !.data = "empty", !.file = Default] \in Instance
        /\ [i EXCEPT !.data = "empty", !.file = Default].data = "empty"
    BY ConstantsType DEF Instance, Data
  <2> QED BY <2>1, StartType DEF Fresh
<1>2. Recover(i) \in Instance
  BY StartType DEF Recover
<1>3. Reset(i) \in Instance /\ Reset(i).data = i.data
  BY ConstantsType DEF Reset, Instance
<1>4. Reloaded(i) \in Instance
  <2>1. i.active \in Configurations /\ i.file \in Configurations
    BY SetType
  <2>2. [i.active EXCEPT !.dyn = i.file.dyn] \in Configurations
    BY <2>1 DEF Configurations
  <2>3. Reloaded(i) = [i EXCEPT !.active = [i.active EXCEPT !.dyn = i.file.dyn]]
    BY DEF Reloaded, Instance
  <2>4. \A c \in Configurations : [i EXCEPT !.active = c] \in Instance
    BY DEF Instance
  <2> QED BY <2>2, <2>3, <2>4
<1>5. StoppedAll(i) \in Instance
  BY StartType, SetType DEF StoppedAll
<1> QED BY <1>1, <1>2, <1>3, <1>4, <1>5

LEMMA NoInstanceType == NoInstance \in Instance
  BY ConstantsType DEF NoInstance, Instance, Data

-----------------------------------------------------------------------------
(* What is done to the tuner's worker.                                     *)

LEMMA RecordType ==
  ASSUME NEW e \in EvaluationRecord
  PROVE  /\ \A x \in {"none", "ok", "failed"} : [e EXCEPT !.result = x] \in EvaluationRecord
         /\ \A b \in BOOLEAN : /\ [e EXCEPT !.clean = b] \in EvaluationRecord
                             /\ [e EXCEPT !.restarted = b] \in EvaluationRecord
                             /\ [e EXCEPT !.verified = b] \in EvaluationRecord
                             /\ [e EXCEPT !.forced = b] \in EvaluationRecord
         /\ \A c \in Configurations : /\ [e EXCEPT !.seen = c] \in EvaluationRecord
                                     /\ [e EXCEPT !.want = c] \in EvaluationRecord
         /\ \A d \in Data : [e EXCEPT !.on = d] \in EvaluationRecord
         /\ \A p \in {"none", "reload", "restart", "restore", "rebuild"} :
               [e EXCEPT !.plan = p] \in EvaluationRecord
<1>1. \A x \in {"none", "ok", "failed"} : [e EXCEPT !.result = x] \in EvaluationRecord
  BY DEF EvaluationRecord
<1>2. ASSUME NEW b \in BOOLEAN
      PROVE  /\ [e EXCEPT !.clean = b] \in EvaluationRecord
             /\ [e EXCEPT !.restarted = b] \in EvaluationRecord
             /\ [e EXCEPT !.verified = b] \in EvaluationRecord
             /\ [e EXCEPT !.forced = b] \in EvaluationRecord
  BY DEF EvaluationRecord
<1>3. ASSUME NEW c \in Configurations
      PROVE  /\ [e EXCEPT !.seen = c] \in EvaluationRecord
             /\ [e EXCEPT !.want = c] \in EvaluationRecord
  BY DEF EvaluationRecord
<1>4. \A d \in Data : [e EXCEPT !.on = d] \in EvaluationRecord
  BY DEF EvaluationRecord
<1>5. \A p \in {"none", "reload", "restart", "restore", "rebuild"} :
         [e EXCEPT !.plan = p] \in EvaluationRecord
  BY DEF EvaluationRecord
<1> QED BY <1>1, <1>2, <1>3, <1>4, <1>5

\* An evaluation record, or a configuration, is replaced.
LEMMA GoodRecord ==
  ASSUME NEW f, Good(f), NEW w \in Workers, NEW e \in EvaluationRecord
  PROVE  Good([f EXCEPT ![w].eval = e])
<1>1. f[w] \in Worker
  BY DEF Good
<1> DEFINE x == [f[w] EXCEPT !.eval = e]
<1>2. x \in Worker /\ x.force = f[w].force /\ x.booted = f[w].booted
  BY <1>1 DEF Worker
<1> HIDE DEF x
<1>3. Good([f EXCEPT ![w] = x])
  BY <1>2 DEF Good
<1>4. [f EXCEPT ![w].eval = e] = [f EXCEPT ![w] = x]
  BY DEF Good, x
<1> QED BY <1>3, <1>4

LEMMA GoodConfig ==
  ASSUME NEW f, Good(f), NEW w \in Workers, NEW c \in Configurations
  PROVE  Good([f EXCEPT ![w].config = c])
<1>1. f[w] \in Worker
  BY DEF Good
<1> DEFINE x == [f[w] EXCEPT !.config = c]
<1>2. x \in Worker /\ x.force = f[w].force /\ x.booted = f[w].booted
  BY <1>1 DEF Worker
<1> HIDE DEF x
<1>3. Good([f EXCEPT ![w] = x])
  BY <1>2 DEF Good
<1>4. [f EXCEPT ![w].config = c] = [f EXCEPT ![w] = x]
  BY DEF Good, x
<1> QED BY <1>3, <1>4

LEMMA EvalType ==
  ASSUME NEW f, Good(f), NEW w \in Workers PROVE f[w].eval \in EvaluationRecord /\ f[w].config \in Configurations
  BY DEF Good, Worker

LEMMA FailType == ASSUME TypeInv, NEW w \in Workers PROVE Good(Fail(w))
<1> DEFINE e == [worker[w].eval EXCEPT !.result = "failed"]
<1>1. e \in EvaluationRecord
  BY EvalType, RecordType DEF TypeInv
<1>2. Fail(w) = [worker EXCEPT ![w].eval = e]
  BY DEF Fail, TypeInv, Good
<1> HIDE DEF e
<1>3. Good([worker EXCEPT ![w].eval = e])
  BY <1>1, GoodRecord DEF TypeInv
<1> QED BY <1>2, <1>3

LEMMA NotRestartedType == ASSUME TypeInv, NEW w \in Workers PROVE Good(NotRestarted(w))
<1> DEFINE e == [worker[w].eval EXCEPT !.clean = FALSE]
<1>1. e \in EvaluationRecord
  BY EvalType, RecordType DEF TypeInv
<1>2. NotRestarted(w) = [worker EXCEPT ![w].eval = e]
  BY DEF NotRestarted, TypeInv, Good
<1> HIDE DEF e
<1>3. Good([worker EXCEPT ![w].eval = e])
  BY <1>1, GoodRecord DEF TypeInv
<1> QED BY <1>2, <1>3

LEMMA RestartedType == ASSUME TypeInv, NEW w \in Workers PROVE Good(Restarted(w))
<1> DEFINE e == [worker[w].eval EXCEPT !.restarted = TRUE]
           b == IF worker[w].eval.forced THEN FALSE ELSE worker[w].force
           x == [worker[w] EXCEPT !.eval = e, !.booted = TRUE, !.force = b]
<1>1. worker[w] \in Worker /\ e \in EvaluationRecord
  BY EvalType, RecordType DEF TypeInv, Good
<1>2. b \in BOOLEAN
  BY <1>1 DEF Worker
<1>3. Restarted(w) = [worker EXCEPT ![w] = x]
  BY DEF Restarted, TypeInv, Good
<1>4. x \in Worker /\ x.booted = TRUE
  <2> HIDE DEF e, b
  <2> QED BY <1>1, <1>2 DEF Worker
<1> HIDE DEF x
<1> QED BY <1>3, <1>4 DEF TypeInv, Good

LEMMA CaptureType == ASSUME TypeInv, NEW w \in Workers PROVE Good(Capture(w))
<1> DEFINE e == [worker[w].eval EXCEPT !.verified = TRUE]
           f == [worker EXCEPT ![w].eval = e]
<1>1. e \in EvaluationRecord /\ inst[w].active \in Configurations
  BY EvalType, RecordType, SetType DEF TypeInv
<1>2. Good(f)
  <2> HIDE DEF e
  <2> QED BY <1>1, GoodRecord DEF TypeInv
<1>3. Good([f EXCEPT ![w].config = inst[w].active])
  <2> HIDE DEF f
  <2> QED BY <1>1, <1>2, GoodConfig
<1>4. Capture(w) = [f EXCEPT ![w].config = inst[w].active]
  BY DEF Capture, TypeInv, Good
<1> QED BY <1>3, <1>4

LEMMA NewWorkerType ==
  /\ NoEvaluation \in EvaluationRecord
  /\ \A c \in Configurations : NewWorker(c) \in Worker /\ NewWorker(c).force
  /\ \A x \in Worker : \A w : /\ NextEvaluation(w, x) \in Worker
                           /\ NextEvaluation(w, x).force = x.force
                           /\ NextEvaluation(w, x).booted = x.booted
<1>1. NoEvaluation \in EvaluationRecord
  BY ConstantsType DEF NoEvaluation, EvaluationRecord, Data
<1>2. ASSUME NEW c \in Configurations PROVE NewWorker(c) \in Worker /\ NewWorker(c).force
  BY <1>1 DEF NewWorker, Worker
<1>3. ASSUME NEW x \in Worker, NEW w
      PROVE  /\ NextEvaluation(w, x) \in Worker
             /\ NextEvaluation(w, x).force = x.force /\ NextEvaluation(w, x).booted = x.booted
  BY <1>1 DEF NextEvaluation, Worker
<1> QED BY <1>1, <1>2, <1>3

-----------------------------------------------------------------------------
(* The steps of an evaluation.                                             *)

\* One instance is replaced by another.
LEMMA InstanceStep ==
  ASSUME TypeInv, NEW w, NEW i \in Instance, inst' = [inst EXCEPT ![w] = i]
  PROVE  inst' \in [Workers -> Instance] /\ (w \in Workers => inst'[w] = i)
  BY DEF TypeInv

LEMMA InstanceOf == ASSUME TypeInv, NEW w \in Workers PROVE inst[w] \in Instance
  BY DEF TypeInv

LEMMA FailAndRecoverType ==
  ASSUME TypeInv, NEW w \in Workers, NEW next, FailAndRecover(w, next), UNCHANGED snap PROVE TypeInv'
<1>1. Good(worker')
  BY FailType DEF FailAndRecover
<1>2. inst' \in [Workers -> Instance]
  <2>1. CASE inst' = [inst EXCEPT ![w] = Recover(@)]
    BY <2>1, OperationType, InstanceOf DEF TypeInv
  <2> QED BY <2>1 DEF FailAndRecover, TypeInv
<1> QED BY <1>1, <1>2 DEF TypeInv, Good

LEMMA ApplyType ==
  ASSUME TypeInv, NEW w \in Workers, NEW written \in SUBSET Knobs, Apply(w, written) PROVE TypeInv'
<1> DEFINE c == worker[w].config
           plan == Plan(RestartRequired(inst[w], c, written), written, worker[w].force)
           f == WrittenFile(inst[w], c, written)
           i == [inst[w] EXCEPT !.file = f]
           e == [NoEvaluation EXCEPT !.plan = plan, !.want = c, !.clean = (written = Knobs),
                                     !.forced = worker[w].force]
<1>1. inst[w] \in Instance /\ c \in Configurations /\ worker[w].force \in BOOLEAN
  BY DEF TypeInv, Good, Worker
<1>2. f \in Configurations
  <2>1. inst[w].file \in Configurations
    BY <1>1, SetType
  <2> HIDE DEF c
  <2> QED BY <1>1, <2>1 DEF WrittenFile, Configurations
<1>3. i \in Instance
  <2> HIDE DEF f
  <2> QED BY <1>1, <1>2, SetType
<1>4. inst' \in [Workers -> Instance]
  <2>1. inst' = [inst EXCEPT ![w] = IF plan = "reload" THEN Reloaded(i) ELSE i]
    BY DEF Apply
  <2> HIDE DEF i, plan
  <2> QED BY <1>3, <2>1, OperationType DEF TypeInv
<1>5. plan \in {"none", "reload", "restart", "restore"}
  BY DEF Plan
<1>6. e \in EvaluationRecord
  <2>1. (written = Knobs) \in BOOLEAN
    OBVIOUS
  <2> HIDE DEF plan, c
  <2> QED BY <1>1, <1>5, <2>1, NewWorkerType DEF EvaluationRecord
<1>7. worker' = [worker EXCEPT ![w].eval = e]
  BY DEF Apply
<1>8. Good(worker')
  <2> HIDE DEF e
  <2> QED BY <1>6, <1>7, GoodRecord DEF TypeInv
<1> QED BY <1>4, <1>8 DEF Apply, TypeInv, Good

LEMMA RestartType == ASSUME TypeInv, NEW w \in Workers, Restart(w) PROVE TypeInv'
<1>1. inst[w] \in Instance /\ Start(inst[w]) \in Instance
  BY StartType DEF TypeInv
<1>2. inst' = [inst EXCEPT ![w] = Start(inst[w])] \/ inst' = [inst EXCEPT ![w] = inst[w]]
  BY DEF Restart, AfterTimeout
<1>3. worker' = Restarted(w) \/ worker' = NotRestarted(w)
  BY DEF Restart
<1>4. Good(worker')
  BY <1>3, RestartedType, NotRestartedType
<1>5. inst' \in [Workers -> Instance]
  BY <1>1, <1>2, InstanceStep
<1> QED BY <1>4, <1>5 DEF Restart, TypeInv, Good

LEMMA PlanType ==
  ASSUME TypeInv, NEW w \in Workers PROVE Good([worker EXCEPT ![w].eval.plan = "rebuild"])
<1> DEFINE e == [worker[w].eval EXCEPT !.plan = "rebuild"]
<1>1. e \in EvaluationRecord
  BY EvalType, RecordType DEF TypeInv
<1>2. [worker EXCEPT ![w].eval.plan = "rebuild"] = [worker EXCEPT ![w].eval = e]
  BY DEF TypeInv, Good
<1> HIDE DEF e
<1>3. Good([worker EXCEPT ![w].eval = e])
  BY <1>1, GoodRecord DEF TypeInv
<1> QED BY <1>2, <1>3

LEMMA RestoreType == ASSUME TypeInv, NEW w \in Workers, Restore(w) PROVE TypeInv'
<1>1. inst[w] \in Instance /\ snap.content \in Data
  BY DEF TypeInv
<1>2. Start(Seeded(inst[w])) \in Instance
  BY <1>1, StartType, SetType DEF Seeded
<1>3. inst' = [inst EXCEPT ![w] = Start(Seeded(inst[w]))]
  BY DEF Restore
<1>4. inst' \in [Workers -> Instance]
  BY <1>2, <1>3, InstanceStep
<1>5. worker' = Restarted(w) \/ worker' = [worker EXCEPT ![w].eval.plan = "rebuild"] \/ worker' = Fail(w)
  BY DEF Restore
<1>6. Good(worker')
  BY <1>5, RestartedType, PlanType, FailType
<1> QED BY <1>4, <1>6 DEF Restore, TypeInv, Good

LEMMA RestoreFailsType == ASSUME TypeInv, NEW w \in Workers, RestoreFails(w) PROVE TypeInv'
<1>1. inst[w] \in Instance /\ inst[w].data \in Data
  BY SetType DEF TypeInv
<1>2. ASSUME NEW data \in {"broken", inst[w].data}
      PROVE  LET i == [inst[w] EXCEPT !.data = data]
             IN  [i EXCEPT !.box = "absent"] \in Instance /\ Start(i) \in Instance
  <2>1. data \in Data
    BY <1>1 DEF Data
  <2> QED BY <1>1, <2>1, StartType, SetType
<1>3. inst' = inst \/ \E data \in {"broken", inst[w].data} :
         LET i == [inst[w] EXCEPT !.data = data]
         IN inst' = [inst EXCEPT ![w] = IF kind = "docker" THEN [i EXCEPT !.box = "absent"] ELSE Start(i)]
  BY DEF RestoreFails
<1>4. inst' \in [Workers -> Instance]
  <2>1. CASE inst' = inst
    BY <2>1 DEF TypeInv
  <2>2. ASSUME NEW data \in {"broken", inst[w].data}, NEW i, i = [inst[w] EXCEPT !.data = data],
               inst' = [inst EXCEPT ![w] = IF kind = "docker" THEN [i EXCEPT !.box = "absent"] ELSE Start(i)]
        PROVE  inst' \in [Workers -> Instance]
    <3>1. [i EXCEPT !.box = "absent"] \in Instance /\ Start(i) \in Instance
      BY <1>2, <2>2
    <3> QED BY <2>2, <3>1 DEF TypeInv
  <2> QED BY <1>3, <2>1, <2>2
<1>5. worker' = [worker EXCEPT ![w].eval.plan = "rebuild"] \/ worker' = Fail(w)
  BY DEF RestoreFails
<1>6. Good(worker')
  BY <1>5, PlanType, FailType
<1> QED BY <1>4, <1>6 DEF RestoreFails, TypeInv, Good

\* The evaluation of a rebuilt instance is no clean one.
LEMMA UncleanType ==
  ASSUME NEW f, Good(f), NEW w \in Workers PROVE Good([f EXCEPT ![w].eval.clean = FALSE])
<1> DEFINE e == [f[w].eval EXCEPT !.clean = FALSE]
<1>1. e \in EvaluationRecord
  BY EvalType, RecordType
<1>2. [f EXCEPT ![w].eval.clean = FALSE] = [f EXCEPT ![w].eval = e]
  BY DEF Good
<1> HIDE DEF e
<1> QED BY <1>1, <1>2, GoodRecord

LEMMA RebuildContainerType == ASSUME TypeInv, NEW w \in Workers, RebuildContainer(w) PROVE TypeInv'
<1>1. inst[w] \in Instance
  BY DEF TypeInv
<1>2. /\ [Fresh(inst[w]) EXCEPT !.data = "baseline"] \in Instance
      /\ [Stop(inst[w]) EXCEPT !.data = "none", !.file = Default] \in Instance
  <2>1. [Fresh(inst[w]) EXCEPT !.data = "baseline"] \in Instance
    BY <1>1, OperationType, SetType DEF Data
  <2>2. Stop(inst[w]) \in Instance
    BY <1>1, StartType
  <2>3. [Stop(inst[w]) EXCEPT !.data = "none", !.file = Default] \in Instance
    BY <2>2, ConstantsType DEF Instance, Data
  <2> QED BY <2>1, <2>3
<1>3. inst' \in [Workers -> Instance]
  BY <1>2 DEF RebuildContainer, TypeInv
<1>4. worker' = [Restarted(w) EXCEPT ![w].eval.clean = FALSE] \/ worker' = Fail(w)
  BY DEF RebuildContainer
<1>5. Good(worker')
  BY <1>4, RestartedType, UncleanType, FailType
<1> QED BY <1>3, <1>5 DEF RebuildContainer, TypeInv, Good

LEMMA RebuildClusterType == ASSUME TypeInv, NEW w \in Workers, RebuildCluster(w) PROVE TypeInv'
<1>1. /\ [Fresh(NoInstance) EXCEPT !.known = TRUE, !.data = "baseline"] \in Instance
      /\ [NoInstance EXCEPT !.box = "stopped"] \in Instance
  <2>1. Fresh(NoInstance) \in Instance
    BY NoInstanceType, OperationType
  <2>2. [Fresh(NoInstance) EXCEPT !.known = TRUE, !.data = "baseline"] \in Instance
    BY <2>1 DEF Instance, Data
  <2> QED BY <2>2, NoInstanceType, SetType
<1>2. inst' \in [Workers -> Instance]
  BY <1>1 DEF RebuildCluster
<1>3. snap' \in [content: Data, manifest: BOOLEAN]
  <2>1. [snap EXCEPT !.content = "baseline"] \in [content: Data, manifest: BOOLEAN]
    BY DEF TypeInv, Data
  <2> QED BY <2>1 DEF RebuildCluster, TypeInv
<1> DEFINE f == IF w = 0 THEN Restarted(w) ELSE Fail(w)
<1>4. Good(f)
  BY RestartedType, FailType
<1>5. worker' = [v \in Workers |-> [f[v] EXCEPT !.eval.clean = FALSE]]
  BY DEF RebuildCluster
<1>6. ASSUME NEW v \in Workers
      PROVE  /\ [f[v] EXCEPT !.eval.clean = FALSE] \in Worker
             /\ [f[v] EXCEPT !.eval.clean = FALSE].force = f[v].force
             /\ [f[v] EXCEPT !.eval.clean = FALSE].booted = f[v].booted
  <2> HIDE DEF f
  <2> DEFINE e == [f[v].eval EXCEPT !.clean = FALSE]
  <2>1. e \in EvaluationRecord /\ f[v] \in Worker
    BY <1>4, EvalType, RecordType DEF Good
  <2>2. [f[v] EXCEPT !.eval.clean = FALSE] = [f[v] EXCEPT !.eval = e]
    BY <2>1 DEF Worker
  <2> HIDE DEF e
  <2> QED BY <2>1, <2>2 DEF Worker
<1>7. Good(worker')
  <2> HIDE DEF f
  <2> QED BY <1>4, <1>5, <1>6 DEF Good
<1> QED BY <1>2, <1>3, <1>7 DEF TypeInv, Good

LEMMA MeasureType == ASSUME TypeInv, NEW w \in Workers, Measure(w) PROVE TypeInv'
<1>1. inst[w] \in Instance /\ inst[w].active \in Configurations /\ inst[w].data \in Data
  BY SetType DEF TypeInv
<1>2. inst' \in [Workers -> Instance]
  <2>1. [inst[w] EXCEPT !.data = "drifted"] \in Instance
    BY <1>1, SetType DEF Data
  <2>2. inst' = [inst EXCEPT ![w] = [inst[w] EXCEPT !.data = "drifted"]]
    BY DEF Measure, TypeInv
  <2> QED BY <2>1, <2>2 DEF TypeInv
<1> DEFINE e == [worker[w].eval EXCEPT !.result = "ok", !.seen = inst[w].active, !.on = inst[w].data]
<1>3. e \in EvaluationRecord
  <2>1. worker[w].eval \in EvaluationRecord
    BY EvalType DEF TypeInv
  <2> QED BY <1>1, <2>1 DEF EvaluationRecord
<1>4. worker' = [worker EXCEPT ![w].eval = e]
  BY DEF Measure, TypeInv, Good
<1>5. Good(worker')
  <2> HIDE DEF e
  <2> QED BY <1>3, <1>4, GoodRecord DEF TypeInv
<1> QED BY <1>2, <1>5 DEF Measure, TypeInv, Good

LEMMA VerifyType ==
  ASSUME TypeInv, NEW w \in Workers, NEW ok \in BOOLEAN, Verify(w, ok) PROVE TypeInv'
<1>1. Good(worker')
  <2>1. worker' = Capture(w) \/ worker' = worker
    BY DEF Verify
  <2> QED BY <2>1, CaptureType DEF TypeInv
<1> QED BY <1>1 DEF Verify, TypeInv, Good

\* A step that leaves instances, snapshot and workers alone.
LEMMA SameType == ASSUME TypeInv, UNCHANGED <<inst, snap, worker>> PROVE TypeInv'
  BY DEF TypeInv, Good

LEMMA ForgottenType == ASSUME TypeInv, NEW w \in Workers, Forgotten(w) PROVE TypeInv'
<1>1. Good(worker')
  BY FailType DEF Forgotten
<1> QED BY <1>1 DEF Forgotten, TypeInv, Good

LEMMA DieType == ASSUME TypeInv, NEW w \in Workers, Die(w) PROVE TypeInv'
<1>1. Good(worker')
  <2>1. worker' = [worker EXCEPT ![w].eval.clean = FALSE] \/ worker' = worker
    BY DEF Die
  <2> QED BY <2>1, UncleanType DEF TypeInv
<1>2. inst' \in [Workers -> Instance]
  BY StartType, InstanceOf DEF Die, TypeInv
<1> QED BY <1>1, <1>2 DEF Die, TypeInv, Good

LEMMA EvaluationType == ASSUME TypeInv, NEW w \in Workers, Evaluation(w) PROVE TypeInv'
<1>1. CASE ConnectFails(w)
  BY <1>1, FailAndRecoverType DEF ConnectFails
<1>2. CASE \E written \in SUBSET Knobs : Apply(w, written)
  BY <1>2, ApplyType
<1>3. CASE NoActivation(w)
  BY <1>3, SameType DEF NoActivation
<1>4. CASE Restart(w)
  BY <1>4, RestartType
<1>5. CASE Restore(w)
  BY <1>5, RestoreType
<1>6. CASE RestoreFails(w)
  BY <1>6, RestoreFailsType
<1>7. CASE Forgotten(w)
  BY <1>7, ForgottenType
<1>8. CASE RebuildContainer(w)
  BY <1>8, RebuildContainerType
<1>9. CASE RebuildCluster(w)
  BY <1>9, RebuildClusterType
<1>10. CASE ReconnectFails(w)
  BY <1>10, FailAndRecoverType DEF ReconnectFails
<1>11. CASE \E ok \in BOOLEAN : Verify(w, ok)
  BY <1>11, VerifyType
<1>12. CASE Measure(w)
  BY <1>12, MeasureType
<1>13. CASE MeasureFails(w)
  BY <1>13, FailAndRecoverType DEF MeasureFails
<1>14. CASE Idle(w)
  BY <1>14, SameType DEF Idle
<1> QED
  BY <1>1, <1>2, <1>3, <1>4, <1>5, <1>6, <1>7, <1>8, <1>9, <1>10, <1>11, <1>12, <1>13, <1>14
  DEF Evaluation

-----------------------------------------------------------------------------
(* The end of a generation.                                                *)

LEMMA ResampleType ==
  ASSUME TypeInv, NEW config \in [Workers -> Configs], Resample(config) PROVE TypeInv'
<1>1. \A w \in Workers : config[w] \in Configurations
  BY ConstantsType
<1>2. Good(worker')
  BY <1>1, NewWorkerType DEF Resample, Good
<1>3. inst' \in [Workers -> Instance]
  <2>1. \A w \in Workers : Recover(inst[w]) \in Instance
    BY InstanceOf, OperationType
  <2> QED BY <2>1 DEF Resample, TypeInv
<1> QED BY <1>2, <1>3 DEF Resample, TypeInv, Good

LEMMA CopiedType ==
  ASSUME NEW i \in Instance, NEW source \in Workers, inst[source] \in Instance
  PROVE  Copied(i, source) \in Instance /\ [Copied(i, source) EXCEPT !.box = "absent"] \in Instance
<1> DEFINE f == IF kind = "docker" THEN Default ELSE i.file
<1>1. i.file \in Configurations /\ inst[source].data \in Data /\ f \in Configurations
  BY SetType, ConstantsType
<1>2. [i EXCEPT !.data = inst[source].data, !.file = f] \in Instance
  <2> HIDE DEF f
  <2> QED BY <1>1 DEF Instance
<1>3. Copied(i, source) \in Instance
  BY <1>2 DEF Copied, Instance
<1> QED BY <1>3, SetType

LEMMA ClonedType ==
  ASSUME TypeInv, NEW source \in Workers, NEW targets
  PROVE  /\ Cloned(source, targets) \in [Workers -> Instance]
         /\ ClonedInPart(source, targets) \in [Workers -> Instance]
<1>1. ASSUME NEW w \in Workers
      PROVE  /\ inst[w] \in Instance /\ Start(inst[w]) \in Instance /\ Stop(inst[w]) \in Instance
             /\ Start(Copied(inst[w], source)) \in Instance
             /\ [Copied(inst[w], source) EXCEPT !.box = "absent"] \in Instance
  BY InstanceOf, CopiedType, StartType
<1>2. Cloned(source, targets) \in [Workers -> Instance]
  BY <1>1 DEF Cloned
<1>3. ClonedInPart(source, targets) \in [Workers -> Instance]
  BY <1>1 DEF ClonedInPart
<1> QED BY <1>2, <1>3

LEMMA ExploitType ==
  ASSUME TypeInv, NEW source \in Workers, NEW targets \in SUBSET Workers, NEW config \in Configs,
         Exploit(source, targets, config)
  PROVE  TypeInv'
<1>1. ASSUME NEW w \in Workers
      PROVE  LET x == IF w \in targets THEN [worker[w] EXCEPT !.config = config] ELSE worker[w]
             IN  /\ NextEvaluation(w, x) \in Worker
                 /\ NextEvaluation(w, x).force = worker[w].force
                 /\ NextEvaluation(w, x).booted = worker[w].booted
  <2> DEFINE x == IF w \in targets THEN [worker[w] EXCEPT !.config = config] ELSE worker[w]
  <2>1. worker[w] \in Worker /\ config \in Configurations
    BY ConstantsType DEF TypeInv, Good
  <2>2. x \in Worker /\ x.force = worker[w].force /\ x.booted = worker[w].booted
    BY <2>1 DEF Worker
  <2> HIDE DEF x
  <2>3. /\ NextEvaluation(w, x) \in Worker
        /\ NextEvaluation(w, x).force = worker[w].force
        /\ NextEvaluation(w, x).booted = worker[w].booted
    BY <2>2, NewWorkerType
  <2> QED BY <2>3 DEF x
<1>2. worker' = [w \in Workers |-> NextEvaluation(w,
                    IF w \in targets THEN [worker[w] EXCEPT !.config = config] ELSE worker[w])]
  BY DEF Exploit
<1>3. Good(worker')
  BY <1>1, <1>2 DEF TypeInv, Good
<1>4. inst' = inst \/ inst' = Cloned(source, targets) \/ inst' = ClonedInPart(source, targets)
  BY DEF Exploit
<1>5. inst' \in [Workers -> Instance]
  BY <1>4, ClonedType DEF TypeInv
<1> QED BY <1>3, <1>5 DEF Exploit, TypeInv, Good

LEMMA NoExploitType == ASSUME TypeInv, NoExploit PROVE TypeInv'
<1>1. Good(worker')
  BY NewWorkerType DEF NoExploit, TypeInv, Good
<1> QED BY <1>1 DEF NoExploit, TypeInv, Good

-----------------------------------------------------------------------------
(* The session.                                                            *)

\* New workers, all with a restart to come.
LEMMA NewWorkersType ==
  /\ Good([w \in Workers |-> NewWorker(Default)])
  /\ \A f \in [Workers -> {NewWorker(c) : c \in Configs}] : Good(f)
<1>1. Good([w \in Workers |-> NewWorker(Default)])
  BY NewWorkerType, ConstantsType DEF Good
<1>2. ASSUME NEW f \in [Workers -> {NewWorker(c) : c \in Configs}] PROVE Good(f)
  <2>1. ASSUME NEW w \in Workers PROVE f[w] \in Worker /\ f[w].force
    <3>1. f[w] \in {NewWorker(c) : c \in Configs}
      OBVIOUS
    <3>2. PICK c \in Configs : f[w] = NewWorker(c)
      BY <3>1
    <3> QED BY <3>2, NewWorkerType, ConstantsType
  <2> QED BY <2>1 DEF Good
<1> QED BY <1>1, <1>2

LEMMA StartSessionType == ASSUME TypeInv, NEW o, StartSession(o) PROVE TypeInv'
<1>1. ASSUME NEW w \in Workers
      PROVE  [inst[w] EXCEPT !.known = FALSE,
                             !.data = IF @ = "drifted" THEN "old" ELSE @] \in Instance
  BY DEF TypeInv, Instance, Data
<1>2. inst' \in [Workers -> Instance]
  BY <1>1 DEF StartSession
<1> QED BY <1>2 DEF StartSession, TypeInv, Good

LEMMA RemoveBaselineType == ASSUME TypeInv, RemoveBaseline PROVE TypeInv'
<1>1. snap' \in [content: Data, manifest: BOOLEAN]
  BY DEF RemoveBaseline, TypeInv, Data
<1> QED BY <1>1 DEF RemoveBaseline, TypeInv, Good


LEMMA ProvideType == ASSUME TypeInv, Provide PROVE TypeInv'
<1> DEFINE w == Current
           i == IF Replaced(w) THEN Fresh(inst[w]) ELSE Start(inst[w])
           j == [(IF Up(inst[w]) /\ ~Replaced(w) /\ kind = "docker"
                  THEN inst[w] ELSE i) EXCEPT !.known = TRUE]
<1>1. inst' = [inst EXCEPT ![w] = j]
  BY DEF Provide
<1>2. inst' \in [Workers -> Instance]
  <2>1. CASE w \in Workers
    <3>1. inst[w] \in Instance /\ i \in Instance
      BY <2>1, InstanceOf, OperationType, StartType
    <3>2. j \in Instance
      BY <3>1, SetType
    <3> HIDE DEF j, i
    <3> QED BY <1>1, <2>1, <3>2 DEF TypeInv
  <2>2. CASE w \notin Workers
    <3> HIDE DEF j, i, w
    <3> QED BY <1>1, <2>2 DEF TypeInv
  <2> QED BY <2>1, <2>2
<1> QED BY <1>2 DEF Provide, TypeInv, Good

LEMMA InitializeType == ASSUME TypeInv, Initialize PROVE TypeInv'
<1> DEFINE w == Current
           i == Reset(inst[w])
           j == IF SchemaValid(i) THEN i
                ELSE IF snap.content # "none" THEN Start(Seeded(i))
                ELSE [i EXCEPT !.data = "baseline"]
<1>1. inst' = [inst EXCEPT ![w] = j]
  BY DEF Initialize
<1>2. inst' \in [Workers -> Instance]
  <2>1. CASE w \in Workers
    <3>1. i \in Instance
      BY <2>1, InstanceOf, OperationType
    <3>2. snap.content \in Data /\ "baseline" \in Data
      BY DEF TypeInv, Data
    <3>3. j \in Instance
      <4> HIDE DEF i
      <4> QED BY <3>1, <3>2, SetType, StartType DEF Seeded
    <3> HIDE DEF j, i
    <3> QED BY <1>1, <2>1, <3>3 DEF TypeInv
  <2>2. CASE w \notin Workers
    <3> HIDE DEF j, i, w
    <3> QED BY <1>1, <2>2 DEF TypeInv
  <2> QED BY <2>1, <2>2
<1>3. worker' = worker \/ worker' \in [Workers -> {NewWorker(c) : c \in Configs}]
  BY DEF Initialize
<1>4. Good(worker')
  BY <1>3, NewWorkersType DEF TypeInv
<1> QED BY <1>2, <1>4 DEF Initialize, TypeInv, Good

LEMMA SnapshotType == ASSUME TypeInv, SnapshotBegins \/ SnapshotEnds PROVE TypeInv'
<1>1. inst[0] \in Instance /\ inst[0].data \in Data
  BY InstanceOf, ConstantsType, SetType
<1>2. inst' \in [Workers -> Instance]
  BY <1>1, StartType DEF SnapshotBegins, SnapshotEnds, TypeInv
<1>3. snap' \in [content: Data, manifest: BOOLEAN]
  <2>1. CASE SnapshotBegins
    <3>1. snap' = [snap EXCEPT !.content = "broken"] /\ "broken" \in Data
      BY <2>1 DEF SnapshotBegins, Data
    <3> QED BY <3>1 DEF TypeInv
  <2>2. CASE SnapshotEnds
    BY <1>1, <2>2 DEF SnapshotEnds
  <2> QED BY <2>1, <2>2
<1>4. worker' = worker \/ worker' \in [Workers -> {NewWorker(c) : c \in Configs}]
  BY DEF SnapshotBegins, SnapshotEnds
<1>5. Good(worker')
  BY <1>4, NewWorkersType DEF TypeInv
<1> QED BY <1>2, <1>3, <1>5 DEF TypeInv

LEMMA TeardownType ==
  ASSUME TypeInv, (\E remove \in BOOLEAN : Teardown(remove)) \/ Crash PROVE TypeInv'
<1>1. Good(worker')
  BY NewWorkersType DEF Teardown, Crash
<1>2. inst' \in [Workers -> Instance]
  <2>1. CASE Crash
    BY <2>1 DEF Crash, TypeInv
  <2>2. ASSUME NEW remove \in BOOLEAN, Teardown(remove) PROVE inst' \in [Workers -> Instance]
    <3>1. \A w \in Workers : inst[w] \in Instance /\ StoppedAll(inst[w]) \in Instance
                             /\ CleanedUp(inst[w]) \in Instance
      BY InstanceOf, OperationType, NoInstanceType DEF CleanedUp
    <3> QED BY <2>2, <3>1 DEF Teardown
  <2> QED BY <2>1, <2>2
<1>3. snap' = snap
  BY DEF Teardown, Crash
<1> QED BY <1>1, <1>2, <1>3 DEF TypeInv

LEMMA NextType == ASSUME TypeInv, [Next]_vars PROVE TypeInv'
<1>1. ASSUME NEW w \in Workers, Evaluation(w) PROVE TypeInv'
  BY <1>1, EvaluationType
<1>2. CASE Evolve
  BY <1>2, ResampleType, ExploitType, NoExploitType DEF Evolve
<1>3. ASSUME NEW o, StartSession(o) PROVE TypeInv'
  BY <1>3, StartSessionType
<1>4. CASE Setup
  BY <1>4, ProvideType, InitializeType, RemoveBaselineType, SnapshotType DEF Setup
<1>5. CASE EndSession
  BY <1>5, SameType DEF EndSession
<1>6. CASE (\E remove \in BOOLEAN : Teardown(remove)) \/ Crash
  BY <1>6, TeardownType
<1>7. ASSUME NEW w \in Workers, Die(w) PROVE TypeInv'
  BY <1>7, DieType
<1>8. CASE UNCHANGED vars
  BY <1>8, SameType DEF vars
<1> QED BY <1>1, <1>2, <1>3, <1>4, <1>5, <1>6, <1>7, <1>8 DEF Next

LEMMA InitType == ASSUME Init PROVE TypeInv
<1>1. Good(worker)
  BY NewWorkersType DEF Init
<1>2. inst \in [Workers -> Instance]
  BY NoInstanceType DEF Init
<1> QED BY <1>1, <1>2 DEF Init, TypeInv, Data

\* A forced restart that is no longer asked for has taken place: no failed, rebuilt,
\* cloned or torn-down worker loses it.  (orchestrator.evaluate_worker)
THEOREM ForceHonoured == Spec => []ForceIsHonoured
<1>1. Init => TypeInv
  BY InitType
<1>2. TypeInv /\ [Next]_vars => TypeInv'
  BY NextType
<1>3. TypeInv => ForceIsHonoured
  BY DEF TypeInv, Good, ForceIsHonoured
<1> QED BY <1>1, <1>2, <1>3, PTL DEF Spec

-----------------------------------------------------------------------------
(* The baseline of a Docker session.                                       *)

\* Worker 0 is replaced before a baseline is taken of it, and prepared by then.
BaselineInv ==
    kind = "docker" =>
        /\ snap.content \in {"none", "broken", "baseline"}
        /\ stage \in {"snapshot", "copy"} => inst[0].data = "baseline"
        /\ stage = "initialize" /\ Current = 0 /\ ~SnapshotExists => inst[0].data = "empty"

Quiet == /\ kind' = kind /\ (kind = "docker" => snap' = snap)
         /\ stage' \notin {"snapshot", "copy", "initialize"}

LEMMA QuietBaseline == ASSUME BaselineInv, Quiet PROVE BaselineInv'
  BY DEF BaselineInv, Quiet

LEMMA EvaluationQuiet == ASSUME NEW w \in Workers, Evaluation(w) PROVE Quiet
<1> USE DEF Quiet, fixed, Done, Abort
<1>1. CASE ConnectFails(w)
  BY <1>1 DEF ConnectFails, FailAndRecover
<1>2. ASSUME NEW written \in SUBSET Knobs, Apply(w, written) PROVE Quiet
  BY <1>2 DEF Apply
<1>3. CASE NoActivation(w)
  BY <1>3 DEF NoActivation
<1>4. CASE Restart(w)
  BY <1>4 DEF Restart
<1>5. CASE Restore(w)
  BY <1>5 DEF Restore
<1>6. CASE RestoreFails(w)
  BY <1>6 DEF RestoreFails
<1>7. CASE Forgotten(w)
  BY <1>7 DEF Forgotten
<1>8. CASE RebuildContainer(w)
  BY <1>8 DEF RebuildContainer
<1>9. CASE RebuildCluster(w)
  BY <1>9 DEF RebuildCluster
<1>10. CASE ReconnectFails(w)
  BY <1>10 DEF ReconnectFails, FailAndRecover
<1>11. ASSUME NEW ok \in BOOLEAN, Verify(w, ok) PROVE Quiet
  BY <1>11 DEF Verify
<1>12. CASE Measure(w)
  BY <1>12 DEF Measure
<1>13. CASE MeasureFails(w)
  BY <1>13 DEF MeasureFails, FailAndRecover
<1>14. CASE Idle(w)
  BY <1>14 DEF Idle
<1> QED
  BY <1>1, <1>2, <1>3, <1>4, <1>5, <1>6, <1>7, <1>8, <1>9, <1>10, <1>11, <1>12, <1>13, <1>14
  DEF Evaluation

LEMMA EvolveQuiet == ASSUME Evolve PROVE Quiet
<1> USE DEF Quiet, fixed, Abort, NextGeneration
<1>1. ASSUME NEW config, Resample(config) PROVE Quiet
  BY <1>1 DEF Resample
<1>2. ASSUME NEW source, NEW targets, NEW config, Exploit(source, targets, config) PROVE Quiet
  BY <1>2 DEF Exploit
<1>3. CASE NoExploit
  BY <1>3 DEF NoExploit
<1> QED BY <1>1, <1>2, <1>3 DEF Evolve

LEMMA ProvideBaseline == ASSUME TypeInv, BaselineInv, Provide PROVE BaselineInv'
<1>1. kind' = kind /\ snap' = snap /\ stage' \in {"initialize", "teardown"}
  BY DEF Provide, fixed, Abort
<1>2. ASSUME kind = "docker", stage' = "initialize", Current' = 0, ~SnapshotExists'
      PROVE  inst'[0].data = "empty"
  <2>1. todo' = todo /\ ~SnapshotExists
    BY <1>1, <1>2 DEF Provide, Abort, SnapshotExists
  <2>2. Current = 0
    BY <1>2, <2>1 DEF Current
  <2>3. Replaced(0)
    BY <1>2, <2>1 DEF Replaced
  <2>4. inst' = [inst EXCEPT ![0] = [Fresh(inst[0]) EXCEPT !.known = TRUE]]
    BY <2>2, <2>3 DEF Provide
  <2>5. Fresh(inst[0]) \in Instance /\ Fresh(inst[0]).data = "empty"
    BY InstanceOf, ConstantsType, OperationType
  <2>6. [Fresh(inst[0]) EXCEPT !.known = TRUE].data = "empty"
    BY <2>5, SetType
  <2> QED BY <2>4, <2>6, ConstantsType DEF TypeInv
<1> QED BY <1>1, <1>2 DEF BaselineInv

LEMMA InitializeBaseline == ASSUME TypeInv, BaselineInv, Initialize PROVE BaselineInv'
<1>1. kind' = kind /\ snap' = snap /\ stage' \in {"snapshot", "teardown", "apply", "provide"}
  BY DEF Initialize, fixed, Abort
<1>2. ASSUME kind = "docker", stage' = "snapshot" PROVE inst'[0].data = "baseline"
  <2> DEFINE i == Reset(inst[0])
             j == IF SchemaValid(i) THEN i
                  ELSE IF snap.content # "none" THEN Start(Seeded(i))
                  ELSE [i EXCEPT !.data = "baseline"]
  <2>1. Current = 0 /\ ~SnapshotExists /\ stage = "initialize"
    BY <1>2 DEF Initialize, Abort
  <2>2. inst' = [inst EXCEPT ![0] = j] /\ Up(j)
    BY <1>2, <2>1 DEF Initialize, Abort
  <2>3. i \in Instance /\ i.data = "empty"
    BY <1>2, <2>1, InstanceOf, ConstantsType, OperationType DEF BaselineInv
  <2>4. snap.content \in {"none", "broken", "baseline"} /\ snap.content \in Data
    BY <1>2 DEF BaselineInv, TypeInv
  <2>5. j.data = "baseline"
    <3> HIDE DEF i
    <3>1. ~SchemaValid(i)
      BY <2>3 DEF SchemaValid
    <3>2. CASE snap.content # "none"
      <4>1. Seeded(i) \in Instance /\ Seeded(i).data = snap.content
        BY <2>3, <2>4, SetType DEF Seeded
      <4>2. Start(Seeded(i)).data = snap.content /\ Up(Start(Seeded(i)))
        BY <2>2, <3>1, <3>2, <4>1, StartType
      <4>3. snap.content # "broken"
        BY <4>1, <4>2, StartType
      <4> QED BY <2>4, <3>1, <3>2, <4>2, <4>3
    <3>3. CASE snap.content = "none"
      BY <2>3, <3>1, <3>3, SetType DEF Data
    <3> QED BY <3>2, <3>3
  <2> HIDE DEF j
  <2> QED BY <2>2, <2>5, ConstantsType DEF TypeInv
<1> QED BY <1>1, <1>2 DEF BaselineInv

LEMMA SnapshotBaseline ==
  ASSUME TypeInv, BaselineInv, SnapshotBegins \/ SnapshotEnds PROVE BaselineInv'
<1>1. inst[0] \in Instance
  BY InstanceOf, ConstantsType
<1>2. CASE SnapshotBegins
  <2>1. /\ kind' = kind /\ stage = "snapshot" /\ stage' = "copy"
        /\ snap' = [snap EXCEPT !.content = "broken"]
        /\ inst' = [inst EXCEPT ![0] = Stop(inst[0])]
    BY <1>2 DEF SnapshotBegins, fixed, TypeInv
  <2>2. inst'[0].data = inst[0].data
    BY <1>1, <2>1, StartType, ConstantsType DEF TypeInv
  <2>3. snap'.content = "broken"
    BY <2>1 DEF TypeInv
  <2> QED BY <2>1, <2>2, <2>3 DEF BaselineInv
<1>3. CASE SnapshotEnds
  <2>1. /\ kind' = kind /\ stage = "copy" /\ stage' \in {"apply", "provide"}
        /\ snap'.content = inst[0].data
    BY <1>3 DEF SnapshotEnds, fixed
  <2> QED BY <2>1 DEF BaselineInv
<1> QED BY <1>2, <1>3

LEMMA RemoveBaselineBaseline ==
  ASSUME TypeInv, BaselineInv, RemoveBaseline PROVE BaselineInv'
<1>1. kind' = kind /\ stage' \in {"clear", "provide"}
  BY DEF RemoveBaseline, fixed
<1>2. snap'.content \in {"none", snap.content}
  BY DEF RemoveBaseline, TypeInv
<1> QED BY <1>1, <1>2 DEF BaselineInv

LEMMA NextBaseline == ASSUME TypeInv, BaselineInv, [Next]_vars PROVE BaselineInv'
<1>1. ASSUME NEW w \in Workers, Evaluation(w) PROVE BaselineInv'
  BY <1>1, EvaluationQuiet, QuietBaseline
<1>2. CASE Evolve
  BY <1>2, EvolveQuiet, QuietBaseline
<1>3. ASSUME NEW o, StartSession(o) PROVE BaselineInv'
  <2>1. Quiet
    BY <1>3 DEF StartSession, Quiet
  <2> QED BY <2>1, QuietBaseline
<1>4. CASE Setup
  BY <1>4, ProvideBaseline, InitializeBaseline, RemoveBaselineBaseline, SnapshotBaseline DEF Setup
<1>5. CASE EndSession
  <2>1. Quiet
    BY <1>5 DEF EndSession, Abort, Quiet, fixed
  <2> QED BY <2>1, QuietBaseline
<1>6. ASSUME NEW remove \in BOOLEAN, Teardown(remove) PROVE BaselineInv'
  <2>1. Quiet
    BY <1>6 DEF Teardown, Quiet, fixed
  <2> QED BY <2>1, QuietBaseline
<1>7. CASE Crash
  <2>1. Quiet
    BY <1>7 DEF Crash, Quiet, fixed
  <2> QED BY <2>1, QuietBaseline
<1>8. ASSUME NEW w \in Workers, Die(w) PROVE BaselineInv'
  <2>1. Quiet
    BY <1>8 DEF Die, Quiet, fixed, Evaluating
  <2> QED BY <2>1, QuietBaseline
<1>9. CASE UNCHANGED vars
  BY <1>9 DEF vars, BaselineInv, Current, SnapshotExists
<1> QED BY <1>1, <1>2, <1>3, <1>4, <1>5, <1>6, <1>7, <1>8, <1>9 DEF Next

\* With Docker, what an evaluation is restored to is data no evaluation has touched,
\* whatever crashed in between, and however the session before it ended.
\* (recreate_worker0_for_baseline; create_snapshot)
THEOREM BaselineStaysPristine == Spec => []BaselineIsPristine
<1>1. Init => TypeInv /\ BaselineInv
  <2>1. Init => BaselineInv
    BY DEF Init, BaselineInv
  <2> QED BY <2>1, InitType
<1>2. TypeInv /\ BaselineInv /\ [Next]_vars => TypeInv' /\ BaselineInv'
  BY NextType, NextBaseline
<1>3. BaselineInv => BaselineIsPristine
  BY DEF BaselineInv, BaselineIsPristine
<1> QED BY <1>1, <1>2, <1>3, PTL DEF Spec

-----------------------------------------------------------------------------
(* What a measurement is credited to.  The workers of a generation are in  *)
(* one stage of their evaluation: Planned are those who have applied and   *)
(* not yet activated, Activated those whose server is to be measured.      *)

Planned(w) == (stage = "apply" /\ w \notin todo) \/ (stage = "activate" /\ w \in todo)
Activated(w) == (stage = "activate" /\ w \notin todo) \/ stage \in {"verify", "measure"}
Verifying == {"verify", "measure", "evolve", "teardown"}

\* From the time it is read back, the configuration is what the server runs with.
CreditInv(w) ==
    LET e == worker[w].eval IN
    e.verified => /\ stage \in Verifying
                  /\ e.result = "none" => worker[w].config = inst[w].active
                  /\ e.result = "ok" => worker[w].config = e.seen

\* Offline, the request is in auto.conf until the server takes it from there.
RequestInv(w) ==
    LET e == worker[w].eval IN
    tuning = "offline" /\ e.clean =>
      /\ e.result = "ok" => e.seen = e.want
      /\ e.result = "none" /\ Planned(w) =>
            /\ e.plan # "none"
            /\ e.plan \in {"restart", "restore"} => inst[w].file = e.want
            /\ e.plan = "reload" => inst[w].active = e.want
      /\ e.result = "none" /\ Activated(w) => inst[w].active = e.want

\* A restore that is due is the plan, until the data is there.
RestoreInv(w) ==
    LET e == worker[w].eval IN
    RestoreDue =>
      /\ e.result = "ok" => e.on # "drifted"
      /\ e.result = "none" /\ Planned(w) => e.plan \in {"restore", "rebuild"}
      /\ e.result = "none" /\ Activated(w) => inst[w].data # "drifted"

\* What is restored from has not been measured on: a session sets up before it measures.
DriftInv == /\ snap.content # "drifted"
            /\ stage \in Setting => \A w \in Workers : inst[w].data # "drifted"

MeasuredOf(w) == CreditInv(w) /\ RequestInv(w) /\ RestoreInv(w)
MeasuredInv == DriftInv /\ \A w \in Workers : MeasuredOf(w)

Same == tuning' = tuning /\ gen' = gen /\ opts' = opts

\* A worker is no further than it was, or its generation is over.
Behind(w) == /\ Planned(w)' => Planned(w)
             /\ Activated(w)' => Activated(w)
             /\ worker[w].eval.verified => stage' \in Verifying

LEMMA SameDue == ASSUME Same PROVE RestoreDue' = RestoreDue
  BY DEF Same, RestoreDue

LEMMA KeptMeasured ==
  ASSUME NEW w, MeasuredOf(w), Same, Behind(w), worker'[w] = worker[w], inst'[w] = inst[w]
  PROVE  MeasuredOf(w)'
<1>1. CreditInv(w)'
  BY DEF MeasuredOf, CreditInv, Behind
<1>2. RequestInv(w)'
  BY DEF MeasuredOf, RequestInv, Behind, Same
<1>3. RestoreInv(w)'
  BY SameDue DEF MeasuredOf, RestoreInv, Behind
<1> QED BY <1>1, <1>2, <1>3 DEF MeasuredOf

LEMMA FailedMeasured ==
  ASSUME NEW w, MeasuredOf(w), worker'[w].eval.result = "failed",
         worker'[w].eval.verified => stage' \in Verifying
  PROVE  MeasuredOf(w)'
  BY DEF MeasuredOf, CreditInv, RequestInv, RestoreInv

LEMMA ClearedMeasured ==
  ASSUME NEW w, worker'[w].eval = NoEvaluation, ~Planned(w)', ~Activated(w)'
  PROVE  MeasuredOf(w)'
<1>1. /\ worker'[w].eval.result = "none" /\ ~worker'[w].eval.verified
  BY DEF NoEvaluation
<1> QED BY <1>1 DEF MeasuredOf, CreditInv, RequestInv, RestoreInv

\* Outside of an evaluation, nothing is said of the instance.
LEMMA RestingMeasured ==
  ASSUME NEW w, MeasuredOf(w), Same, worker'[w] = worker[w], ~worker[w].eval.verified,
         ~Planned(w)', ~Activated(w)'
  PROVE  MeasuredOf(w)'
<1>1. CreditInv(w)'
  BY DEF CreditInv
<1>2. RequestInv(w)'
  BY DEF MeasuredOf, RequestInv, Same
<1>3. RestoreInv(w)'
  BY SameDue DEF MeasuredOf, RestoreInv
<1> QED BY <1>1, <1>2, <1>3 DEF MeasuredOf

\* A step of one worker.
Alone(w) == \A v \in Workers \ {w} : worker'[v] = worker[v] /\ inst'[v] = inst[v] /\ Behind(v)
OwnStep(w) == Same /\ Alone(w) /\ stage' \notin Setting /\ snap' = snap

LEMMA OwnMeasured ==
  ASSUME MeasuredInv, NEW w \in Workers, OwnStep(w), MeasuredOf(w)'
  PROVE  MeasuredInv'
<1>1. ASSUME NEW v \in Workers PROVE MeasuredOf(v)'
  <2>1. CASE v = w
    BY <2>1
  <2>2. CASE v # w
    BY <2>2, KeptMeasured DEF OwnStep, Alone, MeasuredInv
  <2> QED BY <2>1, <2>2
<1>2. DriftInv'
  BY DEF MeasuredInv, OwnStep, DriftInv
<1> QED BY <1>1, <1>2 DEF MeasuredInv

\* One worker is through with a stage, and how the others stand then.
Through(w) ==
    \/ stage = "apply" /\ Done(w, "activate")
    \/ stage = "activate" /\ Done(w, "verify")
    \/ stage = "verify" /\ Done(w, "measure")
    \/ stage = "measure" /\ Done(w, "evolve")

LEMMA ThroughBehind ==
  ASSUME MeasuredInv, NEW w \in Workers, Through(w)
  PROVE  /\ \A v \in Workers \ {w} : Behind(v)
         /\ stage' \notin Setting
         /\ stage \in Verifying => stage' \in Verifying
         /\ stage = "apply" => Planned(w)' /\ ~Activated(w)'
         /\ stage # "apply" => ~Planned(w)'
         /\ stage # "activate" /\ ~(stage \in Verifying) => ~Activated(w)'
<1> USE DEF Through, Done, Planned, Activated, Verifying, Setting
<1>1. ASSUME NEW v \in Workers \ {w} PROVE Behind(v)
  <2>1. worker[v].eval.verified => stage \in Verifying
    BY DEF MeasuredInv, MeasuredOf, CreditInv
  <2>2. (Planned(v)' => Planned(v)) /\ (Activated(v)' => Activated(v))
    OBVIOUS
  <2> QED BY <2>1, <2>2 DEF Behind
<1>2. /\ stage' \notin Setting
      /\ stage \in Verifying => stage' \in Verifying
  OBVIOUS
<1>3. /\ stage = "apply" => Planned(w)' /\ ~Activated(w)'
      /\ stage # "apply" => ~Planned(w)'
  OBVIOUS
<1> QED BY <1>1, <1>2, <1>3

LEMMA AbortBehind ==
  ASSUME Abort
  PROVE  \A v : Behind(v) /\ ~Planned(v)' /\ ~Activated(v)' /\ stage' = "teardown"
  BY DEF Abort, Behind, Planned, Activated, Verifying

\* Nothing else is said of the others.
LEMMA OthersAlone ==
  ASSUME TypeInv, NEW w \in Workers, NEW i, NEW x,
         inst' = [inst EXCEPT ![w] = i], worker' = [worker EXCEPT ![w] = x]
  PROVE  /\ \A v \in Workers \ {w} : worker'[v] = worker[v] /\ inst'[v] = inst[v]
         /\ inst'[w] = i /\ worker'[w] = x
  BY DEF TypeInv, Good

-----------------------------------------------------------------------------
(* The fields of an evaluation's results.                                  *)

LEMMA FailFields ==
  ASSUME TypeInv, NEW w \in Workers
  PROVE  /\ \A v \in Workers \ {w} : Fail(w)[v] = worker[v]
         /\ Fail(w)[w].eval.result = "failed"
         /\ Fail(w)[w].eval.verified = worker[w].eval.verified
         /\ Fail(w)[w].eval.plan = worker[w].eval.plan
<1>1. worker[w].eval \in EvaluationRecord /\ worker[w] \in Worker
  BY EvalType DEF TypeInv, Good
<1> DEFINE e == [worker[w].eval EXCEPT !.result = "failed"]
           x == [worker[w] EXCEPT !.eval = e]
<1>2. Fail(w) = [worker EXCEPT ![w] = x]
  BY DEF Fail, TypeInv, Good
<1>3. e.result = "failed" /\ e.verified = worker[w].eval.verified /\ e.plan = worker[w].eval.plan
  BY <1>1 DEF EvaluationRecord
<1>4. x.eval = e
  <2> HIDE DEF e
  <2> QED BY <1>1 DEF Worker
<1> HIDE DEF x, e
<1> QED BY <1>2, <1>3, <1>4 DEF TypeInv, Good

LEMMA RestartedFields ==
  ASSUME TypeInv, NEW w \in Workers
  PROVE  /\ \A v \in Workers \ {w} : Restarted(w)[v] = worker[v]
         /\ LET e == Restarted(w)[w].eval
                d == worker[w].eval
            IN /\ e.result = d.result /\ e.verified = d.verified /\ e.plan = d.plan
               /\ e.want = d.want /\ e.seen = d.seen /\ e.on = d.on /\ e.clean = d.clean
<1>1. worker[w].eval \in EvaluationRecord /\ worker[w] \in Worker
  BY EvalType DEF TypeInv, Good
<1> DEFINE e == [worker[w].eval EXCEPT !.restarted = TRUE]
           b == IF worker[w].eval.forced THEN FALSE ELSE worker[w].force
           x == [worker[w] EXCEPT !.eval = e, !.booted = TRUE, !.force = b]
           d == worker[w].eval
<1>2. Restarted(w) = [worker EXCEPT ![w] = x]
  BY DEF Restarted, TypeInv, Good
<1>3. /\ e.result = d.result /\ e.verified = d.verified /\ e.plan = d.plan
      /\ e.want = d.want /\ e.seen = d.seen /\ e.on = d.on /\ e.clean = d.clean
  BY <1>1 DEF EvaluationRecord
<1>4. x.eval = e
  <2> HIDE DEF e, b
  <2> QED BY <1>1 DEF Worker
<1> HIDE DEF x, e
<1> QED BY <1>2, <1>3, <1>4 DEF TypeInv, Good

LEMMA NotRestartedFields ==
  ASSUME TypeInv, NEW w \in Workers
  PROVE  /\ \A v \in Workers \ {w} : NotRestarted(w)[v] = worker[v]
         /\ LET e == NotRestarted(w)[w].eval
                d == worker[w].eval
            IN /\ e.result = d.result /\ e.verified = d.verified /\ e.plan = d.plan
               /\ e.on = d.on /\ e.seen = d.seen /\ ~e.clean
         /\ NotRestarted(w)[w].config = worker[w].config
<1>1. worker[w].eval \in EvaluationRecord /\ worker[w] \in Worker
  BY EvalType DEF TypeInv, Good
<1> DEFINE e == [worker[w].eval EXCEPT !.clean = FALSE]
           x == [worker[w] EXCEPT !.eval = e]
           d == worker[w].eval
<1>2. NotRestarted(w) = [worker EXCEPT ![w] = x]
  BY DEF NotRestarted, TypeInv, Good
<1>3. /\ e.result = d.result /\ e.verified = d.verified /\ e.plan = d.plan
      /\ e.on = d.on /\ e.seen = d.seen /\ ~e.clean
  BY <1>1 DEF EvaluationRecord
<1>4. x.eval = e /\ x.config = worker[w].config
  <2> HIDE DEF e
  <2> QED BY <1>1 DEF Worker
<1> HIDE DEF x, e
<1> QED BY <1>2, <1>3, <1>4 DEF TypeInv, Good

\* A server that came up runs with what its file says, on the data it had.
LEMMA StartFields ==
  ASSUME NEW i \in Instance
  PROVE  /\ Up(Start(i)) => Start(i).active = i.file
         /\ Start(i).file = i.file /\ Start(i).data = i.data
         /\ Stop(i).file = i.file /\ Stop(i).active = i.active /\ Stop(i).data = i.data
<1>1. Up(Start(i)) => Start(i).active = i.file
  BY DEF Start, Up, Instance
<1>2. Start(i).file = i.file /\ Start(i).data = i.data
  BY DEF Start, Instance
<1>3. Stop(i).file = i.file /\ Stop(i).active = i.active /\ Stop(i).data = i.data
  BY DEF Stop, Instance
<1> QED BY <1>1, <1>2, <1>3

-----------------------------------------------------------------------------
(* The steps of an evaluation, and what they do to its credit.             *)

LEMMA VerifiedStage ==
  ASSUME MeasuredInv, NEW w \in Workers, worker[w].eval.verified PROVE stage \in Verifying
  BY DEF MeasuredInv, MeasuredOf, CreditInv

\* An evaluation that is lost is credited with nothing.
LEMMA LostMeasured ==
  ASSUME TypeInv, MeasuredInv, NEW w \in Workers, worker' = Fail(w),
         \A v \in Workers \ {w} : inst'[v] = inst[v], Same, snap' = snap,
         Through(w) \/ Abort
  PROVE  MeasuredInv'
<1>1. /\ \A v \in Workers \ {w} : worker'[v] = worker[v]
      /\ worker'[w].eval.result = "failed" /\ worker'[w].eval.verified = worker[w].eval.verified
  BY FailFields
<1>2. /\ \A v \in Workers \ {w} : Behind(v)
      /\ stage' \notin Setting /\ (stage \in Verifying => stage' \in Verifying)
  BY ThroughBehind, AbortBehind DEF Setting, Verifying
<1>3. MeasuredOf(w)'
  <2>1. worker'[w].eval.verified => stage' \in Verifying
    BY <1>1, <1>2, VerifiedStage
  <2>2. MeasuredOf(w)
    BY DEF MeasuredInv
  <2> QED BY <1>1, <2>1, <2>2, FailedMeasured
<1>4. OwnStep(w)
  BY <1>1, <1>2 DEF OwnStep, Alone
<1> QED BY <1>3, <1>4, OwnMeasured

LEMMA FailAndRecoverMeasured ==
  ASSUME TypeInv, MeasuredInv, NEW w \in Workers, NEW next, FailAndRecover(w, next), Same, snap' = snap,
         \/ stage = "apply" /\ next = "activate"
         \/ stage = "verify" /\ next = "measure"
         \/ stage = "measure" /\ next = "evolve"
  PROVE  MeasuredInv'
<1>1. \A v \in Workers \ {w} : inst'[v] = inst[v]
  BY DEF FailAndRecover, TypeInv
<1>2. worker' = Fail(w) /\ (Through(w) \/ Abort)
  BY DEF FailAndRecover, Through
<1> QED BY <1>1, <1>2, LostMeasured

LEMMA ApplyMeasured ==
  ASSUME TypeInv, MeasuredInv, NEW w \in Workers, NEW written \in SUBSET Knobs, Apply(w, written)
  PROVE  MeasuredInv'
<1> DEFINE c == worker[w].config
           plan == Plan(RestartRequired(inst[w], c, written), written, worker[w].force)
           f == WrittenFile(inst[w], c, written)
           i == [inst[w] EXCEPT !.file = f]
           j == IF plan = "reload" THEN Reloaded(i) ELSE i
           e == [NoEvaluation EXCEPT !.plan = plan, !.want = c, !.clean = (written = Knobs),
                                     !.forced = worker[w].force]
           x == [worker[w] EXCEPT !.eval = e]
<1>1. inst[w] \in Instance /\ c \in Configurations /\ worker[w] \in Worker
  BY DEF TypeInv, Good, Worker
<1>2. inst' = [inst EXCEPT ![w] = j] /\ worker' = [worker EXCEPT ![w].eval = e]
  BY DEF Apply
<1>3. worker' = [worker EXCEPT ![w] = x]
  BY <1>2 DEF TypeInv, Good
<1>4. /\ \A v \in Workers \ {w} : worker'[v] = worker[v] /\ inst'[v] = inst[v]
      /\ inst'[w] = j /\ worker'[w] = x
  <2> HIDE DEF j, x
  <2>1. inst' = [inst EXCEPT ![w] = j]
    BY <1>2
  <2> QED BY <2>1, <1>3 DEF TypeInv, Good
<1>5. worker'[w].eval = e
  <2> HIDE DEF e
  <2> QED BY <1>1, <1>4 DEF Worker
<1>6. /\ e.plan = plan /\ e.want = c /\ e.clean = (written = Knobs)
      /\ e.result = "none" /\ ~e.verified
  BY DEF NoEvaluation
<1>7. i.file = f /\ i.active = inst[w].active
  BY <1>1 DEF Instance
<1>8. Same /\ stage = "apply" /\ Through(w) /\ snap' = snap
  BY DEF Apply, Same, fixed, Through
<1>9. /\ OwnStep(w) /\ Planned(w)' /\ ~Activated(w)'
  <2>1. (\A v \in Workers \ {w} : Behind(v)) /\ stage' \notin Setting
    BY <1>8, ThroughBehind
  <2>2. Planned(w)' /\ ~Activated(w)'
    BY <1>8, ThroughBehind
  <2> QED BY <1>4, <1>8, <2>1, <2>2 DEF OwnStep, Alone
<1>10. ASSUME written = Knobs PROVE f = c
  BY <1>10, <1>1 DEF WrittenFile, Knobs, Configurations
<1>11. ASSUME tuning = "offline", written = Knobs
       PROVE  /\ plan # "none"
              /\ plan \in {"restart", "restore"} => j.file = c
              /\ plan = "reload" => j.active = c
  <2>1. plan # "none"
    BY <1>11 DEF Plan, ShouldRestart, Knobs
  <2>2. plan \in {"restart", "restore"} => j.file = c
    BY <1>7, <1>10, <1>11
  <2>3. ASSUME plan = "reload" PROVE j.active = c
    <3>1. ~RestartRequired(inst[w], c, written)
      BY <2>3 DEF Plan
    <3>2. c.pm = inst[w].active.pm
      BY <3>1, <1>11 DEF RestartRequired, Knobs
    <3>3. j = [i EXCEPT !.active.dyn = f.dyn]
      BY <2>3, <1>7 DEF Reloaded
    <3>4. i \in Instance
      <4>1. f \in Configurations
        BY <1>1, <1>10, <1>11
      <4> HIDE DEF f
      <4> QED BY <1>1, <4>1, SetType
    <3>5. j.active = [i.active EXCEPT !.dyn = f.dyn]
      <4> HIDE DEF i, f
      <4> QED BY <3>3, <3>4 DEF Instance
    <3>6. inst[w].active \in Configurations
      BY <1>1, SetType
    <3>7. j.active = [inst[w].active EXCEPT !.dyn = c.dyn]
      BY <3>5, <1>7, <1>10, <1>11
    <3> HIDE DEF j, c
    <3> QED BY <3>2, <3>6, <3>7, <1>1 DEF Configurations
  <2> QED BY <2>1, <2>2, <2>3
<1>12. RestoreDue => plan = "restore"
  BY DEF Plan
<1> HIDE DEF e, j, plan, c
<1>13. CreditInv(w)'
  BY <1>5, <1>6 DEF CreditInv
<1>14. RequestInv(w)'
  BY <1>4, <1>5, <1>6, <1>8, <1>9, <1>11 DEF RequestInv, Same
<1>15. RestoreInv(w)'
  BY <1>5, <1>6, <1>8, <1>9, <1>12, SameDue DEF RestoreInv
<1> QED BY <1>9, <1>13, <1>14, <1>15, OwnMeasured DEF MeasuredOf

\* A worker that moves on, with its own new evaluation and instance.
LEMMA ThroughMeasured ==
  ASSUME TypeInv, MeasuredInv, NEW w \in Workers, Through(w), Same, snap' = snap,
         \A v \in Workers \ {w} : worker'[v] = worker[v] /\ inst'[v] = inst[v],
         MeasuredOf(w)'
  PROVE  MeasuredInv'
<1>1. (\A v \in Workers \ {w} : Behind(v)) /\ stage' \notin Setting
  BY ThroughBehind
<1> QED BY <1>1, OwnMeasured DEF OwnStep, Alone

\* What is left to show once a worker has activated its configuration.
LEMMA ActivatedMeasured ==
  ASSUME MeasuredInv, NEW w \in Workers, stage = "activate", Through(w), Same,
         worker[w].eval.result = "none", worker'[w].eval.result = "none",
         worker'[w].eval.verified = worker[w].eval.verified,
         tuning = "offline" /\ worker'[w].eval.clean => inst'[w].active = worker'[w].eval.want,
         RestoreDue => inst'[w].data # "drifted"
  PROVE  MeasuredOf(w)'
<1>1. ~worker[w].eval.verified
  BY VerifiedStage DEF Verifying
<1>2. ~Planned(w)'
  BY ThroughBehind
<1>3. CreditInv(w)'
  BY <1>1 DEF CreditInv
<1>4. RequestInv(w)'
  BY <1>2 DEF RequestInv, Same
<1>5. RestoreInv(w)'
  BY <1>2, SameDue DEF RestoreInv
<1> QED BY <1>3, <1>4, <1>5 DEF MeasuredOf

LEMMA NoActivationMeasured ==
  ASSUME TypeInv, MeasuredInv, NEW w \in Workers, NoActivation(w) PROVE MeasuredInv'
<1>1. /\ stage = "activate" /\ Through(w) /\ Same /\ snap' = snap /\ w \in todo
      /\ worker' = worker /\ inst' = inst /\ worker[w].eval.result = "none"
      /\ worker[w].eval.plan \in {"none", "reload"}
  BY DEF NoActivation, Proceeding, Through, Same, fixed
<1>2. MeasuredOf(w) /\ Planned(w)
  BY <1>1 DEF MeasuredInv, Planned
<1>3. tuning = "offline" /\ worker[w].eval.clean => inst[w].active = worker[w].eval.want
  BY <1>1, <1>2 DEF MeasuredOf, RequestInv
<1>4. ~RestoreDue
  BY <1>1, <1>2 DEF MeasuredOf, RestoreInv
<1>5. MeasuredOf(w)'
  BY <1>1, <1>3, <1>4, ActivatedMeasured
<1> QED BY <1>1, <1>5, ThroughMeasured

LEMMA RestartMeasured ==
  ASSUME TypeInv, MeasuredInv, NEW w \in Workers, Restart(w) PROVE MeasuredInv'
<1>1. /\ stage = "activate" /\ Through(w) /\ Same /\ snap' = snap /\ w \in todo
      /\ worker[w].eval.result = "none" /\ worker[w].eval.plan = "restart"
  BY DEF Restart, Proceeding, Through, Same, fixed
<1>2. MeasuredOf(w) /\ Planned(w)
  BY <1>1 DEF MeasuredInv, Planned
<1>3. ~RestoreDue
  BY <1>1, <1>2 DEF MeasuredOf, RestoreInv
<1>4. inst' = [inst EXCEPT ![w] = Start(inst[w])] \/ inst' = [inst EXCEPT ![w] = inst[w]]
  BY DEF Restart, AfterTimeout
<1>5. \A v \in Workers \ {w} : inst'[v] = inst[v]
  BY <1>4 DEF TypeInv
<1>6. CASE worker' = NotRestarted(w)
  <2>1. /\ \A v \in Workers \ {w} : worker'[v] = worker[v]
        /\ ~worker'[w].eval.clean /\ worker'[w].eval.result = "none"
        /\ worker'[w].eval.verified = worker[w].eval.verified
    BY <1>1, <1>6, NotRestartedFields
  <2>2. MeasuredOf(w)'
    BY <1>1, <1>3, <2>1, ActivatedMeasured
  <2> QED BY <1>1, <1>5, <2>1, <2>2, ThroughMeasured
<1>7. CASE /\ inst' = [inst EXCEPT ![w] = Start(inst[w])]
           /\ worker' = Restarted(w) /\ Up(Start(inst[w]))
  <2>1. /\ \A v \in Workers \ {w} : worker'[v] = worker[v]
        /\ worker'[w].eval.clean = worker[w].eval.clean /\ worker'[w].eval.result = "none"
        /\ worker'[w].eval.want = worker[w].eval.want
        /\ worker'[w].eval.verified = worker[w].eval.verified
    BY <1>1, <1>7, RestartedFields
  <2>2. inst'[w] = Start(inst[w])
    BY <1>7 DEF TypeInv
  <2>3. inst'[w].active = inst[w].file
    BY <2>2, <1>7, StartFields, InstanceOf
  <2>4. tuning = "offline" /\ worker[w].eval.clean => inst[w].file = worker[w].eval.want
    BY <1>1, <1>2 DEF MeasuredOf, RequestInv
  <2>5. MeasuredOf(w)'
    BY <1>1, <1>3, <2>1, <2>3, <2>4, ActivatedMeasured
  <2> QED BY <1>1, <1>5, <2>1, <2>5, ThroughMeasured
<1> QED BY <1>6, <1>7 DEF Restart

\* The worker's plan becomes to rebuild.
LEMMA RebuildPlanned ==
  ASSUME TypeInv, MeasuredInv, NEW w \in Workers, stage = "activate", w \in todo,
         worker[w].eval.result = "none", Same, snap' = snap, UNCHANGED <<stage, todo>>,
         \A v \in Workers \ {w} : inst'[v] = inst[v],
         worker' = [worker EXCEPT ![w].eval.plan = "rebuild"]
  PROVE  MeasuredInv'
<1> DEFINE e == [worker[w].eval EXCEPT !.plan = "rebuild"]
           x == [worker[w] EXCEPT !.eval = e]
<1>1. worker[w].eval \in EvaluationRecord /\ worker[w] \in Worker
  BY EvalType DEF TypeInv, Good
<1>2. worker' = [worker EXCEPT ![w] = x]
  BY DEF TypeInv, Good
<1>3. /\ e.plan = "rebuild" /\ e.result = "none" /\ e.verified = worker[w].eval.verified
  BY <1>1 DEF EvaluationRecord
<1>4. x.eval = e
  <2> HIDE DEF e
  <2> QED BY <1>1 DEF Worker
<1>5. worker'[w].eval = e /\ \A v \in Workers \ {w} : worker'[v] = worker[v]
  <2> HIDE DEF x, e
  <2> QED BY <1>2, <1>4 DEF TypeInv, Good
<1> HIDE DEF x, e
<1>6. ~worker[w].eval.verified
  BY VerifiedStage DEF Verifying
<1>7. Planned(w)' /\ ~Activated(w)'
  BY DEF Planned, Activated
<1>8. MeasuredOf(w)'
  BY <1>3, <1>5, <1>6, <1>7 DEF MeasuredOf, CreditInv, RequestInv, RestoreInv
<1>9. OwnStep(w)
  <2>1. ASSUME NEW v \in Workers PROVE Behind(v)
    <3>1. (Planned(v)' => Planned(v)) /\ (Activated(v)' => Activated(v))
      BY DEF Planned, Activated
    <3>2. ~worker[v].eval.verified
      BY VerifiedStage DEF Verifying
    <3> QED BY <3>1, <3>2 DEF Behind
  <2> QED BY <1>5, <2>1 DEF OwnStep, Alone, Setting
<1> QED BY <1>8, <1>9, OwnMeasured

LEMMA RestoreMeasured ==
  ASSUME TypeInv, MeasuredInv, NEW w \in Workers, Restore(w) PROVE MeasuredInv'
<1> DEFINE i == Seeded(inst[w])
<1>1. /\ stage = "activate" /\ Same /\ snap' = snap /\ w \in todo
      /\ worker[w].eval.result = "none" /\ worker[w].eval.plan = "restore"
      /\ inst' = [inst EXCEPT ![w] = Start(i)]
  BY DEF Restore, Proceeding, Same, fixed
<1>2. MeasuredOf(w) /\ Planned(w)
  BY <1>1 DEF MeasuredInv, Planned
<1>3. /\ i \in Instance /\ i.data = snap.content /\ i.file = inst[w].file
  <2>1. inst[w] \in Instance /\ snap.content \in Data
    BY DEF TypeInv
  <2> QED BY <2>1, SetType DEF Seeded, Instance
<1>4. inst'[w] = Start(i) /\ \A v \in Workers \ {w} : inst'[v] = inst[v]
  <2> HIDE DEF i
  <2> QED BY <1>1 DEF TypeInv
<1>5. CASE Up(Start(i))
  <2>1. worker' = Restarted(w) /\ Through(w)
    BY <1>1, <1>5 DEF Restore, Through
  <2>2. /\ \A v \in Workers \ {w} : worker'[v] = worker[v]
        /\ worker'[w].eval.clean = worker[w].eval.clean /\ worker'[w].eval.result = "none"
        /\ worker'[w].eval.want = worker[w].eval.want
        /\ worker'[w].eval.verified = worker[w].eval.verified
    BY <1>1, <2>1, RestartedFields
  <2>3. inst'[w].active = inst[w].file /\ inst'[w].data = snap.content
    <3> HIDE DEF i
    <3> QED BY <1>3, <1>4, <1>5, StartFields
  <2>4. tuning = "offline" /\ worker[w].eval.clean => inst[w].file = worker[w].eval.want
    BY <1>1, <1>2 DEF MeasuredOf, RequestInv
  <2>5. snap.content # "drifted"
    BY DEF MeasuredInv, DriftInv
  <2>6. MeasuredOf(w)'
    BY <1>1, <2>1, <2>2, <2>3, <2>4, <2>5, ActivatedMeasured
  <2> QED BY <1>1, <1>4, <2>1, <2>2, <2>6, ThroughMeasured
<1>6. CASE ~Up(Start(i)) /\ kind = "docker"
  <2>1. worker' = [worker EXCEPT ![w].eval.plan = "rebuild"] /\ UNCHANGED <<stage, todo>>
    BY <1>6 DEF Restore
  <2> HIDE DEF i
  <2> QED BY <1>1, <1>4, <2>1, RebuildPlanned
<1>7. CASE ~Up(Start(i)) /\ kind # "docker"
  <2>1. worker' = Fail(w) /\ Through(w)
    BY <1>1, <1>7 DEF Restore, Through
  <2> HIDE DEF i
  <2> QED BY <1>1, <1>4, <2>1, LostMeasured
<1> QED BY <1>5, <1>6, <1>7

LEMMA RestoreFailsMeasured ==
  ASSUME TypeInv, MeasuredInv, NEW w \in Workers, RestoreFails(w) PROVE MeasuredInv'
<1>1. /\ stage = "activate" /\ Same /\ snap' = snap /\ w \in todo
      /\ worker[w].eval.result = "none"
  BY DEF RestoreFails, Proceeding, Same, fixed
<1>2. \A v \in Workers \ {w} : inst'[v] = inst[v]
  BY DEF RestoreFails, TypeInv
<1>3. CASE worker' = Fail(w) /\ Done(w, "verify")
  <2>1. Through(w)
    BY <1>1, <1>3 DEF Through
  <2> QED BY <1>1, <1>2, <1>3, <2>1, LostMeasured
<1>4. CASE worker' = [worker EXCEPT ![w].eval.plan = "rebuild"] /\ UNCHANGED <<stage, todo>>
  BY <1>1, <1>2, <1>4, RebuildPlanned
<1> QED BY <1>3, <1>4 DEF RestoreFails

LEMMA ForgottenMeasured ==
  ASSUME TypeInv, MeasuredInv, NEW w \in Workers, Forgotten(w) PROVE MeasuredInv'
<1>1. worker' = Fail(w) /\ Through(w) /\ Same /\ snap' = snap /\ inst' = inst
  BY DEF Forgotten, Through, Same, fixed
<1> QED BY <1>1, LostMeasured

LEMMA RebuildContainerMeasured ==
  ASSUME TypeInv, MeasuredInv, NEW w \in Workers, RebuildContainer(w) PROVE MeasuredInv'
<1>1. /\ stage = "activate" /\ Through(w) /\ Same /\ snap' = snap
      /\ worker[w].eval.result = "none"
  BY DEF RebuildContainer, Proceeding, Through, Same, fixed
<1>2. \A v \in Workers \ {w} : inst'[v] = inst[v]
  BY DEF RebuildContainer, TypeInv
<1>3. CASE worker' = Fail(w)
  BY <1>1, <1>2, <1>3, LostMeasured
<1>4. CASE /\ inst' = [inst EXCEPT ![w] = [Fresh(inst[w]) EXCEPT !.data = "baseline"]]
           /\ worker' = [Restarted(w) EXCEPT ![w].eval.clean = FALSE]
  <2>1. inst'[w].data = "baseline"
    <3>1. Fresh(inst[w]) \in Instance
      BY InstanceOf, OperationType
    <3>2. [Fresh(inst[w]) EXCEPT !.data = "baseline"].data = "baseline"
      BY <3>1, SetType DEF Data
    <3> QED BY <1>4, <3>2 DEF TypeInv
  <2> DEFINE f == Restarted(w)
             e == [f[w].eval EXCEPT !.clean = FALSE]
  <2>2. Good(f)
    BY RestartedType
  <2>3. /\ \A v \in Workers \ {w} : f[v] = worker[v]
        /\ f[w].eval.result = "none" /\ f[w].eval.verified = worker[w].eval.verified
    BY <1>1, RestartedFields
  <2> HIDE DEF f
  <2>4. f[w].eval \in EvaluationRecord /\ f[w] \in Worker
    BY <2>2, EvalType DEF Good
  <2>5. ~e.clean /\ e.result = "none" /\ e.verified = worker[w].eval.verified
    BY <2>3, <2>4 DEF EvaluationRecord
  <2>6. worker' = [f EXCEPT ![w].eval = e]
    BY <1>4, <2>2 DEF f, Good
  <2> HIDE DEF e
  <2>7. worker'[w].eval = e /\ \A v \in Workers \ {w} : worker'[v] = f[v]
    BY <2>2, <2>4, <2>6 DEF Good, Worker
  <2>8. MeasuredOf(w)'
    BY <1>1, <2>1, <2>5, <2>7, ActivatedMeasured
  <2> QED BY <1>1, <1>2, <2>3, <2>7, <2>8, ThroughMeasured
<1> QED BY <1>3, <1>4 DEF RebuildContainer

\* Everybody's instance goes: whoever still waits to activate has nothing to be
\* measured, and nothing that was measured before.
LEMMA RebuildClusterMeasured ==
  ASSUME TypeInv, MeasuredInv, NEW w \in Workers, RebuildCluster(w) PROVE MeasuredInv'
<1> DEFINE f == IF w = 0 THEN Restarted(w) ELSE Fail(w)
<1>1. /\ stage = "activate" /\ Through(w) /\ Same
      /\ worker[w].eval.result = "none"
  BY DEF RebuildCluster, Proceeding, Through, Same, fixed
<1>2. \A v \in Workers : inst'[v].data \in {"baseline", "none"}
  <2>1. Fresh(NoInstance) \in Instance
    BY NoInstanceType, OperationType
  <2>2. [Fresh(NoInstance) EXCEPT !.known = TRUE, !.data = "baseline"].data = "baseline"
    BY <2>1 DEF Instance
  <2>3. [NoInstance EXCEPT !.box = "stopped"].data = "none"
    BY DEF NoInstance
  <2> QED BY <2>2, <2>3 DEF RebuildCluster
<1>3. /\ Good(f) /\ \A v \in Workers \ {w} : f[v] = worker[v]
      /\ f[w].eval.verified = worker[w].eval.verified
  BY RestartedType, FailType, RestartedFields, FailFields
<1>4. \A v \in Workers : worker'[v] = [f[v] EXCEPT !.eval.clean = FALSE]
  BY DEF RebuildCluster
<1> HIDE DEF f
<1>5. ASSUME NEW v \in Workers
      PROVE  /\ ~worker'[v].eval.clean /\ worker'[v].eval.verified = f[v].eval.verified
             /\ worker'[v].eval.result = f[v].eval.result /\ worker'[v].eval.plan = f[v].eval.plan
             /\ worker'[v].eval.on = f[v].eval.on
  <2> DEFINE e == [f[v].eval EXCEPT !.clean = FALSE]
  <2>1. f[v] \in Worker /\ f[v].eval \in EvaluationRecord
    BY <1>3, EvalType DEF Good
  <2>2. worker'[v] = [f[v] EXCEPT !.eval = e]
    BY <1>4
  <2>3. /\ ~e.clean /\ e.verified = f[v].eval.verified /\ e.result = f[v].eval.result
        /\ e.plan = f[v].eval.plan /\ e.on = f[v].eval.on
    BY <2>1 DEF EvaluationRecord
  <2> HIDE DEF e
  <2>4. worker'[v].eval = e
    BY <2>1, <2>2 DEF Worker
  <2> QED BY <2>3, <2>4
<1>6. \A v \in Workers : ~worker[v].eval.verified
  BY <1>1, VerifiedStage DEF Verifying
<1>7. \A v \in Workers : ~worker'[v].eval.verified /\ ~worker'[v].eval.clean
  BY <1>3, <1>5, <1>6
<1>8. ASSUME NEW v \in Workers PROVE RestoreInv(v)'
  <2>1. RestoreInv(v)
    BY DEF MeasuredInv, MeasuredOf
  <2>2. CASE v = w
    <3>1. f[w].eval.result # "ok"
      BY <1>1, RestartedFields, FailFields DEF f
    <3>2. ~Planned(w)'
      BY <1>1, ThroughBehind
    <3> QED BY <1>2, <1>5, <2>2, <3>1, <3>2 DEF RestoreInv
  <2>3. CASE v # w
    <3>1. Planned(v)' => Planned(v)
      BY <1>1, <2>3, ThroughBehind DEF Behind
    <3>2. f[v] = worker[v]
      BY <1>3, <2>3
    <3> QED BY <1>1, <1>2, <1>5, <2>1, <3>1, <3>2, SameDue DEF RestoreInv
  <2> QED BY <2>2, <2>3
<1>9. \A v \in Workers : MeasuredOf(v)'
  BY <1>7, <1>8 DEF MeasuredOf, CreditInv, RequestInv
<1>10. DriftInv'
  <2>1. snap'.content # "drifted"
    <3>1. snap' = snap \/ snap' = [snap EXCEPT !.content = "baseline"]
      BY DEF RebuildCluster
    <3>2. CASE snap' = snap
      BY <3>2 DEF MeasuredInv, DriftInv
    <3>3. CASE snap' = [snap EXCEPT !.content = "baseline"]
      BY <3>3 DEF TypeInv
    <3> QED BY <3>1, <3>2, <3>3
  <2>2. stage' \notin Setting
    BY <1>1, ThroughBehind
  <2> QED BY <2>1, <2>2 DEF DriftInv
<1> QED BY <1>9, <1>10 DEF MeasuredInv

LEMMA VerifyMeasured ==
  ASSUME TypeInv, MeasuredInv, NEW w \in Workers, NEW ok \in BOOLEAN, Verify(w, ok)
  PROVE  MeasuredInv'
<1>1. /\ stage = "verify" /\ Through(w) /\ Same /\ snap' = snap /\ inst' = inst
      /\ worker[w].eval.result = "none"
  BY DEF Verify, Proceeding, Through, Same, fixed
<1>2. MeasuredOf(w) /\ Activated(w) /\ ~Planned(w)'
  BY <1>1, ThroughBehind DEF MeasuredInv, Activated
<1>3. stage' \in Verifying
  BY <1>1, ThroughBehind DEF Verifying
<1>4. CASE worker' = worker
  <2>1. MeasuredOf(w)'
    BY <1>1, <1>2, <1>3, <1>4, KeptMeasured DEF Behind
  <2> QED BY <1>1, <1>4, <2>1, ThroughMeasured
<1>5. CASE worker' = Capture(w)
  <2> DEFINE e == [worker[w].eval EXCEPT !.verified = TRUE]
             x == [worker[w] EXCEPT !.eval = e, !.config = inst[w].active]
  <2>1. worker[w].eval \in EvaluationRecord /\ worker[w] \in Worker
    BY EvalType DEF TypeInv, Good
  <2>2. worker' = [worker EXCEPT ![w] = x]
    BY <1>5 DEF Capture, TypeInv, Good
  <2>3. /\ e.result = "none" /\ e.clean = worker[w].eval.clean /\ e.want = worker[w].eval.want
    BY <1>1, <2>1 DEF EvaluationRecord
  <2>4. x.eval = e /\ x.config = inst[w].active
    <3> HIDE DEF e
    <3> QED BY <2>1 DEF Worker
  <2> HIDE DEF x, e
  <2>5. worker'[w] = x /\ \A v \in Workers \ {w} : worker'[v] = worker[v]
    BY <2>2 DEF TypeInv, Good
  <2>6. CreditInv(w)'
    BY <1>1, <1>3, <2>3, <2>4, <2>5 DEF CreditInv
  <2>7. RequestInv(w)'
    BY <1>1, <1>2, <2>3, <2>4, <2>5 DEF MeasuredOf, RequestInv, Same
  <2>8. RestoreInv(w)'
    BY <1>1, <1>2, <2>3, <2>4, <2>5, SameDue DEF MeasuredOf, RestoreInv
  <2>9. MeasuredOf(w)'
    BY <2>6, <2>7, <2>8 DEF MeasuredOf
  <2> QED BY <1>1, <2>5, <2>9, ThroughMeasured
<1> QED BY <1>4, <1>5 DEF Verify

LEMMA MeasureMeasured ==
  ASSUME TypeInv, MeasuredInv, NEW w \in Workers, Measure(w) PROVE MeasuredInv'
<1> DEFINE e == [worker[w].eval EXCEPT !.result = "ok", !.seen = inst[w].active,
                                       !.on = inst[w].data]
           x == [worker[w] EXCEPT !.eval = e]
           d == worker[w].eval
<1>1. /\ stage = "measure" /\ Through(w) /\ Same /\ snap' = snap
      /\ worker[w].eval.result = "none"
      /\ inst' = [inst EXCEPT ![w].data = "drifted"]
  BY DEF Measure, Proceeding, Through, Same, fixed
<1>2. d \in EvaluationRecord /\ worker[w] \in Worker
  BY EvalType DEF TypeInv, Good
<1>3. worker' = [worker EXCEPT ![w] = x]
  BY DEF Measure, TypeInv, Good
<1>4. /\ e.result = "ok" /\ e.seen = inst[w].active /\ e.on = inst[w].data
      /\ e.verified = d.verified /\ e.clean = d.clean /\ e.want = d.want
  BY <1>2 DEF EvaluationRecord
<1>5. x.eval = e /\ x.config = worker[w].config
  <2> HIDE DEF e
  <2> QED BY <1>2 DEF Worker
<1> HIDE DEF x, e
<1>6. worker'[w] = x /\ \A v \in Workers \ {w} : worker'[v] = worker[v] /\ inst'[v] = inst[v]
  BY <1>1, <1>3 DEF TypeInv, Good
<1>7. MeasuredOf(w) /\ Activated(w)
  BY <1>1 DEF MeasuredInv, Activated
<1>8. stage' \in Verifying
  BY <1>1, ThroughBehind DEF Verifying
<1>9. CreditInv(w)'
  BY <1>1, <1>4, <1>5, <1>6, <1>7, <1>8 DEF MeasuredOf, CreditInv
<1>10. RequestInv(w)'
  BY <1>1, <1>4, <1>5, <1>6, <1>7 DEF MeasuredOf, RequestInv, Same
<1>11. RestoreInv(w)'
  BY <1>1, <1>4, <1>5, <1>6, <1>7, SameDue DEF MeasuredOf, RestoreInv
<1>12. MeasuredOf(w)'
  BY <1>9, <1>10, <1>11 DEF MeasuredOf
<1> QED BY <1>1, <1>6, <1>12, ThroughMeasured

LEMMA IdleMeasured ==
  ASSUME TypeInv, MeasuredInv, NEW w \in Workers, Idle(w) PROVE MeasuredInv'
<1>1. /\ Through(w) /\ Same /\ snap' = snap /\ inst' = inst /\ worker' = worker
      /\ worker[w].eval.result = "failed"
  BY DEF Idle, Through, Same, fixed
<1>2. MeasuredOf(w)'
  <2>1. worker[w].eval.verified => stage' \in Verifying
    BY <1>1, VerifiedStage, ThroughBehind
  <2>2. MeasuredOf(w)
    BY DEF MeasuredInv
  <2> QED BY <1>1, <2>1, <2>2, FailedMeasured
<1> QED BY <1>1, <1>2, ThroughMeasured

LEMMA DieMeasured ==
  ASSUME TypeInv, MeasuredInv, NEW w \in Workers, Die(w) PROVE MeasuredInv'
<1>1. /\ stage \in Evaluating /\ Same /\ UNCHANGED <<stage, todo, snap>>
      /\ inst' = [inst EXCEPT ![w] = Stop(inst[w])]
  BY DEF Die, Same, fixed
<1>2. /\ inst'[w].file = inst[w].file /\ inst'[w].active = inst[w].active
      /\ inst'[w].data = inst[w].data
      /\ \A v \in Workers \ {w} : inst'[v] = inst[v]
  BY <1>1, StartFields, InstanceOf DEF TypeInv
<1>3. Planned(w)' = Planned(w) /\ Activated(w)' = Activated(w)
  BY <1>1 DEF Planned, Activated
<1>4. MeasuredOf(w)
  BY DEF MeasuredInv
<1>5. ASSUME NEW v \in Workers PROVE Behind(v)
  <2>1. (Planned(v)' => Planned(v)) /\ (Activated(v)' => Activated(v))
    BY <1>1 DEF Planned, Activated
  <2>2. worker[v].eval.verified => stage' \in Verifying
    BY <1>1, VerifiedStage
  <2> QED BY <2>1, <2>2 DEF Behind
<1>6. /\ \A v \in Workers \ {w} : worker'[v] = worker[v]
      /\ MeasuredOf(w)'
  <2>1. CASE worker' = worker
    <3>1. CreditInv(w)'
      BY <1>1, <1>2, <1>4, <2>1 DEF MeasuredOf, CreditInv
    <3>2. RequestInv(w)'
      BY <1>1, <1>2, <1>3, <1>4, <2>1 DEF MeasuredOf, RequestInv, Same
    <3>3. RestoreInv(w)'
      BY <1>1, <1>2, <1>3, <1>4, <2>1, SameDue DEF MeasuredOf, RestoreInv
    <3> QED BY <2>1, <3>1, <3>2, <3>3 DEF MeasuredOf
  <2>2. CASE worker' = NotRestarted(w)
    <3>1. CreditInv(w)'
      BY <1>1, <1>2, <1>4, <2>2, NotRestartedFields DEF MeasuredOf, CreditInv
    <3>2. RequestInv(w)'
      BY <2>2, NotRestartedFields DEF RequestInv
    <3>3. RestoreInv(w)'
      BY <1>1, <1>2, <1>3, <1>4, <2>2, NotRestartedFields, SameDue DEF MeasuredOf, RestoreInv
    <3> QED BY <2>2, <3>1, <3>2, <3>3, NotRestartedFields DEF MeasuredOf
  <2>3. worker' = worker \/ worker' = NotRestarted(w)
    BY DEF Die, NotRestarted
  <2> QED BY <2>1, <2>2, <2>3
<1>7. OwnStep(w)
  BY <1>1, <1>2, <1>5, <1>6 DEF OwnStep, Alone, Evaluating, Setting
<1> QED BY <1>6, <1>7, OwnMeasured

LEMMA EvaluationMeasured ==
  ASSUME TypeInv, MeasuredInv, NEW w \in Workers, Evaluation(w) PROVE MeasuredInv'
<1>1. CASE ConnectFails(w)
  BY <1>1, FailAndRecoverMeasured DEF ConnectFails, Same, fixed
<1>2. ASSUME NEW written \in SUBSET Knobs, Apply(w, written) PROVE MeasuredInv'
  BY <1>2, ApplyMeasured
<1>3. CASE NoActivation(w)
  BY <1>3, NoActivationMeasured
<1>4. CASE Restart(w)
  BY <1>4, RestartMeasured
<1>5. CASE Restore(w)
  BY <1>5, RestoreMeasured
<1>6. CASE RestoreFails(w)
  BY <1>6, RestoreFailsMeasured
<1>7. CASE Forgotten(w)
  BY <1>7, ForgottenMeasured
<1>8. CASE RebuildContainer(w)
  BY <1>8, RebuildContainerMeasured
<1>9. CASE RebuildCluster(w)
  BY <1>9, RebuildClusterMeasured
<1>10. CASE ReconnectFails(w)
  BY <1>10, FailAndRecoverMeasured DEF ReconnectFails, Same, fixed
<1>11. ASSUME NEW ok \in BOOLEAN, Verify(w, ok) PROVE MeasuredInv'
  BY <1>11, VerifyMeasured
<1>12. CASE Measure(w)
  BY <1>12, MeasureMeasured
<1>13. CASE MeasureFails(w)
  BY <1>13, FailAndRecoverMeasured DEF MeasureFails, Same, fixed
<1>14. CASE Idle(w)
  BY <1>14, IdleMeasured
<1> QED
  BY <1>1, <1>2, <1>3, <1>4, <1>5, <1>6, <1>7, <1>8, <1>9, <1>10, <1>11, <1>12, <1>13, <1>14
  DEF Evaluation

-----------------------------------------------------------------------------
(* The end of a generation, and of a session.                              *)

\* With every evaluation forgotten, there is nothing to credit.
LEMMA AllCleared ==
  ASSUME MeasuredInv, \A w \in Workers : worker'[w].eval = NoEvaluation,
         snap' = snap, \/ stage' = "apply" /\ todo' = Workers
                       \/ stage' \in {"teardown", "off"}
  PROVE  MeasuredInv'
<1>1. ASSUME NEW w \in Workers PROVE MeasuredOf(w)'
  <2>1. ~Planned(w)' /\ ~Activated(w)'
    BY DEF Planned, Activated
  <2> QED BY <2>1, ClearedMeasured
<1>2. DriftInv'
  BY DEF MeasuredInv, DriftInv, Setting
<1> QED BY <1>1, <1>2 DEF MeasuredInv

LEMMA NewEvaluation ==
  /\ \A c : NewWorker(c).eval = NoEvaluation
  /\ \A w : \A x \in Worker : NextEvaluation(w, x).eval = NoEvaluation
<1>1. ASSUME NEW x \in Worker, NEW w PROVE NextEvaluation(w, x).eval = NoEvaluation
  BY DEF NextEvaluation, Worker
<1> QED BY <1>1 DEF NewWorker

LEMMA EvolveMeasured == ASSUME TypeInv, MeasuredInv, Evolve PROVE MeasuredInv'
<1>1. ASSUME NEW config, Resample(config) PROVE MeasuredInv'
  <2>1. \A w \in Workers : worker'[w].eval = NoEvaluation
    BY <1>1, NewEvaluation DEF Resample
  <2>2. snap' = snap /\ (NextGeneration \/ Abort)
    BY <1>1 DEF Resample
  <2> QED BY <2>1, <2>2, AllCleared DEF NextGeneration, Abort
<1>2. ASSUME NEW source \in Workers, NEW targets \in SUBSET Workers, NEW config \in Configs,
             Exploit(source, targets, config)
      PROVE  MeasuredInv'
  <2>1. ASSUME NEW w \in Workers PROVE worker'[w].eval = NoEvaluation
    <3> DEFINE x == IF w \in targets THEN [worker[w] EXCEPT !.config = config] ELSE worker[w]
    <3>1. x \in Worker
      BY ConstantsType DEF TypeInv, Good, Worker
    <3>2. worker'[w] = NextEvaluation(w, x)
      BY <1>2 DEF Exploit
    <3> HIDE DEF x
    <3> QED BY <3>1, <3>2, NewEvaluation
  <2>2. snap' = snap /\ (NextGeneration \/ Abort)
    BY <1>2 DEF Exploit
  <2> QED BY <2>1, <2>2, AllCleared DEF NextGeneration, Abort
<1>3. CASE NoExploit
  <2>1. \A w \in Workers : worker'[w].eval = NoEvaluation
    BY <1>3, NewEvaluation DEF NoExploit, TypeInv, Good
  <2>2. snap' = snap /\ NextGeneration
    BY <1>3 DEF NoExploit
  <2> QED BY <2>1, <2>2, AllCleared DEF NextGeneration
<1> QED BY <1>1, <1>2, <1>3 DEF Evolve

LEMMA LeaveMeasured ==
  ASSUME TypeInv, MeasuredInv, (\E remove \in BOOLEAN : Teardown(remove)) \/ Crash
  PROVE  MeasuredInv'
<1>1. /\ worker' = [w \in Workers |-> NewWorker(Default)]
      /\ snap' = snap /\ stage' = "off"
  BY DEF Teardown, Crash
<1>2. \A w \in Workers : worker'[w].eval = NoEvaluation
  BY <1>1, NewEvaluation
<1> QED BY <1>1, <1>2, AllCleared

LEMMA EndSessionMeasured == ASSUME MeasuredInv, EndSession PROVE MeasuredInv'
<1>1. Same /\ snap' = snap /\ inst' = inst /\ worker' = worker /\ Abort
  BY DEF EndSession, Same, fixed
<1>2. \A w \in Workers : MeasuredOf(w)'
  BY <1>1, AbortBehind, KeptMeasured DEF MeasuredInv
<1>3. DriftInv'
  BY <1>1 DEF MeasuredInv, DriftInv, Abort, Setting
<1> QED BY <1>2, <1>3 DEF MeasuredInv

LEMMA StartSessionMeasured == ASSUME TypeInv, MeasuredInv, NEW o, StartSession(o) PROVE MeasuredInv'
<1>1. /\ stage = "off" /\ stage' \in {"clear", "provide"} /\ gen' = 0
      /\ tuning' = tuning /\ snap' = snap /\ worker' = worker
  BY DEF StartSession
<1>2. ~RestoreDue'
  BY <1>1 DEF RestoreDue
<1>3. ASSUME NEW w \in Workers PROVE MeasuredOf(w)'
  <2>1. ~worker[w].eval.verified
    BY <1>1, VerifiedStage DEF Verifying
  <2>2. ~Planned(w)' /\ ~Activated(w)' /\ MeasuredOf(w)
    BY <1>1 DEF Planned, Activated, MeasuredInv
  <2> QED BY <1>1, <1>2, <2>1, <2>2 DEF MeasuredOf, CreditInv, RequestInv, RestoreInv
<1>4. ASSUME NEW w \in Workers PROVE inst'[w].data # "drifted"
  <2> DEFINE d == IF inst[w].data = "drifted" THEN "old" ELSE inst[w].data
  <2>1. inst'[w] = [inst[w] EXCEPT !.known = FALSE, !.data = d]
    BY DEF StartSession
  <2>2. inst'[w].data = d
    <3> HIDE DEF d
    <3> QED BY <2>1 DEF TypeInv, Instance
  <2> QED BY <2>2
<1>5. DriftInv'
  BY <1>1, <1>4 DEF MeasuredInv, DriftInv
<1> QED BY <1>3, <1>5 DEF MeasuredInv

\* The instances change while they are set up, but none is being evaluated.
LEMMA SetupMeasured == ASSUME TypeInv, MeasuredInv, Setup PROVE MeasuredInv'
<1>1. /\ stage \in Setting /\ Same
      /\ \/ stage' \in Setting \cup {"teardown"}
         \/ stage' = "apply" /\ todo' = Workers
  BY DEF Setup, Provide, Initialize, RemoveBaseline, SnapshotBegins, SnapshotEnds, Same, fixed,
         Setting, Abort
<1>2. worker' = worker \/ worker' \in [Workers -> {NewWorker(c) : c \in Configs}]
  BY DEF Setup, Provide, Initialize, RemoveBaseline, SnapshotBegins, SnapshotEnds
<1>3. ASSUME NEW w \in Workers PROVE MeasuredOf(w)'
  <2>1. ~Planned(w)' /\ ~Activated(w)' /\ MeasuredOf(w)
    BY <1>1 DEF Planned, Activated, Setting, MeasuredInv
  <2>2. ~worker[w].eval.verified
    BY <1>1, VerifiedStage DEF Verifying, Setting
  <2>3. CASE worker' = worker
    BY <1>1, <2>1, <2>2, <2>3, RestingMeasured
  <2>4. CASE worker' \in [Workers -> {NewWorker(c) : c \in Configs}]
    <3>1. worker'[w] \in {NewWorker(c) : c \in Configs}
      BY <2>4
    <3>2. worker'[w].eval = NoEvaluation
      BY <3>1, NewEvaluation
    <3> QED BY <2>1, <3>2, ClearedMeasured
  <2> QED BY <1>2, <2>3, <2>4
<1>4. \A w \in Workers : inst[w] \in Instance /\ inst[w].data # "drifted"
  BY <1>1 DEF MeasuredInv, DriftInv, TypeInv
<1>5. snap \in [content: Data, manifest: BOOLEAN] /\ snap.content # "drifted"
  BY DEF TypeInv, MeasuredInv, DriftInv
<1>6. CASE Provide
  <2> DEFINE w == Current
             i == IF Replaced(w) THEN Fresh(inst[w]) ELSE Start(inst[w])
             j == [(IF Up(inst[w]) /\ ~Replaced(w) /\ kind = "docker"
                    THEN inst[w] ELSE i) EXCEPT !.known = TRUE]
  <2>1. inst' = [inst EXCEPT ![w] = j] /\ snap' = snap
    BY <1>6 DEF Provide
  <2>2. ASSUME w \in Workers PROVE j.data # "drifted"
    <3>1. inst[w] \in Instance /\ i \in Instance /\ i.data # "drifted"
      BY <1>4, <2>2, OperationType, StartType
    <3> HIDE DEF i
    <3> QED BY <1>4, <2>2, <3>1, SetType
  <2> HIDE DEF j, w
  <2>3. \A v \in Workers : inst'[v].data # "drifted"
    BY <1>4, <2>1, <2>2 DEF TypeInv
  <2> QED BY <1>3, <1>5, <2>1, <2>3 DEF MeasuredInv, DriftInv
<1>7. CASE Initialize
  <2> DEFINE w == Current
             i == Reset(inst[w])
             j == IF SchemaValid(i) THEN i
                  ELSE IF snap.content # "none" THEN Start(Seeded(i))
                  ELSE [i EXCEPT !.data = "baseline"]
  <2>1. inst' = [inst EXCEPT ![w] = j] /\ snap' = snap
    BY <1>7 DEF Initialize
  <2>2. ASSUME w \in Workers PROVE j.data # "drifted"
    <3>1. i \in Instance /\ i.data # "drifted"
      BY <1>4, <2>2, OperationType
    <3> HIDE DEF i
    <3>2. Seeded(i) \in Instance /\ Seeded(i).data = snap.content
      BY <1>5, <3>1, SetType DEF Seeded
    <3>3. Start(Seeded(i)).data = snap.content
      BY <3>2, StartType
    <3>4. [i EXCEPT !.data = "baseline"].data = "baseline"
      BY <3>1, SetType DEF Data
    <3> QED BY <1>5, <3>1, <3>3, <3>4
  <2> HIDE DEF j, w
  <2>3. \A v \in Workers : inst'[v].data # "drifted"
    BY <1>4, <2>1, <2>2 DEF TypeInv
  <2> QED BY <1>3, <1>5, <2>1, <2>3 DEF MeasuredInv, DriftInv
<1>8. CASE RemoveBaseline
  <2>1. inst' = inst
    BY <1>8 DEF RemoveBaseline
  <2>2. snap'.content # "drifted"
    <3>1. snap' = [snap EXCEPT !.content = "none"] \/ snap' = [snap EXCEPT !.manifest = FALSE]
      BY <1>8 DEF RemoveBaseline
    <3> QED BY <1>5, <3>1
  <2> QED BY <1>3, <1>4, <2>1, <2>2 DEF MeasuredInv, DriftInv
<1>9. CASE SnapshotBegins \/ SnapshotEnds
  <2>1. \A v \in Workers : inst'[v].data = inst[v].data
    <3>1. inst' = [inst EXCEPT ![0] = Stop(inst[0])] \/ inst' = [inst EXCEPT ![0] = Start(inst[0])]
      BY <1>9 DEF SnapshotBegins, SnapshotEnds
    <3> QED BY <3>1, StartFields, InstanceOf, ConstantsType DEF TypeInv
  <2>2. snap'.content # "drifted"
    <3>1. \/ snap' = [snap EXCEPT !.content = "broken"]
          \/ snap' = [content |-> inst[0].data, manifest |-> TRUE]
      BY <1>9 DEF SnapshotBegins, SnapshotEnds
    <3> QED BY <1>4, <1>5, <3>1, ConstantsType
  <2> QED BY <1>3, <1>4, <2>1, <2>2 DEF MeasuredInv, DriftInv
<1> QED BY <1>6, <1>7, <1>8, <1>9 DEF Setup

LEMMA NextMeasured == ASSUME TypeInv, MeasuredInv, [Next]_vars PROVE MeasuredInv'
<1>1. ASSUME NEW w \in Workers, Evaluation(w) PROVE MeasuredInv'
  BY <1>1, EvaluationMeasured
<1>2. CASE Evolve
  BY <1>2, EvolveMeasured
<1>3. ASSUME NEW o, StartSession(o) PROVE MeasuredInv'
  BY <1>3, StartSessionMeasured
<1>4. CASE Setup
  BY <1>4, SetupMeasured
<1>5. CASE EndSession
  BY <1>5, EndSessionMeasured
<1>6. CASE (\E remove \in BOOLEAN : Teardown(remove)) \/ Crash
  BY <1>6, LeaveMeasured
<1>7. ASSUME NEW w \in Workers, Die(w) PROVE MeasuredInv'
  BY <1>7, DieMeasured
<1>8. CASE UNCHANGED vars
  <2>1. \A w \in Workers : Planned(w)' = Planned(w) /\ Activated(w)' = Activated(w)
    BY <1>8 DEF vars, Planned, Activated
  <2> QED BY <1>8, <2>1 DEF vars, MeasuredInv, MeasuredOf, CreditInv, RequestInv, RestoreInv,
                            DriftInv, RestoreDue
<1> QED BY <1>1, <1>2, <1>3, <1>4, <1>5, <1>6, <1>7, <1>8 DEF Next

LEMMA InitMeasured == ASSUME Init PROVE MeasuredInv
<1>1. /\ \A w \in Workers : worker[w].eval = NoEvaluation
      /\ stage = "off" /\ snap.content = "none"
  BY NewEvaluation DEF Init
<1>2. NoEvaluation.result = "none" /\ ~NoEvaluation.verified
  BY DEF NoEvaluation
<1>3. ASSUME NEW w \in Workers PROVE MeasuredOf(w)
  BY <1>1, <1>2 DEF MeasuredOf, CreditInv, RequestInv, RestoreInv, Planned, Activated
<1> QED BY <1>1, <1>3 DEF MeasuredInv, DriftInv, Setting

\* A measurement is credited to the configuration the server ran with; offline, with
\* nothing failing, that is the one asked for; and when a restore was due, the data is
\* not what an evaluation of this session has left.  For both backends and any number
\* of instances, through restarts, failed restores, rebuilds, recoveries and clones.
\* (apply_configuration; _verify_and_capture_config; restore_snapshot)
THEOREM MeasurementsAreCredited == Spec => []MeasuredAsCredited
<1>1. Init => TypeInv /\ MeasuredInv
  BY InitType, InitMeasured
<1>2. TypeInv /\ MeasuredInv /\ [Next]_vars => TypeInv' /\ MeasuredInv'
  BY NextType, NextMeasured
<1>3. MeasuredInv => MeasuredAsCredited
  BY DEF MeasuredInv, MeasuredOf, CreditInv, RequestInv, RestoreInv, MeasuredAsCredited,
         CreditedWasActive, OfflineRunsRequested, DueMeansRestored
<1> QED BY <1>1, <1>2, <1>3, PTL DEF Spec
=============================================================================
