-------------------------- MODULE Comparison_proof --------------------------
(***************************************************************************)
(* Proofs about Comparison, for any number of arms and repetitions and    *)
(* any number of failures; and about what is computed from many runs, for  *)
(* any inputs: Holm's correction, SCALPEL's gate and cuts (Tiering), the   *)
(* files tiers travel in (TierFiles), the audit of traces (TraceAudit).    *)
(*                                                                         *)
(* TypeInv: types, and where repetition and arm may stand.  RepInv: what   *)
(* the runs of the present repetition have in common.  RunsInv: the kept   *)
(* runs, counted against the dropped repetitions.  CleanInv, which needs   *)
(* that PGDATA can be removed: what is left when a run starts.  GateInv:   *)
(* the hits behind a sweep.  TierInv: the importances behind the tiers.    *)
(* CutInv: what the CSV files hold of the tiers that were loaded.          *)
(* AuditInv: what a record may say (Fit), and the round that is under way. *)
(***************************************************************************)
EXTENDS Comparison, Tiering, TierFiles, TraceAudit, FiniteSetTheorems, WellFoundedInduction, TLAPS

InRun == {"recreate", "schema", "apply", "restart", "measure", "teardown",
          "raised_in_run", "interrupted"}
Early == {"load", "resolve", "docker"}

\* The arm that runs, and how many of the repetition have been measured.
PositionInv ==
    /\ pc \in InRun \cup Early \cup {"next", "rep"} =>
           rep \in 1 .. Repetitions /\ order \in 1 .. Len(Arms)
    /\ pc \in Early => rep = 1 /\ order = 1
    /\ pc \in Early \cup {"recreate", "schema", "apply", "restart", "measure"} =>
           Len(repRuns) = order - 1
    /\ pc \in {"teardown", "next"} => Len(repRuns) = order
    /\ pc \in {"apply", "restart", "measure"} => data # None
    /\ failed < rep
TypeInv == TypeOK /\ PositionInv

LEMMA ArmsFacts ==
  /\ Len(Arms) \in Nat /\ Len(Arms) >= 2 /\ DOMAIN Arms = 1 .. Len(Arms)
  /\ \A k \in 1 .. Len(Arms) : Arms[k] \in ArmSet
  /\ \A a \in ArmSet : OrderOf(a) \in 1 .. Len(Arms) /\ Arms[OrderOf(a)] = a
  /\ Untuned \in ArmSet
<1>1. Arms \in Seq(ArmSet) /\ Len(Arms) >= 2 /\ Untuned \in ArmSet
  BY ComparisonAssumption DEF ArmSet
<1>2. Len(Arms) \in Nat /\ DOMAIN Arms = 1 .. Len(Arms)
  BY <1>1
<1>3. ASSUME NEW a \in ArmSet PROVE OrderOf(a) \in DOMAIN Arms /\ Arms[OrderOf(a)] = a
  <2>1. \E k \in DOMAIN Arms : Arms[k] = a
    BY DEF ArmSet
  <2> QED BY <2>1 DEF OrderOf
<1> QED BY <1>1, <1>2, <1>3 DEF ArmSet

LEMMA ConstantsType ==
  /\ Repetitions \in Nat /\ Repetitions >= 2 /\ MaxFaults \in Nat
  /\ DefaultWarmup \in Nat \ {0} /\ WarmupInputs \subseteq Nat
  BY ComparisonAssumption

LEMMA AlphaType == Alpha \in Nat /\ Alpha <= 1000
BY ComparisonAssumption

LEMMA WarmupType ==
  /\ \A n \in Nat : OrDefault(n) \in Nat
  /\ \A v \in WarmupInputs : Max({v}) = v
  /\ \A cli, session \in {{}} \cup {{v} : v \in WarmupInputs} : Effective(cli, session) \in Nat
<1>1. \A n \in Nat : OrDefault(n) \in Nat
  BY ConstantsType DEF OrDefault
<1>2. ASSUME NEW v \in WarmupInputs PROVE Max({v}) = v
  <2>1. v \in Nat
    BY ConstantsType
  <2>2. \E x \in {v} : \A y \in {v} : x >= y
    BY <2>1
  <2>3. (CHOOSE x \in {v} : \A y \in {v} : x >= y) \in {v}
    BY <2>2
  <2> QED BY <2>3 DEF Max
<1>3. ASSUME NEW cli \in {{}} \cup {{v} : v \in WarmupInputs},
             NEW session \in {{}} \cup {{v} : v \in WarmupInputs}
      PROVE  Effective(cli, session) \in Nat
  <2>1. cli # {} => \E v \in WarmupInputs : cli = {v}
    OBVIOUS
  <2>2. session # {} => \E v \in WarmupInputs : session = {v}
    OBVIOUS
  <2>3. cli # {} => Max(cli) \in Nat
    BY <1>2, <2>1, ConstantsType
  <2>4. session # {} => Max(session) \in Nat
    BY <1>2, <2>2, ConstantsType
  <2> QED BY <2>3, <2>4, ConstantsType DEF Effective
<1> QED BY <1>1, <1>2, <1>3

LEMMA FaultType == TypeInv /\ (Fault \/ NoFault) => faults' \in 0 .. MaxFaults
  BY ConstantsType DEF TypeInv, TypeOK, Fault, NoFault

LEMMA InitType == Init => TypeInv
<1> SUFFICES ASSUME Init PROVE TypeInv
  OBVIOUS
<1> USE DEF Init
<1>1. /\ pc = "load" /\ rep = 1 /\ order = 1 /\ Len(repRuns) = 0 /\ failed < rep
      /\ 1 \in 1 .. Repetitions /\ 1 \in 1 .. Len(Arms)
      /\ 1 \in 1 .. Repetitions + 1 /\ 1 \in 1 .. Len(Arms) + 1
  BY ArmsFacts, ConstantsType
<1>2. PositionInv
  BY <1>1 DEF PositionInv, Early, InRun
<1>3. repRuns \in Seq(RunRecord) /\ Len(repRuns) <= Len(Arms)
  BY <1>1, ArmsFacts
<1>4. runs \in [ArmSet -> Seq(RunRecord)]
  OBVIOUS
<1>5. outcome \in [Endpoints -> PValues \cup {Degenerate}]
  OBVIOUS
<1>6. failed \in 0 .. Repetitions /\ faults \in 0 .. MaxFaults
  BY ConstantsType
<1> QED BY <1>1, <1>2, <1>3, <1>4, <1>5, <1>6, ArmsFacts, ConstantsType DEF TypeInv, TypeOK

LEMMA NextType == TypeInv /\ [Next]_vars => TypeInv'
<1> SUFFICES ASSUME TypeInv, [Next]_vars PROVE TypeInv'
  OBVIOUS
<1> USE ArmsFacts, ConstantsType DEF TypeInv, Goto
<1>f. Fault \/ NoFault => faults' \in 0 .. MaxFaults
  BY FaultType
<1>1. CASE LoadSessions \/ LoadRaises \/ DockerReady \/ DockerMissing
  BY <1>1, <1>f DEF LoadSessions, LoadRaises, DockerReady, DockerMissing,
     record, server, analysis, TypeOK, PositionInv, Early, InRun
<1>2. CASE ResolveParameters
  <2>1. resolved' \in Nat /\ rubric' \in Nat
    BY <1>2, WarmupType DEF ResolveParameters, RubricWarmup
  <2> QED BY <1>2, <1>f, <2>1 DEF ResolveParameters, record, server, TypeOK,
        PositionInv, Early, InRun
<1>3. CASE Recreate \/ RecreateFails
  <2>1. RemovedBaseline \in {None, "pristine", "touched"}
    BY DEF RemovedBaseline, TypeOK
  <2> QED BY <1>3, <1>f, <2>1 DEF Recreate, RecreateFails, record, analysis, TypeOK,
        PositionInv, Early, InRun
<1>4. CASE InitializeSchema \/ InitializeSchemaFails
  <2>1. Restored(data, baseline) \in {"pristine", "touched"}
    BY DEF Restored, TypeOK, None
  <2> QED BY <1>4, <1>f, <2>1 DEF InitializeSchema, InitializeSchemaFails, record, analysis,
        TypeOK, PositionInv, Early, InRun, None
<1>5. CASE Apply \/ Restart
  <2>1. order \in 1 .. Len(Arms)
    BY <1>5 DEF Apply, Restart, PositionInv, InRun
  <2> QED BY <1>5, <1>f, <2>1 DEF Apply, Restart, record, analysis, TypeOK, PositionInv,
        Early, InRun
<1>6. CASE Measure
  <2>1. /\ rep \in 1 .. Repetitions /\ order \in 1 .. Len(Arms)
        /\ Len(repRuns) = order - 1 /\ data \in {"pristine", "touched"}
    BY <1>6 DEF Measure, PositionInv, InRun, TypeOK
  <2>2. MeasuredWarmup(resolved) \in Nat /\ Seed \in 0 .. Repetitions
    <3>1. resolved \in Nat
      BY DEF TypeOK
    <3>2. OrDefault(resolved) \in Nat
      BY <3>1, WarmupType
    <3>3. rep - 1 \in 0 .. Repetitions
      BY <2>1
    <3> QED BY <3>2, <3>3 DEF MeasuredWarmup, Seed
  <2>3. ASSUME NEW penalty \in BOOLEAN
        PROVE  [run_number |-> rep, pair_seed |-> Seed, data |-> data, active |-> active,
                warmup |-> MeasuredWarmup(resolved), penalty |-> penalty] \in RunRecord
    BY <2>1, <2>2 DEF RunRecord, TypeOK
  <2>4. \/ repRuns' = repRuns /\ pc' = "raised_in_run"
        \/ /\ repRuns' \in Seq(RunRecord) /\ Len(repRuns') = order /\ pc' = "teardown"
    <3>1. CASE repRuns' = repRuns /\ pc' = "raised_in_run"
      BY <3>1
    <3>2. ASSUME NEW penalty \in BOOLEAN,
                 repRuns' = Append(repRuns,
                  [run_number |-> rep, pair_seed |-> Seed, data |-> data,
                   active |-> active, warmup |-> MeasuredWarmup(resolved),
                   penalty |-> penalty]),
                 pc' = "teardown"
          PROVE  repRuns' \in Seq(RunRecord) /\ Len(repRuns') = order
      <4> DEFINE r == [run_number |-> rep, pair_seed |-> Seed, data |-> data,
                       active |-> active, warmup |-> MeasuredWarmup(resolved),
                       penalty |-> penalty]
      <4>1. r \in RunRecord
        BY <2>3
      <4>2. repRuns \in Seq(RunRecord)
        BY DEF TypeOK
      <4> HIDE DEF r
      <4> QED BY <3>2, <2>1, <4>1, <4>2 DEF r
    <3> QED BY <1>6, <3>1, <3>2 DEF Measure
  <2>5. /\ UNCHANGED <<rep, order, runs, failed, container, baseline, active, auto, analysis>>
        /\ data' = "touched" /\ faults' \in 0 .. MaxFaults
    BY <1>6, <1>f DEF Measure
  <2>6. repRuns' \in Seq(RunRecord) /\ Len(repRuns') <= Len(Arms)
    BY <2>1, <2>4 DEF TypeOK
  <2>7. TypeOK'
    BY <2>4, <2>5, <2>6 DEF TypeOK, analysis
  <2>8. PositionInv'
    BY <2>1, <2>4, <2>5 DEF PositionInv, Early, InRun
  <2> QED BY <2>7, <2>8
<1>7. CASE Teardown \/ Interrupt
  BY <1>7, <1>f DEF Teardown, Interrupt, Cleaned, record, server, analysis, TypeOK,
     PositionInv, Early, InRun
<1>8. CASE NextArm
  BY <1>8, <1>f DEF NextArm, server, analysis, TypeOK, PositionInv, Early, InRun
<1>9. CASE KeepRep
  <2>1. ASSUME NEW a \in ArmSet PROVE Append(runs[a], repRuns[OrderOf(a)]) \in Seq(RunRecord)
    <3>1. OrderOf(a) \in 1 .. Len(repRuns)
      BY <1>9 DEF KeepRep, PositionInv
    <3> QED BY <3>1 DEF TypeOK
  <2>2. runs' \in [ArmSet -> Seq(RunRecord)]
    BY <1>9, <2>1 DEF KeepRep
  <2>3. rep \in 1 .. Repetitions
    BY <1>9 DEF KeepRep, PositionInv
  <2>4. /\ pc' \in {"raised", "analyse", "recreate"}
        /\ pc' = "recreate" => rep + 1 \in 1 .. Repetitions
    BY <1>9, <2>3 DEF KeepRep, AfterRep, AfterLast
  <2>5. /\ rep' = rep + 1 /\ order' = 1 /\ repRuns' = <<>> /\ failed' \in {failed, failed + 1}
        /\ UNCHANGED <<server, analysis>> /\ faults' \in 0 .. MaxFaults
    BY <1>9, <1>f DEF KeepRep, StartRep
  <2>6. failed \in Nat /\ failed < rep
    BY DEF TypeOK, PositionInv
  <2>7. failed' \in 0 .. Repetitions /\ failed' < rep'
    BY <2>3, <2>5, <2>6
  <2>9. TypeOK'
    <3>1. repRuns' \in Seq(RunRecord) /\ Len(repRuns') <= Len(Arms)
      BY <2>5
    <3>2. rep' \in 1 .. Repetitions + 1 /\ order' \in 1 .. Len(Arms) + 1
      BY <2>3, <2>5
    <3>3. /\ data' \in {None, "pristine", "touched"} /\ container' \in BOOLEAN
          /\ baseline' \in {None, "pristine", "touched"}
          /\ active' \in ArmSet \cup {Partial} /\ auto' \in ArmSet \cup {Partial}
          /\ resolved' \in Nat /\ rubric' \in Nat
          /\ outcome' \in [Endpoints -> PValues \cup {Degenerate}]
          /\ significant' \subseteq Endpoints
      BY <2>5 DEF TypeOK, server, analysis
    <3> QED BY <2>2, <2>4, <2>5, <2>7, <3>1, <3>2, <3>3 DEF TypeOK
  <2>10. PositionInv'
    BY <2>4, <2>5, <2>7 DEF PositionInv, Early, InRun
  <2> QED BY <2>9, <2>10
<1>10. CASE DropRep
  <2>3. rep \in 1 .. Repetitions
    BY <1>10 DEF DropRep, PositionInv
  <2>4. /\ pc' \in {"raised", "analyse", "recreate"}
        /\ pc' = "recreate" => rep + 1 \in 1 .. Repetitions
    BY <1>10, <2>3 DEF DropRep, AfterRep, AfterLast
  <2>5. /\ rep' = rep + 1 /\ order' = 1 /\ repRuns' = <<>> /\ failed' \in {failed, failed + 1}
        /\ UNCHANGED <<server, analysis>> /\ faults' \in 0 .. MaxFaults
    BY <1>10, <1>f DEF DropRep, StartRep
  <2>6. failed \in Nat /\ failed < rep
    BY DEF TypeOK, PositionInv
  <2>7. failed' \in 0 .. Repetitions /\ failed' < rep'
    BY <2>3, <2>5, <2>6
  <2>8. runs' \in [ArmSet -> Seq(RunRecord)]
    BY <1>10 DEF DropRep, TypeOK
  <2>9. TypeOK'
    <3>1. repRuns' \in Seq(RunRecord) /\ Len(repRuns') <= Len(Arms)
      BY <2>5
    <3>2. rep' \in 1 .. Repetitions + 1 /\ order' \in 1 .. Len(Arms) + 1
      BY <2>3, <2>5
    <3>3. /\ data' \in {None, "pristine", "touched"} /\ container' \in BOOLEAN
          /\ baseline' \in {None, "pristine", "touched"}
          /\ active' \in ArmSet \cup {Partial} /\ auto' \in ArmSet \cup {Partial}
          /\ resolved' \in Nat /\ rubric' \in Nat
          /\ outcome' \in [Endpoints -> PValues \cup {Degenerate}]
          /\ significant' \subseteq Endpoints
      BY <2>5 DEF TypeOK, server, analysis
    <3> QED BY <2>8, <2>4, <2>5, <2>7, <3>1, <3>2, <3>3 DEF TypeOK
  <2>10. PositionInv'
    BY <2>4, <2>5, <2>7 DEF PositionInv, Early, InRun
  <2> QED BY <2>9, <2>10
<1>11. CASE Analyse \/ Save \/ SaveRaises
  BY <1>11, <1>f DEF Analyse, Save, SaveRaises, Tested, record, server, analysis, TypeOK,
     PositionInv, Early, InRun
<1>12. CASE UNCHANGED vars
  BY <1>12 DEF vars, TypeOK, PositionInv
<1> QED BY <1>1, <1>2, <1>3, <1>4, <1>5, <1>6, <1>7, <1>8, <1>9, <1>10, <1>11, <1>12 DEF Next

(* Every variable keeps its type, whatever fails and however often.        *)
THEOREM TypeCorrect == Spec => []TypeOK
<1>1. Init => TypeInv
  BY InitType
<1>2. TypeInv /\ [Next]_vars => TypeInv'
  BY NextType
<1>3. TypeInv => TypeOK
  BY DEF TypeInv
<1> QED BY <1>1, <1>2, <1>3, PTL DEF Spec

-----------------------------------------------------------------------------
(* The kept runs, for every arm the same repetitions.                      *)

\* What the runs of the present repetition have in common.
OfRep(r) == r.run_number = rep /\ r.pair_seed = rep - 1 /\ r.warmup = rubric
RepInv == \A k \in 1 .. Len(repRuns) : OfRep(repRuns[k])

\* The i-th run of two arms, and two runs of one arm.
SamePair(r, q) == r.run_number = q.run_number /\ r.pair_seed = q.pair_seed
KeptInv ==
    /\ \A a \in ArmSet : Len(runs[a]) = rep - 1 - failed
    /\ \A a \in ArmSet : \A i \in 1 .. Len(runs[a]) :
          runs[a][i].run_number < rep /\ runs[a][i].warmup = rubric
    /\ \A a, b \in ArmSet : \A i \in 1 .. Len(runs[a]) : SamePair(runs[a][i], runs[b][i])
    /\ \A a \in ArmSet : \A i, j \in 1 .. Len(runs[a]) :
          i < j => runs[a][i].run_number < runs[a][j].run_number
CountInv ==
    /\ rubric = OrDefault(resolved)
    /\ pc # "raised" => 2 * failed <= Repetitions
    /\ pc \in {"analyse", "save", "done"} => rep = Repetitions + 1
RunsInv == TypeInv /\ RepInv /\ KeptInv /\ CountInv

LEMMA InitRuns == Init => RunsInv
<1> SUFFICES ASSUME Init PROVE RunsInv
  OBVIOUS
<1>1. TypeInv
  BY InitType
<1>2. Len(repRuns) = 0 /\ \A a \in ArmSet : Len(runs[a]) = 0
  BY DEF Init
<1>3. rep = 1 /\ failed = 0 /\ pc = "load" /\ resolved = DefaultWarmup /\ rubric = DefaultWarmup
  BY DEF Init
<1>4. CountInv
  BY <1>3, ConstantsType DEF CountInv, OrDefault
<1>5. RepInv /\ KeptInv
  BY <1>2, <1>3 DEF RepInv, KeptInv
<1> QED BY <1>1, <1>4, <1>5 DEF RunsInv

\* A step that leaves the record and the rubric alone.
LEMMA RunsFrame ==
  ASSUME RunsInv, TypeInv', UNCHANGED <<rep, repRuns, runs, failed, resolved, rubric>>,
         pc' # "raised" => pc # "raised",
         pc' \in {"analyse", "save", "done"} => pc \in {"analyse", "save", "done"}
  PROVE  RunsInv'
<1>1. RepInv'
  BY DEF RunsInv, RepInv, OfRep
<1>2. KeptInv'
  BY DEF RunsInv, KeptInv, SamePair
<1>3. CountInv'
  BY DEF RunsInv, CountInv, OrDefault
<1> QED BY <1>1, <1>2, <1>3 DEF RunsInv

LEMMA ResolveRuns == RunsInv /\ TypeInv' /\ ResolveParameters => RunsInv'
<1> SUFFICES ASSUME RunsInv, TypeInv', ResolveParameters PROVE RunsInv'
  OBVIOUS
<1>1. Len(repRuns) = 0 /\ rep = 1 /\ failed = 0
  BY DEF RunsInv, TypeInv, TypeOK, PositionInv, Early, ResolveParameters
<1>2. /\ UNCHANGED <<rep, repRuns, runs, failed>> /\ rubric' = OrDefault(resolved')
      /\ pc' = "docker" /\ pc = "resolve"
  BY DEF ResolveParameters, record, RubricWarmup, Goto
<1>3. \A a \in ArmSet : Len(runs[a]) = 0
  BY <1>1 DEF RunsInv, KeptInv
<1>4. RepInv' /\ KeptInv'
  BY <1>1, <1>2, <1>3 DEF RepInv, KeptInv
<1>5. CountInv'
  BY <1>2 DEF RunsInv, CountInv
<1> QED BY <1>4, <1>5 DEF RunsInv

LEMMA MeasureRuns == RunsInv /\ TypeInv' /\ Measure => RunsInv'
<1> SUFFICES ASSUME RunsInv, TypeInv', Measure PROVE RunsInv'
  OBVIOUS
<1>1. /\ UNCHANGED <<rep, runs, failed, resolved, rubric>>
      /\ pc = "measure" /\ pc' \in {"teardown", "raised_in_run"}
  BY DEF Measure, analysis, Goto
<1>2. KeptInv' /\ CountInv'
  BY <1>1 DEF RunsInv, KeptInv, CountInv, SamePair, OrDefault
<1>3. RepInv'
  <2>1. CASE repRuns' = repRuns
    BY <1>1, <2>1 DEF RunsInv, RepInv, OfRep
  <2>2. ASSUME NEW r, OfRep(r), repRuns' = Append(repRuns, r) PROVE RepInv'
    <3>1. repRuns \in Seq(RunRecord)
      BY DEF RunsInv, TypeInv, TypeOK
    <3>2. /\ Len(repRuns') = Len(repRuns) + 1 /\ repRuns'[Len(repRuns) + 1] = r
          /\ \A k \in 1 .. Len(repRuns) : repRuns'[k] = repRuns[k]
          /\ Len(repRuns) \in Nat
      BY <2>2, <3>1
    <3>3. \A k \in 1 .. Len(repRuns') : OfRep(repRuns'[k])
      BY <2>2, <3>2 DEF RunsInv, RepInv
    <3> QED BY <3>3, <1>1 DEF RepInv, OfRep
  <2>3. ASSUME NEW penalty \in BOOLEAN
        PROVE  OfRep([run_number |-> rep, pair_seed |-> Seed, data |-> data, active |-> active,
                      warmup |-> MeasuredWarmup(resolved), penalty |-> penalty])
    BY DEF OfRep, Seed, MeasuredWarmup, RunsInv, CountInv
  <2> QED BY <2>1, <2>2, <2>3 DEF Measure
<1> QED BY <1>2, <1>3 DEF RunsInv

LEMMA HalfOf == \A f \in Nat : f <= Repetitions \div 2 => 2 * f <= Repetitions
  BY ConstantsType

LEMMA DropRuns == RunsInv /\ TypeInv' /\ DropRep => RunsInv'
<1> SUFFICES ASSUME RunsInv, TypeInv', DropRep PROVE RunsInv'
  OBVIOUS
<1>1. rep \in 1 .. Repetitions /\ failed \in Nat /\ Repetitions \in Nat
  BY ConstantsType DEF RunsInv, TypeInv, TypeOK, PositionInv, DropRep
<1>2. /\ rep' = rep + 1 /\ failed' = failed + 1 /\ repRuns' = <<>>
      /\ UNCHANGED <<runs, resolved, rubric>>
  BY DEF DropRep, StartRep, analysis
<1>3. RepInv'
  BY <1>2 DEF RepInv
<1>4. KeptInv'
  <2>1. ASSUME NEW a \in ArmSet, NEW i \in 1 .. Len(runs[a]) PROVE runs[a][i].run_number < rep + 1
    <3>0. runs \in [ArmSet -> Seq(RunRecord)]
      BY DEF RunsInv, TypeInv, TypeOK
    <3>1. runs[a][i] \in RunRecord
      BY <3>0
    <3>2. runs[a][i].run_number \in Nat
      BY <3>1, <1>1 DEF RunRecord
    <3> QED BY <3>2, <1>1 DEF RunsInv, KeptInv
  <2>2. \A a \in ArmSet : Len(runs[a]) = (rep + 1) - 1 - (failed + 1)
    BY <1>1 DEF RunsInv, KeptInv
  <2> QED BY <1>2, <2>1, <2>2 DEF RunsInv, KeptInv, SamePair
<1>5. CountInv'
  <2>1. pc' # "raised" => 2 * failed' <= Repetitions
    BY <1>1, <1>2, HalfOf DEF DropRep, Goto
  <2>2. pc' = "analyse" => rep = Repetitions
    BY DEF DropRep, Goto, AfterRep
  <2>3. pc' \notin {"save", "done"}
    BY DEF DropRep, Goto, AfterRep, AfterLast
  <2> QED BY <2>1, <2>2, <2>3, <1>2 DEF CountInv, OrDefault, RunsInv
<1> QED BY <1>3, <1>4, <1>5 DEF RunsInv

LEMMA KeepRuns == RunsInv /\ TypeInv' /\ KeepRep => RunsInv'
<1> SUFFICES ASSUME RunsInv, TypeInv', KeepRep PROVE RunsInv'
  OBVIOUS
<1> DEFINE last(a) == repRuns[OrderOf(a)]
<1>1. rep \in 1 .. Repetitions /\ failed \in Nat /\ Repetitions \in Nat
  BY ConstantsType DEF RunsInv, TypeInv, TypeOK, PositionInv, KeepRep
<1>2. /\ rep' = rep + 1 /\ repRuns' = <<>> /\ UNCHANGED <<failed, resolved, rubric>>
      /\ runs' = [a \in ArmSet |-> Append(runs[a], last(a))]
  BY DEF KeepRep, StartRep, analysis
<1>3. RepInv'
  BY <1>2 DEF RepInv
<1>4. \A a \in ArmSet : OfRep(last(a))
  <2>1. Len(repRuns) = Len(Arms)
    BY DEF KeepRep, RunsInv, TypeInv, PositionInv
  <2> QED BY <2>1, ArmsFacts DEF RunsInv, RepInv
<1> DEFINE n == rep - 1 - failed
<1>5. ASSUME NEW a \in ArmSet
      PROVE  /\ n \in Nat /\ Len(runs[a]) = n /\ Len(runs'[a]) = n + 1
             /\ runs'[a][n + 1] = last(a)
             /\ \A i \in 1 .. n : runs'[a][i] = runs[a][i]
             /\ \A i \in 1 .. n : runs[a][i].run_number \in Nat
  <2>1. runs[a] \in Seq(RunRecord) /\ Len(runs[a]) = n
    BY DEF RunsInv, TypeInv, TypeOK, KeptInv
  <2>2. runs'[a] = Append(runs[a], last(a))
    BY <1>2
  <2>3. \A i \in 1 .. n : runs[a][i] \in RunRecord
    BY <2>1
  <2>4. \A i \in 1 .. n : runs[a][i].run_number \in Nat
    BY <2>3, <1>1 DEF RunRecord
  <2> HIDE DEF n, last
  <2> QED BY <2>1, <2>2, <2>4
<1>6. \A i \in 1 .. n + 1 : i \in 1 .. n \/ i = n + 1
  BY <1>1
<1>7. ASSUME NEW a \in ArmSet, NEW i \in 1 .. n + 1
      PROVE  runs'[a][i].run_number < rep + 1 /\ runs'[a][i].warmup = rubric
  <2>1. CASE i \in 1 .. n
    <3>1. runs[a][i].run_number < rep /\ runs[a][i].warmup = rubric
      BY <1>5, <2>1 DEF RunsInv, KeptInv
    <3> HIDE DEF n
    <3> QED BY <1>1, <1>5, <2>1, <3>1
  <2>2. CASE i = n + 1
    <3>1. runs'[a][i] = last(a) /\ OfRep(last(a))
      BY <1>4, <1>5, <2>2
    <3>2. rep < rep + 1
      BY <1>1
    <3> HIDE DEF last
    <3> QED BY <3>1, <3>2 DEF OfRep
  <2> QED BY <1>6, <2>1, <2>2
<1>8. ASSUME NEW a \in ArmSet, NEW b \in ArmSet, NEW i \in 1 .. n + 1
      PROVE  SamePair(runs'[a][i], runs'[b][i])
  <2>1. CASE i \in 1 .. n
    <3>1. SamePair(runs[a][i], runs[b][i])
      BY <1>5, <2>1 DEF RunsInv, KeptInv
    <3> QED BY <1>5, <2>1, <3>1
  <2>2. CASE i = n + 1
    BY <1>4, <1>5, <2>2 DEF OfRep, SamePair
  <2> QED BY <1>6, <2>1, <2>2
<1>9. ASSUME NEW a \in ArmSet, NEW i \in 1 .. n + 1, NEW j \in 1 .. n + 1, i < j
      PROVE  runs'[a][i].run_number < runs'[a][j].run_number
  <2>1. i \in 1 .. n
    BY <1>5, <1>9
  <2>2. CASE j \in 1 .. n
    BY <1>5, <1>9, <2>1, <2>2 DEF RunsInv, KeptInv
  <2>3. CASE j = n + 1
    <3>1. runs[a][i].run_number < rep
      BY <1>5, <2>1 DEF RunsInv, KeptInv
    <3> QED BY <1>4, <1>5, <2>1, <2>3, <3>1 DEF OfRep
  <2> QED BY <1>6, <2>2, <2>3
<1>10. KeptInv'
  <2>1. \A a \in ArmSet : Len(runs'[a]) = n + 1
    BY <1>5
  <2>2. n + 1 = (rep + 1) - 1 - failed
    BY <1>1
  <2> HIDE DEF n, last
  <2> QED BY <1>2, <1>7, <1>8, <1>9, <2>1, <2>2 DEF KeptInv
<1>11. CountInv'
  <2>1. pc = "next"
    BY DEF KeepRep
  <2>2. pc' \notin {"save", "done"} /\ (pc' = "analyse" => rep = Repetitions)
    BY DEF KeepRep, Goto, AfterRep, AfterLast
  <2> QED BY <2>1, <2>2, <1>2 DEF CountInv, OrDefault, RunsInv
<1> QED BY <1>3, <1>10, <1>11 DEF RunsInv

LEMMA NextRuns == RunsInv /\ [Next]_vars => RunsInv'
<1> SUFFICES ASSUME RunsInv, [Next]_vars PROVE RunsInv'
  OBVIOUS
<1>0. TypeInv'
  BY NextType DEF RunsInv
<1>1. CASE ResolveParameters
  BY <1>0, <1>1, ResolveRuns
<1>2. CASE Measure
  BY <1>0, <1>2, MeasureRuns
<1>3. CASE KeepRep
  BY <1>0, <1>3, KeepRuns
<1>4. CASE DropRep
  BY <1>0, <1>4, DropRuns
<1>5. CASE \/ LoadSessions \/ LoadRaises \/ DockerReady \/ DockerMissing
           \/ Recreate \/ RecreateFails \/ InitializeSchema \/ InitializeSchemaFails
           \/ Apply \/ Restart \/ Teardown \/ Interrupt \/ NextArm
  <2>1. /\ UNCHANGED <<rep, repRuns, runs, failed, resolved, rubric>> /\ pc # "raised"
        /\ pc' \notin {"analyse", "save", "done"}
    BY <1>5 DEF LoadSessions, LoadRaises, DockerReady, DockerMissing, Recreate, RecreateFails,
       InitializeSchema, InitializeSchemaFails, Apply, Restart, Teardown, Interrupt, NextArm,
       Goto, record, analysis
  <2> QED BY <1>0, <2>1, RunsFrame
<1>6. CASE Analyse \/ Save \/ SaveRaises
  <2>1. /\ UNCHANGED <<rep, repRuns, runs, failed, resolved, rubric>>
        /\ pc \in {"analyse", "save", "done"}
    BY <1>6 DEF Analyse, Save, SaveRaises, Goto, record, analysis
  <2> QED BY <1>0, <2>1, RunsFrame
<1>7. CASE UNCHANGED vars
  <2>1. UNCHANGED <<rep, repRuns, runs, failed, resolved, rubric, pc>>
    BY <1>7 DEF vars
  <2> QED BY <1>0, <2>1, RunsFrame
<1> QED BY <1>1, <1>2, <1>3, <1>4, <1>5, <1>6, <1>7 DEF Next

LEMMA RunsAligned == RunsInv => PairsAligned
<1> SUFFICES ASSUME RunsInv PROVE PairsAligned
  OBVIOUS
<1>1. \A a \in ArmSet : /\ runs[a] \in Seq(RunRecord) /\ DOMAIN runs[a] = 1 .. Len(runs[a])
                         /\ Len(runs[a]) = rep - 1 - failed
  <2>1. \A a \in ArmSet : runs[a] \in Seq(RunRecord)
    BY DEF RunsInv, TypeInv, TypeOK
  <2> QED BY <2>1 DEF RunsInv, KeptInv
<1>2. ASSUME NEW a \in ArmSet, NEW b \in ArmSet PROVE PairKeys(runs[a]) = PairKeys(runs[b])
  <2>1. DOMAIN runs[a] = DOMAIN runs[b]
    BY <1>1
  <2>2. \A i \in DOMAIN runs[a] : SamePair(runs[a][i], runs[b][i])
    BY <1>1 DEF RunsInv, KeptInv
  <2> QED BY <2>1, <2>2 DEF PairKeys, SamePair
<1>3. \A a \in ArmSet : \A i, j \in DOMAIN runs[a] :
        i < j => runs[a][i].run_number < runs[a][j].run_number
  BY <1>1 DEF RunsInv, KeptInv
<1>4. ASSUME pc \in {"analyse", "save", "done"}, NEW a \in ArmSet
      PROVE  2 * Len(runs[a]) >= Repetitions
  <2>1. failed \in Nat /\ Repetitions \in Nat
    BY ConstantsType DEF RunsInv, TypeInv, TypeOK
  <2>2. 2 * failed <= Repetitions /\ rep = Repetitions + 1
    BY <1>4 DEF RunsInv, CountInv
  <2> QED BY <1>1, <2>1, <2>2
<1> QED BY <1>2, <1>3, <1>4 DEF PairsAligned

(* Whatever fails, a result compares the same repetitions with the same    *)
(* seeds for every arm, and at least half of those asked for.              *)
THEOREM PairsStayAligned == Spec => []PairsAligned
<1>1. Init => RunsInv
  BY InitRuns
<1>2. RunsInv /\ [Next]_vars => RunsInv'
  BY NextRuns
<1>3. RunsInv => PairsAligned
  BY RunsAligned
<1> QED BY <1>1, <1>2, <1>3, PTL DEF Spec

(* The warm-up that is reported is the one every kept run was given.       *)
THEOREM RubricStaysTrue == Spec => []RubricMatchesRuns
<1>1. Init => RunsInv
  BY InitRuns
<1>2. RunsInv /\ [Next]_vars => RunsInv'
  BY NextRuns
<1>3. RunsInv => RubricMatchesRuns
  <2>1. SUFFICES ASSUME RunsInv, NEW a \in ArmSet, NEW i \in DOMAIN runs[a]
                 PROVE  runs[a][i].warmup = rubric
    BY DEF RubricMatchesRuns
  <2>2. runs \in [ArmSet -> Seq(RunRecord)]
    BY <2>1 DEF RunsInv, TypeInv, TypeOK
  <2>3. DOMAIN runs[a] = 1 .. Len(runs[a])
    BY <2>2
  <2> QED BY <2>1, <2>3 DEF RunsInv, KeptInv
<1> QED BY <1>1, <1>2, <1>3, PTL DEF Spec

-----------------------------------------------------------------------------
(* What a run finds, as long as an old PGDATA can be removed.              *)

\* The knobs that may be active when an arm is measured.
OwnKnobs(a, knobs) == knobs \in {a, Partial} /\ (a = Untuned => knobs = Untuned)
Clean(a, r) == r.data = "pristine" /\ OwnKnobs(a, r.active)

CleanInv ==
    /\ baseline \in {None, "pristine"}
    /\ pc = "schema" => data = None /\ auto = Untuned /\ active = Untuned
    /\ pc \in {"apply", "restart", "measure"} => data = "pristine"
    /\ pc \in {"apply", "restart"} => Arms[order] # Untuned
    /\ pc = "restart" => auto \in {Arms[order], Partial}
    /\ pc = "measure" => OwnKnobs(Arms[order], active)
KeptClean ==
    /\ \A k \in 1 .. Len(repRuns) : Clean(Arms[k], repRuns[k])
    /\ \A a \in ArmSet : \A i \in 1 .. Len(runs[a]) : Clean(a, runs[a][i])
ServerInv == TypeInv /\ CleanInv /\ KeptClean

LEMMA InitServer == Init => ServerInv
<1> SUFFICES ASSUME Init PROVE ServerInv
  OBVIOUS
<1>1. TypeInv
  BY InitType
<1>2. Len(repRuns) = 0 /\ \A a \in ArmSet : Len(runs[a]) = 0
  BY DEF Init
<1>3. CleanInv
  BY DEF Init, CleanInv
<1>4. KeptClean
  BY <1>2 DEF KeptClean
<1> QED BY <1>1, <1>3, <1>4 DEF ServerInv

LEMMA ServerStep ==
  ASSUME ~RemovalCanFail, ServerInv, TypeInv',
         \/ LoadSessions \/ LoadRaises \/ DockerReady \/ DockerMissing
         \/ ResolveParameters \/ Recreate \/ RecreateFails
         \/ InitializeSchema \/ InitializeSchemaFails
         \/ Apply \/ Restart \/ Teardown \/ Interrupt \/ NextArm
         \/ Analyse \/ Save \/ SaveRaises
  PROVE  ServerInv'
<1>1. UNCHANGED <<repRuns, runs>>
  BY DEF LoadSessions, LoadRaises, DockerReady, DockerMissing, ResolveParameters, Recreate,
     RecreateFails, InitializeSchema, InitializeSchemaFails, Apply, Restart, Teardown,
     Interrupt, NextArm, Analyse, Save, SaveRaises, record
<1>2. KeptClean'
  BY <1>1 DEF ServerInv, KeptClean, Clean, OwnKnobs
<1>3. CleanInv'
  <2> USE DEF ServerInv, CleanInv, Goto
  <2>1. CASE \/ LoadSessions \/ LoadRaises \/ DockerReady \/ DockerMissing
             \/ ResolveParameters \/ NextArm \/ Analyse \/ Save \/ SaveRaises
    BY <2>1 DEF LoadSessions, LoadRaises, DockerReady, DockerMissing, ResolveParameters,
       NextArm, Analyse, Save, SaveRaises, server
  <2>2. CASE Recreate \/ RecreateFails
    BY <2>2 DEF Recreate, RecreateFails, RemovedBaseline
  <2>3. CASE InitializeSchema
    <3>1. Restored(data, baseline) = "pristine"
      BY <2>3 DEF InitializeSchema, Restored
    <3>2. order' = order /\ pc' \in {"measure", "apply"}
      BY <2>3 DEF InitializeSchema, record
    <3> QED BY <2>3, <3>1, <3>2 DEF InitializeSchema, OwnKnobs
  <2>4. CASE InitializeSchemaFails
    BY <2>4 DEF InitializeSchemaFails
  <2>5. CASE Apply \/ Restart
    BY <2>5 DEF Apply, Restart, OwnKnobs, record
  <2>6. CASE Teardown \/ Interrupt
    BY <2>6 DEF Teardown, Interrupt, server
  <2> QED BY <2>1, <2>2, <2>3, <2>4, <2>5, <2>6
<1> QED BY <1>2, <1>3 DEF ServerInv

LEMMA ServerMeasure == ServerInv /\ TypeInv' /\ Measure => ServerInv'
<1> SUFFICES ASSUME ServerInv, TypeInv', Measure PROVE ServerInv'
  OBVIOUS
<1>1. /\ UNCHANGED <<runs, baseline>> /\ pc' \in {"teardown", "raised_in_run"}
      /\ Len(repRuns) = order - 1 /\ order \in 1 .. Len(Arms)
  BY DEF Measure, Goto, ServerInv, TypeInv, PositionInv, InRun
<1>2. CleanInv'
  BY <1>1 DEF ServerInv, CleanInv
<1>3. ASSUME NEW r, Clean(Arms[order], r), repRuns' = Append(repRuns, r)
      PROVE  \A k \in 1 .. Len(repRuns') : Clean(Arms[k], repRuns'[k])
  <2>1. repRuns \in Seq(RunRecord)
    BY DEF ServerInv, TypeInv, TypeOK
  <2>2. /\ Len(repRuns') = order /\ repRuns'[order] = r
        /\ \A k \in 1 .. order - 1 : repRuns'[k] = repRuns[k]
    BY <1>1, <1>3, <2>1
  <2> QED BY <1>1, <1>3, <2>2 DEF ServerInv, KeptClean
<1>4. ASSUME NEW penalty \in BOOLEAN
      PROVE  Clean(Arms[order],
                   [run_number |-> rep, pair_seed |-> Seed, data |-> data, active |-> active,
                    warmup |-> MeasuredWarmup(resolved), penalty |-> penalty])
  BY DEF Clean, ServerInv, CleanInv, Measure
<1>5. \A k \in 1 .. Len(repRuns') : Clean(Arms[k], repRuns'[k])
  <2>1. CASE repRuns' = repRuns
    BY <2>1 DEF ServerInv, KeptClean
  <2> QED BY <1>3, <1>4, <2>1 DEF Measure
<1>6. KeptClean'
  BY <1>1, <1>5 DEF ServerInv, KeptClean, Clean, OwnKnobs
<1> QED BY <1>2, <1>6 DEF ServerInv

LEMMA ServerEndOfRep == ServerInv /\ TypeInv' /\ (KeepRep \/ DropRep) => ServerInv'
<1> SUFFICES ASSUME ServerInv, TypeInv', KeepRep \/ DropRep PROVE ServerInv'
  OBVIOUS
<1>1. /\ repRuns' = <<>> /\ UNCHANGED <<baseline, data, auto, active>>
      /\ pc' \in {"raised", "analyse", "recreate"}
  BY DEF KeepRep, DropRep, StartRep, server, Goto, AfterRep, AfterLast
<1>2. CleanInv'
  BY <1>1 DEF ServerInv, CleanInv
<1>3. CASE DropRep
  <2>1. runs' = runs
    BY <1>3 DEF DropRep
  <2> QED BY <1>1, <1>2, <2>1 DEF ServerInv, KeptClean, Clean, OwnKnobs
<1>4. CASE KeepRep
  <2>1. ASSUME NEW a \in ArmSet, NEW i \in 1 .. Len(runs'[a]) PROVE Clean(a, runs'[a][i])
    <3> DEFINE r == repRuns[OrderOf(a)]
    <3>1. Clean(a, r)
      <4>1. OrderOf(a) \in 1 .. Len(repRuns) /\ Arms[OrderOf(a)] = a
        BY <1>4, ArmsFacts DEF KeepRep, ServerInv, TypeInv, PositionInv
      <4> QED BY <4>1 DEF ServerInv, KeptClean
    <3>2. runs'[a] = Append(runs[a], r)
      BY <1>4 DEF KeepRep
    <3>3. runs \in [ArmSet -> Seq(RunRecord)]
      BY DEF ServerInv, TypeInv, TypeOK
    <3>4. runs[a] \in Seq(RunRecord)
      BY <3>3
    <3> HIDE DEF r
    <3>5. \/ i \in 1 .. Len(runs[a]) /\ runs'[a][i] = runs[a][i]
          \/ runs'[a][i] = r
      BY <3>2, <3>4
    <3> QED BY <3>1, <3>5 DEF ServerInv, KeptClean
  <2> QED BY <1>1, <1>2, <2>1 DEF ServerInv, KeptClean, Clean, OwnKnobs
<1> QED BY <1>3, <1>4

(* When the removal of an old PGDATA never fails, a run that is kept was   *)
(* measured on data no earlier run had touched and without another arm's   *)
(* knobs, whatever else failed.                                            *)
THEOREM RunsStayIsolated == ASSUME ~RemovalCanFail PROVE Spec => []RunsAreIsolated
<1>1. Init => ServerInv
  BY InitServer
<1>2. ServerInv /\ [Next]_vars => ServerInv'
  <2> SUFFICES ASSUME ServerInv, [Next]_vars PROVE ServerInv'
    OBVIOUS
  <2>1. TypeInv'
    BY NextType DEF ServerInv
  <2>2. CASE UNCHANGED vars
    BY <2>1, <2>2 DEF vars, ServerInv, CleanInv, KeptClean, Clean, OwnKnobs
  <2>3. CASE Measure
    BY <2>1, <2>3, ServerMeasure
  <2>4. CASE KeepRep \/ DropRep
    BY <2>1, <2>4, ServerEndOfRep
  <2> QED BY <2>1, <2>2, <2>3, <2>4, ServerStep DEF Next
<1>3. ServerInv => RunsAreIsolated
  <2>1. SUFFICES ASSUME ServerInv, NEW a \in ArmSet, NEW i \in DOMAIN runs[a]
                 PROVE  Clean(a, runs[a][i])
    BY DEF RunsAreIsolated, Clean, OwnKnobs
  <2>2. runs \in [ArmSet -> Seq(RunRecord)]
    BY <2>1 DEF ServerInv, TypeInv, TypeOK
  <2>3. DOMAIN runs[a] = 1 .. Len(runs[a])
    BY <2>2
  <2> QED BY <2>1, <2>3 DEF ServerInv, KeptClean
<1> QED BY <1>1, <1>2, <1>3, PTL DEF Spec

-----------------------------------------------------------------------------
(* Sets of naturals have a least element, bounded ones a greatest.         *)

LEMMA NatMin ==
  ASSUME NEW S \in SUBSET Nat, S # {}
  PROVE  \E x \in S : \A y \in S : x <= y
<1>1. \E x \in S : \A y \in S : ~(<<y, x>> \in OpToRel(<, Nat))
  BY NatLessThanWellFounded, WFMin
<1>2. PICK x \in S : \A y \in S : ~(<<y, x>> \in OpToRel(<, Nat))
  BY <1>1
<1>3. \A y \in S : ~(y < x)
  BY <1>2 DEF OpToRel
<1> QED BY <1>3

LEMMA NatMax ==
  ASSUME NEW S \in SUBSET Nat, S # {}, \E n \in Nat : \A x \in S : x <= n
  PROVE  \E x \in S : \A y \in S : x >= y
<1> PICK n \in Nat : \A x \in S : x <= n
  OBVIOUS
<1> DEFINE D == {n - x : x \in S}
<1>1. D \in SUBSET Nat /\ D # {}
  <2>1. \A x \in S : x \in Nat /\ n - x \in Nat
    OBVIOUS
  <2> QED BY <2>1
<1>2. PICK d \in D : \A y \in D : d <= y
  <2> HIDE DEF D
  <2> QED BY <1>1, NatMin
<1>3. PICK x \in S : d = n - x
  BY <1>2
<1>4. ASSUME NEW y \in S PROVE x >= y
  <2>1. d <= n - y
    BY <1>2
  <2> QED BY <1>3, <2>1
<1> QED BY <1>4

-----------------------------------------------------------------------------
(* Induction, with a set for the property, and sums over finite sets.      *)

LEMMA NumbersInduction ==
  ASSUME NEW G, 0 \in G, \A n \in Nat : n \in G => n + 1 \in G
  PROVE  Nat \subseteq G
<1> SUFFICES ASSUME Nat \ G # {} PROVE FALSE
  OBVIOUS
<1> DEFINE B == Nat \ G
<1>1. PICK n \in B : \A m \in B : n <= m
  <2>1. B \in SUBSET Nat /\ B # {}
    OBVIOUS
  <2> HIDE DEF B
  <2> QED BY <2>1, NatMin
<1>2. n # 0
  OBVIOUS
<1>3. n - 1 \in Nat /\ n - 1 \in G
  BY <1>1, <1>2
<1>4. n - 1 + 1 \in G
  BY <1>3
<1> QED BY <1>1, <1>4

\* What holds of a set when it holds of every set with one element less holds of all.
LEMMA RemovalInduction ==
  ASSUME NEW S, IsFiniteSet(S), NEW G,
         \A T \in SUBSET S : (\A x \in T : T \ {x} \in G) => T \in G
  PROVE  SUBSET S \subseteq G
<1> SUFFICES ASSUME NEW U \in SUBSET S, U \notin G PROVE FALSE
  OBVIOUS
<1> DEFINE B == {T \in SUBSET S : T \notin G}
           N == {Cardinality(T) : T \in B}
<1>1. \A T \in SUBSET S : IsFiniteSet(T) /\ Cardinality(T) \in Nat
  BY FS_Subset, FS_CardinalityType
<1>2. PICK n \in N : \A m \in N : n <= m
  <2>1. N \in SUBSET Nat /\ N # {}
    BY <1>1
  <2> HIDE DEF N
  <2> QED BY <2>1, NatMin
<1>3. PICK T \in SUBSET S : T \notin G /\ Cardinality(T) = n
  BY <1>2
<1>4. ASSUME NEW x \in T PROVE T \ {x} \in G
  <2>1. Cardinality(T \ {x}) = Cardinality(T) - 1
    BY <1>1, <1>3, FS_RemoveElement
  <2>2. SUFFICES ASSUME T \ {x} \notin G PROVE FALSE
    OBVIOUS
  <2>3. n <= Cardinality(T \ {x})
    BY <1>2, <2>2
  <2> QED BY <1>1, <1>3, <2>1, <2>3
<1> QED BY <1>3, <1>4

\* The sum of f over S.
Total(S, f) == MapThenSumSet(LAMBDA x : f[x], S)

Chosen(s) == CHOOSE x \in s : TRUE
IsSum(g, D, f) == g = [s \in D |-> IF s = {} THEN 0 ELSE f[Chosen(s)] + g[s \ {Chosen(s)}]]

LEMMA TotalIs ==
  ASSUME NEW S, NEW f
  PROVE  Total(S, f) = (CHOOSE g : IsSum(g, SUBSET S, f))[S]
BY DEF Total, MapThenSumSet, MapThenFoldSet, IsSum, Chosen

LEMMA SumsAgree ==
  ASSUME NEW S, IsFiniteSet(S), NEW f, NEW g, NEW h, NEW D, NEW E, IsSum(g, D, f), IsSum(h, E, f),
         SUBSET S \subseteq D, SUBSET S \subseteq E
  PROVE  g[S] = h[S]
<1> DEFINE G == {T \in SUBSET S : g[T] = h[T]}
<1>1. ASSUME NEW T \in SUBSET S, \A x \in T : T \ {x} \in G PROVE T \in G
  <2>1. T = {} \/ (Chosen(T) \in T /\ g[T \ {Chosen(T)}] = h[T \ {Chosen(T)}])
    BY <1>1 DEF Chosen
  <2>2. /\ g[T] = IF T = {} THEN 0 ELSE f[Chosen(T)] + g[T \ {Chosen(T)}]
        /\ h[T] = IF T = {} THEN 0 ELSE f[Chosen(T)] + h[T \ {Chosen(T)}]
    BY DEF IsSum
  <2> QED BY <2>1, <2>2
<1> HIDE DEF G
<1>2. SUBSET S \subseteq G
  BY <1>1, RemovalInduction
<1> QED BY <1>2 DEF G

LEMMA SumExists ==
  ASSUME NEW S, IsFiniteSet(S), NEW f
  PROVE  \E g : IsSum(g, SUBSET S, f)
<1> DEFINE D(n) == {s \in SUBSET S : Cardinality(s) <= n}
           G == {n \in Nat : \E g : IsSum(g, D(n), f)}
<1>1. \A s \in SUBSET S : IsFiniteSet(s) /\ Cardinality(s) \in Nat /\ Cardinality(s) <= Cardinality(S)
  BY FS_Subset, FS_CardinalityType
<1>2. 0 \in G
  <2>1. \A s \in D(0) : s = {}
    BY <1>1, FS_EmptySet
  <2>2. IsSum([s \in D(0) |-> 0], D(0), f)
    BY <2>1 DEF IsSum
  <2> QED BY <2>2
<1>3. ASSUME NEW n \in Nat, n \in G PROVE n + 1 \in G
  <2>1. PICK g : IsSum(g, D(n), f)
    BY <1>3
  <2> DEFINE h == [s \in D(n + 1) |-> IF s = {} THEN 0 ELSE f[Chosen(s)] + g[s \ {Chosen(s)}]]
  <2>2. ASSUME NEW s \in D(n + 1), s # {} PROVE h[s \ {Chosen(s)}] = g[s \ {Chosen(s)}]
    <3> DEFINE t == s \ {Chosen(s)}
    <3>1. Chosen(s) \in s
      BY <2>2 DEF Chosen
    <3>2. t \in SUBSET S /\ Cardinality(t) = Cardinality(s) - 1
      BY <1>1, <3>1, FS_RemoveElement
    <3>3. t \in D(n) /\ t \in D(n + 1)
      BY <1>1, <3>2
    <3> HIDE DEF t
    <3>4. h[t] = IF t = {} THEN 0 ELSE f[Chosen(t)] + g[t \ {Chosen(t)}]
      BY <3>3
    <3>5. g[t] = IF t = {} THEN 0 ELSE f[Chosen(t)] + g[t \ {Chosen(t)}]
      BY <2>1, <3>3 DEF IsSum
    <3> QED BY <3>4, <3>5 DEF t
  <2>3. IsSum(h, D(n + 1), f)
    <3> DEFINE k == [s \in D(n + 1) |-> IF s = {} THEN 0 ELSE f[Chosen(s)] + h[s \ {Chosen(s)}]]
    <3>1. \A s \in D(n + 1) : h[s] = k[s]
      BY <2>2
    <3>2. h = k
      BY <3>1
    <3> QED BY <3>2 DEF IsSum
  <2>4. n + 1 \in Nat
    OBVIOUS
  <2> HIDE DEF h, D
  <2>5. \E k : IsSum(k, D(n + 1), f)
    BY <2>3
  <2> QED BY <2>4, <2>5
<1> HIDE DEF G
<1>4. Cardinality(S) \in Nat /\ Cardinality(S) \in G
  BY <1>1, <1>2, <1>3, NumbersInduction
<1>5. D(Cardinality(S)) = SUBSET S
  BY <1>1
<1> QED BY <1>4, <1>5 DEF G

LEMMA TotalStep ==
  ASSUME NEW S, IsFiniteSet(S), NEW f
  PROVE  Total(S, f) = IF S = {} THEN 0 ELSE f[Chosen(S)] + Total(S \ {Chosen(S)}, f)
<1> DEFINE T == S \ {Chosen(S)}
           g == CHOOSE g : IsSum(g, SUBSET S, f)
           h == CHOOSE h : IsSum(h, SUBSET T, f)
<1>1. IsFiniteSet(T)
  BY FS_Subset
<1>2. IsSum(g, SUBSET S, f) /\ IsSum(h, SUBSET T, f)
  BY <1>1, SumExists
<1>3. Total(S, f) = g[S] /\ Total(T, f) = h[T]
  BY TotalIs
<1> HIDE DEF g, h
<1>4. g[T] = h[T]
  <2>1. SUBSET T \subseteq SUBSET S /\ SUBSET T \subseteq SUBSET T
    OBVIOUS
  <2> HIDE DEF T
  <2> QED BY <1>1, <1>2, <2>1, SumsAgree
<1>5. g[S] = IF S = {} THEN 0 ELSE f[Chosen(S)] + g[T]
  BY <1>2 DEF IsSum
<1> QED BY <1>3, <1>4, <1>5

LEMMA TotalType ==
  ASSUME NEW S, IsFiniteSet(S), NEW f, \A x \in S : f[x] \in Int
  PROVE  Total(S, f) \in Int
<1> DEFINE G == {T \in SUBSET S : Total(T, f) \in Int}
<1>1. ASSUME NEW T \in SUBSET S, \A x \in T : T \ {x} \in G PROVE T \in G
  <2>1. T = {} \/ (Chosen(T) \in T /\ Total(T \ {Chosen(T)}, f) \in Int)
    BY <1>1 DEF Chosen
  <2>2. Total(T, f) = IF T = {} THEN 0 ELSE f[Chosen(T)] + Total(T \ {Chosen(T)}, f)
    BY FS_Subset, TotalStep
  <2> QED BY <2>1, <2>2
<1> HIDE DEF G
<1>2. SUBSET S \subseteq G
  BY <1>1, RemovalInduction
<1> QED BY <1>2 DEF G

\* Any element may be taken out.
LEMMA TotalRemove ==
  ASSUME NEW S, IsFiniteSet(S), NEW f, \A x \in S : f[x] \in Int, NEW x \in S
  PROVE  Total(S, f) = f[x] + Total(S \ {x}, f)
<1> DEFINE G == {T \in SUBSET S : \A y \in T : Total(T, f) = f[y] + Total(T \ {y}, f)}
<1>1. ASSUME NEW T \in SUBSET S, \A y \in T : T \ {y} \in G PROVE T \in G
  <2> SUFFICES ASSUME NEW y \in T PROVE Total(T, f) = f[y] + Total(T \ {y}, f)
    OBVIOUS
  <2> DEFINE c == Chosen(T)
  <2>1. c \in T
    BY DEF Chosen
  <2>2. Total(T, f) = f[c] + Total(T \ {c}, f)
    BY FS_Subset, TotalStep
  <2> HIDE DEF c
  <2>3. CASE c = y
    BY <2>2, <2>3
  <2>4. CASE c # y
    <3>1. Total(T \ {c}, f) = f[y] + Total((T \ {c}) \ {y}, f)
      BY <1>1, <2>1, <2>4
    <3>2. Total(T \ {y}, f) = f[c] + Total((T \ {y}) \ {c}, f)
      BY <1>1, <2>1, <2>4
    <3>3. (T \ {c}) \ {y} = (T \ {y}) \ {c}
      OBVIOUS
    <3> DEFINE rest == Total((T \ {y}) \ {c}, f)
    <3>4. rest \in Int
      <4>1. IsFiniteSet((T \ {y}) \ {c})
        BY FS_Subset
      <4> QED BY <4>1, TotalType
    <3>5. f[c] \in Int /\ f[y] \in Int
      BY <2>1
    <3>6. Total(T \ {c}, f) = f[y] + rest /\ Total(T \ {y}, f) = f[c] + rest
      BY <3>1, <3>2, <3>3
    <3> HIDE DEF rest
    <3> QED BY <2>2, <3>4, <3>5, <3>6
  <2> QED BY <2>3, <2>4
<1> HIDE DEF G
<1>2. SUBSET S \subseteq G
  BY <1>1, RemovalInduction
<1> QED BY <1>2 DEF G

LEMMA TotalEmpty == \A f : Total({}, f) = 0
BY FS_EmptySet, TotalStep

LEMMA TotalSame ==
  ASSUME NEW S, IsFiniteSet(S), NEW f, NEW e, \A x \in S : f[x] \in Int /\ e[x] = f[x]
  PROVE  Total(S, e) = Total(S, f)
<1> DEFINE G == {T \in SUBSET S : Total(T, e) = Total(T, f)}
<1>1. ASSUME NEW T \in SUBSET S, \A x \in T : T \ {x} \in G PROVE T \in G
  <2>1. CASE T = {}
    BY <2>1, TotalEmpty
  <2>2. CASE T # {}
    <3>1. PICK x \in T : TRUE
      BY <2>2
    <3>2. Total(T, e) = e[x] + Total(T \ {x}, e) /\ Total(T, f) = f[x] + Total(T \ {x}, f)
      BY <3>1, FS_Subset, TotalRemove
    <3>3. Total(T \ {x}, e) = Total(T \ {x}, f) /\ e[x] = f[x]
      BY <1>1, <3>1
    <3> QED BY <3>2, <3>3
  <2> QED BY <2>1, <2>2
<1> HIDE DEF G
<1>2. SUBSET S \subseteq G
  BY <1>1, RemovalInduction
<1> QED BY <1>2 DEF G

\* Of numbers that are not negative: a part is at most the whole.
LEMMA TotalPart ==
  ASSUME NEW S, IsFiniteSet(S), NEW f, \A x \in S : f[x] \in Nat
  PROVE  \A T \in SUBSET S : Total(T, f) \in Nat /\ Total(T, f) <= Total(S, f)
<1> DEFINE G == {T \in SUBSET S : \A U \in SUBSET T : Total(U, f) \in Nat /\ Total(U, f) <= Total(T, f)}
<1>1. ASSUME NEW T \in SUBSET S, \A x \in T : T \ {x} \in G PROVE T \in G
  <2>1. CASE T = {}
    BY <2>1, TotalEmpty
  <2>2. CASE T # {}
    <3>1. ASSUME NEW x \in T
          PROVE  /\ Total(T, f) = f[x] + Total(T \ {x}, f) /\ f[x] \in Nat
                 /\ Total(T, f) \in Nat
                 /\ \A U \in SUBSET (T \ {x}) : Total(U, f) \in Nat /\ Total(U, f) <= Total(T, f)
      <4>1. IsFiniteSet(T) /\ f[x] \in Nat /\ \A y \in T : f[y] \in Int
        BY <3>1, FS_Subset
      <4>2. Total(T, f) = f[x] + Total(T \ {x}, f)
        BY <3>1, <4>1, TotalRemove
      <4> DEFINE rest == Total(T \ {x}, f)
      <4>3. /\ rest \in Nat
            /\ \A U \in SUBSET (T \ {x}) : Total(U, f) \in Nat /\ Total(U, f) <= rest
        BY <1>1, <3>1
      <4> HIDE DEF rest
      <4>4. Total(T, f) \in Nat /\ rest <= Total(T, f)
        BY <4>1, <4>2, <4>3 DEF rest
      <4>5. \A U \in SUBSET (T \ {x}) : Total(U, f) \in Nat /\ Total(U, f) <= Total(T, f)
        BY <4>3, <4>4
      <4> QED BY <4>1, <4>2, <4>4, <4>5
    <3>2. ASSUME NEW U \in SUBSET T PROVE Total(U, f) \in Nat /\ Total(U, f) <= Total(T, f)
      <4>1. CASE U = T
        <5>1. Total(T, f) \in Nat
          BY <2>2, <3>1
        <5> QED BY <4>1, <5>1
      <4>2. CASE U # T
        <5>1. PICK x \in T : x \notin U
          BY <4>2
        <5>2. U \in SUBSET (T \ {x})
          BY <5>1
        <5> QED BY <3>1, <5>2
      <4> QED BY <4>1, <4>2
    <3> QED BY <3>2
  <2> QED BY <2>1, <2>2
<1> HIDE DEF G
<1>2. SUBSET S \subseteq G
  BY <1>1, RemovalInduction
<1> QED BY <1>2 DEF G

LEMMA TotalAtMost ==
  ASSUME NEW S, IsFiniteSet(S), NEW f, NEW b \in Nat, \A x \in S : f[x] \in Int /\ f[x] <= b
  PROVE  Total(S, f) \in Int /\ Total(S, f) <= b * Cardinality(S)
<1> DEFINE G == {T \in SUBSET S : Total(T, f) <= b * Cardinality(T)}
<1>1. ASSUME NEW T \in SUBSET S, \A x \in T : T \ {x} \in G PROVE T \in G
  <2>1. CASE T = {}
    BY <2>1, TotalEmpty, FS_EmptySet
  <2>2. CASE T # {}
    <3>1. PICK x \in T : TRUE
      BY <2>2
    <3> DEFINE rest == Total(T \ {x}, f)
               n == Cardinality(T \ {x})
    <3>2. Total(T, f) = f[x] + rest
      BY <3>1, FS_Subset, TotalRemove
    <3>3. n \in Nat /\ Cardinality(T) = n + 1 /\ IsFiniteSet(T \ {x})
      BY <3>1, FS_Subset, FS_RemoveElement, FS_CardinalityType
    <3>4. rest \in Int
      BY <3>3, TotalType
    <3>5. rest <= b * n /\ f[x] \in Int /\ f[x] <= b
      BY <1>1, <3>1
    <3> HIDE DEF rest, n
    <3>6. b * (n + 1) = b * n + b /\ b * n \in Int
      BY <3>3
    <3>7. f[x] + rest <= b * (n + 1)
      BY <3>4, <3>5, <3>6
    <3> QED BY <3>2, <3>3, <3>7
  <2> QED BY <2>1, <2>2
<1> HIDE DEF G
<1>2. SUBSET S \subseteq G
  BY <1>1, RemovalInduction
<1> QED BY <1>2, TotalType DEF G

LEMMA TotalScaled ==
  ASSUME NEW S, IsFiniteSet(S), NEW f, NEW e, NEW r \in Int,
         \A x \in S : f[x] \in Int /\ e[x] = r * f[x]
  PROVE  Total(S, e) = r * Total(S, f)
<1> DEFINE G == {T \in SUBSET S : Total(T, e) = r * Total(T, f)}
<1>1. ASSUME NEW T \in SUBSET S, \A x \in T : T \ {x} \in G PROVE T \in G
  <2>1. CASE T = {}
    BY <2>1, TotalEmpty
  <2>2. CASE T # {}
    <3>1. PICK x \in T : TRUE
      BY <2>2
    <3> DEFINE rest == Total(T \ {x}, f)
    <3>2. Total(T, f) = f[x] + rest
      BY <3>1, FS_Subset, TotalRemove
    <3>3. Total(T, e) = e[x] + Total(T \ {x}, e)
      <4>1. \A y \in T : e[y] \in Int
        OBVIOUS
      <4> QED BY <3>1, <4>1, FS_Subset, TotalRemove
    <3>4. rest \in Int
      <4>1. IsFiniteSet(T \ {x})
        BY FS_Subset
      <4> QED BY <4>1, TotalType
    <3>5. Total(T \ {x}, e) = r * rest /\ f[x] \in Int /\ e[x] = r * f[x]
      BY <1>1, <3>1
    <3> HIDE DEF rest
    <3>6. r * (f[x] + rest) = r * f[x] + r * rest
      BY <3>4, <3>5
    <3> QED BY <3>2, <3>3, <3>5, <3>6
  <2> QED BY <2>1, <2>2
<1> HIDE DEF G
<1>2. SUBSET S \subseteq G
  BY <1>1, RemovalInduction
<1> QED BY <1>2 DEF G

LEMMA TotalOnes ==
  ASSUME NEW S, IsFiniteSet(S), NEW f, \A x \in S : f[x] = 1
  PROVE  Total(S, f) = Cardinality(S)
<1> DEFINE G == {T \in SUBSET S : Total(T, f) = Cardinality(T)}
<1>1. ASSUME NEW T \in SUBSET S, \A x \in T : T \ {x} \in G PROVE T \in G
  <2>1. CASE T = {}
    BY <2>1, TotalEmpty, FS_EmptySet
  <2>2. CASE T # {}
    <3>1. PICK x \in T : TRUE
      BY <2>2
    <3>2. Total(T, f) = 1 + Total(T \ {x}, f)
      BY <3>1, FS_Subset, TotalRemove
    <3>3. Cardinality(T) = Cardinality(T \ {x}) + 1
      BY <3>1, FS_Subset, FS_RemoveElement, FS_CardinalityType
    <3>4. Total(T \ {x}, f) = Cardinality(T \ {x}) /\ Cardinality(T \ {x}) \in Nat
      BY <1>1, <3>1, FS_Subset, FS_CardinalityType
    <3> QED BY <3>2, <3>3, <3>4
  <2> QED BY <2>1, <2>2
<1> HIDE DEF G
<1>2. SUBSET S \subseteq G
  BY <1>1, RemovalInduction
<1> QED BY <1>2 DEF G

-----------------------------------------------------------------------------
(* Holm's procedure: the endpoints in the order of their p-values, and     *)
(* what an adjusted p-value below alpha says of the smaller ones.          *)

LEMMA EndpointFacts ==
  /\ IsFiniteSet(Endpoints)
  /\ \A e \in Endpoints : ListIndex(e) \in Nat
  /\ \A e, f \in Endpoints : ListIndex(e) = ListIndex(f) => e = f
<1>1. \A e \in Endpoints : ListIndex(e) \in DOMAIN EndpointList /\ EndpointList[ListIndex(e)] = e
  BY DEF ListIndex, Endpoints
<1>2. DOMAIN EndpointList = 1 .. 4
  BY DEF EndpointList
<1>3. IsFiniteSet(Endpoints)
  <2>1. IsFiniteSet({}) 
    BY FS_EmptySet
  <2>2. /\ IsFiniteSet({} \cup {EndpointList[1]})
        /\ IsFiniteSet(({} \cup {EndpointList[1]}) \cup {EndpointList[2]})
    BY <2>1, FS_AddElement
  <2>3. IsFiniteSet(({} \cup {EndpointList[1]}) \cup {EndpointList[2]} \cup {EndpointList[3]})
    BY <2>2, FS_AddElement
  <2>4. IsFiniteSet(({} \cup {EndpointList[1]}) \cup {EndpointList[2]} \cup {EndpointList[3]}
                    \cup {EndpointList[4]})
    BY <2>3, FS_AddElement
  <2>5. Endpoints = ({} \cup {EndpointList[1]}) \cup {EndpointList[2]} \cup {EndpointList[3]}
                    \cup {EndpointList[4]}
    BY <1>2 DEF Endpoints
  <2> QED BY <2>4, <2>5
<1> QED BY <1>1, <1>2, <1>3

Outcomes == [Endpoints -> PValues \cup {Degenerate}]
Lesser(o, e) == {f \in Tested(o) : \/ o[f] < o[e]
                                   \/ o[f] = o[e] /\ ListIndex(f) < ListIndex(e)}

LEMMA TestedNat ==
  ASSUME NEW o \in Outcomes, NEW e \in Tested(o)
  PROVE  o[e] \in Nat /\ o[e] \in 0 .. 1000 /\ e \in Endpoints
<1>1. e \in Endpoints /\ o[e] # Degenerate
  BY DEF Tested
<1>2. o[e] \in PValues
  BY <1>1 DEF Outcomes
<1>3. o[e] \in 0 .. 1000
  <2>1. PValues \subseteq 0 .. 1000
    BY ComparisonAssumption, Zenon
  <2> QED BY <1>2, <2>1, Zenon
<1> QED BY <1>1, <1>3

LEMMA TestedFacts ==
  ASSUME NEW o \in Outcomes
  PROVE  /\ IsFiniteSet(Tested(o)) /\ Cardinality(Tested(o)) \in Nat
         /\ \A e \in Tested(o) : o[e] \in 0 .. 1000 /\ e \in Endpoints
         /\ \A S \in SUBSET Tested(o) :
               /\ IsFiniteSet(S) /\ Cardinality(S) \in Nat
               /\ Cardinality(S) <= Cardinality(Tested(o))
         /\ \A e : Rank(o, e) = Cardinality(Lesser(o, e)) /\ Rank(o, e) \in Nat
<1>1. Tested(o) \in SUBSET Endpoints
  BY DEF Tested
<1>2. IsFiniteSet(Tested(o))
  BY <1>1, EndpointFacts, FS_Subset
<1>3. \A e \in Tested(o) : o[e] \in 0 .. 1000 /\ e \in Endpoints
  BY TestedNat
<1>4. ASSUME NEW S \in SUBSET Tested(o)
      PROVE  /\ IsFiniteSet(S) /\ Cardinality(S) \in Nat
             /\ Cardinality(S) <= Cardinality(Tested(o))
  BY <1>2, FS_Subset, FS_CardinalityType
<1>5. ASSUME NEW e PROVE Rank(o, e) = Cardinality(Lesser(o, e)) /\ Rank(o, e) \in Nat
  <2>1. Rank(o, e) = Cardinality(Lesser(o, e))
    BY DEF Rank, Lesser
  <2>2. Lesser(o, e) \in SUBSET Tested(o)
    BY DEF Lesser
  <2> QED BY <1>4, <2>1, <2>2
<1> QED BY <1>2, <1>3, <1>4, <1>5, FS_CardinalityType

\* The order of the endpoints by their p-values is linear, and Rank counts it.
LEMMA RankOrder ==
  ASSUME NEW o \in Outcomes, NEW e \in Tested(o), NEW f \in Tested(o)
  PROVE  /\ e \in Lesser(o, f) => Rank(o, e) < Rank(o, f)
         /\ Rank(o, e) <= Rank(o, f) => e = f \/ e \in Lesser(o, f)
         /\ e \notin Lesser(o, f) => o[f] <= o[e]
<1>1. /\ o[e] \in Nat /\ o[f] \in Nat /\ ListIndex(e) \in Nat /\ ListIndex(f) \in Nat
      /\ ListIndex(e) = ListIndex(f) => e = f
  BY TestedNat, EndpointFacts
<1>2. \A a, b \in Tested(o) : a \in Lesser(o, b) => Rank(o, a) < Rank(o, b)
  <2> SUFFICES ASSUME NEW a \in Tested(o), NEW b \in Tested(o), a \in Lesser(o, b)
               PROVE  Rank(o, a) < Rank(o, b)
    OBVIOUS
  <2>1. \A c \in Tested(o) : o[c] \in Nat /\ ListIndex(c) \in Nat
    BY TestedNat, EndpointFacts
  <2>2. Lesser(o, a) \cup {a} \in SUBSET Lesser(o, b) /\ a \notin Lesser(o, a)
    BY <2>1 DEF Lesser
  <2>3. /\ Lesser(o, a) \in SUBSET Tested(o) /\ Lesser(o, b) \in SUBSET Tested(o)
    BY DEF Lesser
  <2>4. IsFiniteSet(Lesser(o, a)) /\ IsFiniteSet(Lesser(o, b))
    BY <2>3, TestedFacts
  <2>5. Cardinality(Lesser(o, a) \cup {a}) = Cardinality(Lesser(o, a)) + 1
    BY <2>2, <2>4, FS_AddElement
  <2>6. Cardinality(Lesser(o, a) \cup {a}) <= Cardinality(Lesser(o, b))
    BY <2>2, <2>4, FS_Subset
  <2> QED BY <2>5, <2>6, TestedFacts
<1>3. e = f \/ e \in Lesser(o, f) \/ f \in Lesser(o, e)
  BY <1>1 DEF Lesser
<1>4. e \notin Lesser(o, f) => o[f] <= o[e]
  BY <1>1 DEF Lesser
<1>5. f \in Lesser(o, e) => Rank(o, f) < Rank(o, e)
  BY <1>2
<1>6. Rank(o, e) \in Nat /\ Rank(o, f) \in Nat
  BY TestedFacts
<1> QED BY <1>2, <1>3, <1>4, <1>5, <1>6

\* Those that do not come before f are as many as Holm's factor for f says.
LEMMA FromOn ==
  ASSUME NEW o \in Outcomes, NEW f \in Tested(o)
  PROVE  /\ Cardinality(Tested(o) \ Lesser(o, f)) = Cardinality(Tested(o)) - Rank(o, f)
         /\ Cardinality(Tested(o)) - Rank(o, f) \in Nat
<1>1. Lesser(o, f) \in SUBSET Tested(o)
  BY DEF Lesser
<1>2. Tested(o) \cap Lesser(o, f) = Lesser(o, f)
  BY <1>1
<1>3. Cardinality(Tested(o) \ Lesser(o, f)) = Cardinality(Tested(o)) - Cardinality(Lesser(o, f))
  <2>1. IsFiniteSet(Tested(o))
    BY TestedFacts
  <2>2. Cardinality(Tested(o) \ Lesser(o, f))
           = Cardinality(Tested(o)) - Cardinality(Tested(o) \cap Lesser(o, f))
    BY <2>1, FS_Difference
  <2> QED BY <1>2, <2>2
<1>4. Tested(o) \ Lesser(o, f) \in SUBSET Tested(o)
  OBVIOUS
<1> QED BY <1>3, <1>4, TestedFacts

Scaled(o, f) == Min({1000, o[f] * (Cardinality(Tested(o)) - Rank(o, f))})

LEMMA ScaledFacts ==
  ASSUME NEW o \in Outcomes, NEW f \in Tested(o)
  PROVE  /\ Scaled(o, f) \in 0 .. 1000
         /\ Scaled(o, f) < Alpha <=> o[f] * (Cardinality(Tested(o)) - Rank(o, f)) < Alpha
<1> DEFINE p == o[f] * (Cardinality(Tested(o)) - Rank(o, f))
<1>1. o[f] \in Nat /\ Cardinality(Tested(o)) - Rank(o, f) \in Nat
  <2>1. o[f] \in Nat
    BY TestedNat
  <2>2. Cardinality(Tested(o)) - Rank(o, f) \in Nat
    BY FromOn
  <2> QED BY <2>1, <2>2
<1>2. p \in Nat
  <2> DEFINE x == o[f]
             y == Cardinality(Tested(o)) - Rank(o, f)
  <2>1. x \in Nat /\ y \in Nat
    BY <1>1
  <2> HIDE DEF x, y
  <2>2. x * y \in Nat
    BY <2>1
  <2> QED BY <2>2 DEF x, y
<1>3. Scaled(o, f) = Min({1000, p})
  BY DEF Scaled
<1> HIDE DEF p
<1>4. PICK x \in {1000, p} : \A y \in {1000, p} : x =< y
  BY <1>2
<1>5. Min({1000, p}) \in {1000, p} /\ \A y \in {1000, p} : Min({1000, p}) =< y
  BY <1>4 DEF Min
<1>6. Scaled(o, f) \in 0 .. 1000
  BY <1>2, <1>3, <1>5
<1>7. Scaled(o, f) < Alpha <=> p < Alpha
  <2>1. (Scaled(o, f) = 1000 /\ 1000 <= p) \/ Scaled(o, f) = p
    BY <1>2, <1>3, <1>5
  <2> QED BY <1>2, <2>1, AlphaType
<1> QED BY <1>6, <1>7 DEF p

\* An adjusted p-value is below alpha just when every smaller one is, as scaled.
LEMMA AdjustedFacts ==
  ASSUME NEW o \in Outcomes, NEW e \in Tested(o)
  PROVE  Adjusted(o, e) < Alpha <=>
            \A f \in Tested(o) : Rank(o, f) <= Rank(o, e) =>
               o[f] * (Cardinality(Tested(o)) - Rank(o, f)) < Alpha
<1> DEFINE S == {Scaled(o, f) : f \in {g \in Tested(o) : Rank(o, g) <= Rank(o, e)}}
<1>1. Adjusted(o, e) = Max(S)
  BY DEF Adjusted, Scaled
<1>2. S \subseteq 0 .. 1000 /\ S # {}
  <2>1. Rank(o, e) \in Nat
    BY TestedFacts
  <2>2. Scaled(o, e) \in S
    BY <2>1
  <2>3. S \subseteq 0 .. 1000
    BY ScaledFacts
  <2> HIDE DEF S
  <2> QED BY <2>2, <2>3
<1>3. Max(S) \in S /\ \A y \in S : Max(S) >= y
  <2> HIDE DEF S
  <2>1. \E x \in S : \A y \in S : x >= y
    <3>1. S \in SUBSET Nat /\ S # {} /\ \A x \in S : x <= 1000
      BY <1>2
    <3>2. \E n \in Nat : \A x \in S : x <= n
      <4> DEFINE m == 1000
      <4>1. m \in Nat /\ \A x \in S : x <= m
        BY <3>1
      <4> HIDE DEF m
      <4> QED BY <4>1
    <3> QED BY <3>1, <3>2, NatMax
  <2> QED BY <2>1 DEF Max
<1>4. Max(S) < Alpha <=> \A y \in S : y < Alpha
  <2> HIDE DEF S
  <2>1. Alpha \in Nat /\ \A y \in S : y \in Nat
    BY <1>2, ComparisonAssumption
  <2> QED BY <1>3, <2>1
<1>5. (\A y \in S : y < Alpha)
         <=> \A f \in Tested(o) : Rank(o, f) <= Rank(o, e) => Scaled(o, f) < Alpha
  OBVIOUS
<1> HIDE DEF S
<1> QED BY <1>1, <1>4, <1>5, ScaledFacts

LEMMA Monotone ==
  ASSUME NEW a \in Nat, NEW b \in Nat, NEW c \in Nat, NEW d \in Nat, a <= b, c <= d
  PROVE  a * c \in Nat /\ b * d \in Nat /\ a * c <= b * d
<1>1. a * c <= b * c
  OBVIOUS
<1>2. b * c <= b * d
  OBVIOUS
<1> QED BY <1>1, <1>2

ClosedTest(o, e) ==
    \A S \in SUBSET Tested(o) : e \in S => \E f \in S : o[f] * Cardinality(S) < Alpha

LEMMA HolmRejects ==
  ASSUME NEW o \in Outcomes, NEW e \in Tested(o), Adjusted(o, e) < Alpha
  PROVE  ClosedTest(o, e)
<1> SUFFICES ASSUME NEW S \in SUBSET Tested(o), e \in S
             PROVE  \E f \in S : o[f] * Cardinality(S) < Alpha
  BY DEF ClosedTest
<1> DEFINE R == {Rank(o, f) : f \in S}
<1>1. R \in SUBSET Nat /\ R # {}
  BY TestedFacts
<1>2. PICK r \in R : \A y \in R : r <= y
  <2> HIDE DEF R
  <2> QED BY <1>1, NatMin
<1>3. PICK f \in S : r = Rank(o, f)
  BY <1>2
<1>4. \A g \in S : Rank(o, f) <= Rank(o, g)
  BY <1>2, <1>3
<1>5. \A g \in S : g \notin Lesser(o, f)
  <2> SUFFICES ASSUME NEW g \in S, g \in Lesser(o, f) PROVE FALSE
    OBVIOUS
  <2>1. Rank(o, g) < Rank(o, f)
    BY RankOrder
  <2> QED BY <1>4, <2>1, TestedFacts
<1>6. S \in SUBSET (Tested(o) \ Lesser(o, f))
  BY <1>5
<1>7. Cardinality(S) <= Cardinality(Tested(o)) - Rank(o, f)
  <2>1. Tested(o) \ Lesser(o, f) \in SUBSET Tested(o)
    OBVIOUS
  <2>2. IsFiniteSet(Tested(o) \ Lesser(o, f))
    BY <2>1, TestedFacts
  <2>3. Cardinality(S) <= Cardinality(Tested(o) \ Lesser(o, f))
    BY <1>6, <2>2, FS_Subset
  <2> QED BY <2>3, FromOn
<1>8. o[f] * (Cardinality(Tested(o)) - Rank(o, f)) < Alpha
  BY <1>4, AdjustedFacts
<1>9. o[f] * Cardinality(S) < Alpha
  <2> DEFINE x == o[f]
             y == Cardinality(S)
             z == Cardinality(Tested(o)) - Rank(o, f)
  <2>1. x \in Nat /\ y \in Nat /\ z \in Nat /\ y <= z /\ x * z < Alpha
    <3>1. x \in Nat
      BY TestedNat
    <3>2. y \in Nat
      BY TestedFacts
    <3>3. z \in Nat
      BY FromOn
    <3> QED BY <1>7, <1>8, <3>1, <3>2, <3>3
  <2> HIDE DEF x, y, z
  <2>2. x * y \in Nat /\ x * z \in Nat /\ x * y <= x * z
    BY <2>1, Monotone
  <2>3. x * y < Alpha
    <3>1. Alpha \in Nat
      BY ComparisonAssumption
    <3> DEFINE u == x * y
               v == x * z
    <3>2. u \in Nat /\ v \in Nat /\ u <= v /\ v < Alpha
      BY <2>1, <2>2
    <3> HIDE DEF u, v
    <3>3. u < Alpha
      BY <3>1, <3>2
    <3> QED BY <3>3 DEF u
  <2> QED BY <2>3 DEF x, y
<1> QED BY <1>9

LEMMA ClosedRejects ==
  ASSUME NEW o \in Outcomes, NEW e \in Tested(o), ClosedTest(o, e)
  PROVE  Adjusted(o, e) < Alpha
<1> SUFFICES ASSUME NEW g \in Tested(o), Rank(o, g) <= Rank(o, e)
             PROVE  o[g] * (Cardinality(Tested(o)) - Rank(o, g)) < Alpha
  BY AdjustedFacts
<1> DEFINE S == Tested(o) \ Lesser(o, g)
<1>1. e \in S
  <2>1. e \in Lesser(o, g) => Rank(o, e) < Rank(o, g)
    BY RankOrder
  <2> QED BY <2>1, TestedFacts
<1>2. PICK f \in S : o[f] * Cardinality(S) < Alpha
  BY <1>1 DEF ClosedTest
<1>3. o[g] <= o[f]
  BY <1>2, RankOrder
<1>4. Cardinality(S) = Cardinality(Tested(o)) - Rank(o, g) /\ Cardinality(S) \in Nat
  BY FromOn
<1>5. o[g] * Cardinality(S) < Alpha
  <2> DEFINE x == o[g]
             y == o[f]
             z == Cardinality(S)
  <2>1. x \in Nat /\ y \in Nat /\ z \in Nat /\ x <= y /\ y * z < Alpha
    <3>1. x \in Nat
      BY TestedNat
    <3>2. y \in Nat
      BY TestedNat
    <3> QED BY <1>2, <1>3, <1>4, <3>1, <3>2
  <2> HIDE DEF x, y, z
  <2>2. x * z \in Nat /\ y * z \in Nat /\ x * z <= y * z
    BY <2>1, Monotone
  <2>3. x * z < Alpha
    <3>1. Alpha \in Nat
      BY AlphaType
    <3> DEFINE u == x * z
               v == y * z
    <3>2. u \in Nat /\ v \in Nat /\ u <= v /\ v < Alpha
      BY <2>1, <2>2
    <3> HIDE DEF u, v
    <3>3. u < Alpha
      BY <3>1, <3>2
    <3> QED BY <3>3 DEF u
  <2> QED BY <2>3 DEF x, z
<1> QED BY <1>4, <1>5

SignificantInv ==
    pc \in {"save", "done"} =>
        /\ outcome \in Outcomes
        /\ significant = {e \in Tested(outcome) : Adjusted(outcome, e) < Alpha}

LEMMA NextSignificant == SignificantInv /\ [Next]_vars => SignificantInv'
<1> SUFFICES ASSUME SignificantInv, [Next]_vars PROVE SignificantInv'
  OBVIOUS
<1>1. CASE Analyse
  BY <1>1 DEF Analyse, SignificantInv, Outcomes
<1>2. CASE pc' \notin {"save", "done"}
  BY <1>2 DEF SignificantInv
<1>3. CASE Save \/ SaveRaises \/ UNCHANGED vars
  BY <1>3 DEF Save, SaveRaises, Goto, analysis, vars, SignificantInv
<1>4. CASE Next /\ ~Analyse /\ ~Save /\ ~SaveRaises
  <2>1. pc' \notin {"save", "done"}
    BY <1>4 DEF Next, LoadSessions, LoadRaises, ResolveParameters, DockerReady, DockerMissing,
      Recreate, RecreateFails, InitializeSchema, InitializeSchemaFails, Apply, Restart, Measure,
      Teardown, Interrupt, NextArm, KeepRep, DropRep, Goto, AfterRep, AfterLast, NoFault, Fault
  <2> QED BY <2>1 DEF SignificantInv
<1> QED BY <1>1, <1>3, <1>4

\* Holm's step-down over any p-values and level rejects just what the closed test of
\* Bonferroni tests does: the family-wise error of a comparison is the level it is run
\* at.  (_holm_adjusted_pvalues, _apply_significance)
THEOREM HolmIsClosed == Spec => []HolmIsClosedTesting
<1>1. Init => SignificantInv
  BY DEF Init, SignificantInv
<1>2. SignificantInv /\ [Next]_vars => SignificantInv'
  BY NextSignificant
<1>3. SignificantInv => HolmIsClosedTesting
  <2> SUFFICES ASSUME SignificantInv, pc \in {"save", "done"}, NEW e \in Endpoints
               PROVE  e \in significant <=> e \in Tested(outcome) /\ ClosedTest(outcome, e)
    BY DEF HolmIsClosedTesting, ClosedTest
  <2>1. /\ outcome \in Outcomes
        /\ significant = {f \in Tested(outcome) : Adjusted(outcome, f) < Alpha}
    BY DEF SignificantInv
  <2>2. ASSUME e \in Tested(outcome)
        PROVE  Adjusted(outcome, e) < Alpha <=> ClosedTest(outcome, e)
    BY <2>1, <2>2, HolmRejects, ClosedRejects
  <2> QED BY <2>1, <2>2
<1> QED BY <1>1, <1>2, <1>3, PTL DEF Spec

-----------------------------------------------------------------------------
(* The significance gate of SCALPEL.                                       *)

\* Hit counts of some columns.
HitsOf(h, cols) == IsFiniteSet(cols) /\ \A k \in cols : h[k] \in 0 .. Iterations

AtMost(h, p, cols) == {k \in cols : PValue(h[k]) <= p}
AtRank(h, cols, r) == {PValue(h[k]) : k \in {k \in cols : RankOf(h, PValue(h[k]), cols) >= r}}

LEMMA PValueNat ==
  ASSUME NEW h, NEW cols, HitsOf(h, cols), NEW k \in cols
  PROVE  PValue(h[k]) \in Nat
BY ProbabilityAssumption DEF HitsOf

LEMMA RankFacts ==
  ASSUME NEW h, NEW cols, HitsOf(h, cols)
  PROVE  /\ Cardinality(cols) \in Nat
         /\ \A p : RankOf(h, p, cols) = Cardinality(AtMost(h, p, cols))
         /\ \A p : RankOf(h, p, cols) \in 0 .. Cardinality(cols)
<1>1. IsFiniteSet(cols) /\ Cardinality(cols) \in Nat
  BY FS_CardinalityType DEF HitsOf
<1>2. ASSUME NEW p
      PROVE  /\ RankOf(h, p, cols) = Cardinality(AtMost(h, p, cols))
             /\ RankOf(h, p, cols) \in 0 .. Cardinality(cols)
  <2>1. RankOf(h, p, cols) = Cardinality(AtMost(h, p, cols))
    BY DEF RankOf, AtMost
  <2>2. AtMost(h, p, cols) \subseteq cols
    BY DEF AtMost
  <2>3. /\ IsFiniteSet(AtMost(h, p, cols)) /\ Cardinality(AtMost(h, p, cols)) <= Cardinality(cols)
    BY <1>1, <2>2, FS_Subset
  <2>4. Cardinality(AtMost(h, p, cols)) \in Nat
    BY <2>3, FS_CardinalityType
  <2> QED BY <1>1, <2>1, <2>3, <2>4
<1> QED BY <1>1, <1>2

\* A smaller p-value has fewer at or below it.
LEMMA RankGrows ==
  ASSUME NEW h, NEW cols, HitsOf(h, cols), NEW i \in cols, NEW j \in cols
  PROVE  /\ PValue(h[i]) < PValue(h[j]) =>
                RankOf(h, PValue(h[i]), cols) < RankOf(h, PValue(h[j]), cols)
         /\ RankOf(h, PValue(h[j]), cols) >= 1
<1> DEFINE A == AtMost(h, PValue(h[i]), cols)
           B == AtMost(h, PValue(h[j]), cols)
<1>1. \A k \in cols : PValue(h[k]) \in Nat
  BY PValueNat
<1>2. A \subseteq cols /\ B \subseteq cols /\ j \in B
  BY <1>1 DEF AtMost
<1>3. IsFiniteSet(A) /\ IsFiniteSet(B)
  BY <1>2, FS_Subset DEF HitsOf
<1>4. PValue(h[i]) < PValue(h[j]) => A \cup {j} \subseteq B /\ j \notin A
  BY <1>1 DEF AtMost
<1>5. /\ RankOf(h, PValue(h[i]), cols) = Cardinality(A)
      /\ RankOf(h, PValue(h[j]), cols) = Cardinality(B)
  BY RankFacts
<1> HIDE DEF A, B
<1>6. Cardinality(A) \in Nat /\ Cardinality(B) \in Nat
  BY <1>3, FS_CardinalityType
<1>7. ASSUME PValue(h[i]) < PValue(h[j]) PROVE Cardinality(A) < Cardinality(B)
  <2>1. Cardinality(A \cup {j}) = Cardinality(A) + 1
    BY <1>3, <1>4, <1>7, FS_AddElement
  <2>2. Cardinality(A \cup {j}) <= Cardinality(B)
    BY <1>3, <1>4, <1>7, FS_Subset
  <2> QED BY <1>6, <2>1, <2>2
<1>8. Cardinality(B) >= 1
  <2>1. Cardinality(B) # 0
    BY <1>2, <1>3, FS_EmptySet
  <2> QED BY <1>6, <2>1
<1> QED BY <1>5, <1>7, <1>8

\* The r-th smallest p-value is one, of at least r at or below it, and the least such.
LEMMA OrderStatisticFacts ==
  ASSUME NEW h, NEW cols, HitsOf(h, cols), NEW r \in 1 .. Cardinality(cols)
  PROVE  /\ \E j \in cols : /\ OrderStatistic(h, cols, r) = PValue(h[j])
                            /\ RankOf(h, PValue(h[j]), cols) >= r
         /\ \A i \in cols :
               RankOf(h, PValue(h[i]), cols) >= r => OrderStatistic(h, cols, r) <= PValue(h[i])
<1> DEFINE n == Cardinality(cols)
           rank(k) == RankOf(h, PValue(h[k]), cols)
           W == {PValue(h[k]) : k \in {k \in cols : rank(k) >= r}}
<1>1. n \in Nat /\ \A k \in cols : PValue(h[k]) \in Nat /\ rank(k) \in 0 .. n
  BY RankFacts, PValueNat
<1>2. \E k \in cols : \A i \in cols : PValue(h[i]) <= PValue(h[k])
  <2> DEFINE R == {rank(k) : k \in cols}
  <2>1. cols # {}
    BY <1>1, FS_EmptySet
  <2>2. R \in SUBSET Nat /\ R # {} /\ \A x \in R : x <= n
    BY <1>1, <2>1
  <2>3. PICK m \in R : \A y \in R : m >= y
    <3> HIDE DEF R
    <3> QED BY <1>1, <2>2, NatMax
  <2>4. PICK k \in cols : m = rank(k)
    BY <2>3
  <2>5. \A i \in cols : rank(k) >= rank(i)
    BY <2>3, <2>4
  <2>6. ASSUME NEW i \in cols, PValue(h[k]) < PValue(h[i]) PROVE FALSE
    <3>1. rank(k) < rank(i)
      BY <2>6, RankGrows
    <3> QED BY <1>1, <2>5, <3>1
  <2> HIDE DEF rank
  <2> QED BY <1>1, <2>6
<1>3. W # {}
  <2>1. PICK k \in cols : \A i \in cols : PValue(h[i]) <= PValue(h[k])
    BY <1>2
  <2>2. AtMost(h, PValue(h[k]), cols) = cols
    BY <2>1 DEF AtMost
  <2>3. rank(k) = n
    BY <2>2, RankFacts
  <2> QED BY <2>3
<1>4. W \in SUBSET Nat
  BY <1>1
<1>5. PICK x \in W : \A y \in W : x <= y
  <2> HIDE DEF W
  <2> QED BY <1>3, <1>4, NatMin
<1>6. Min(W) \in W /\ \A y \in W : Min(W) <= y
  <2> HIDE DEF W
  <2> QED BY <1>5 DEF Min
<1>7. OrderStatistic(h, cols, r) = Min(W)
  BY DEF OrderStatistic
<1> DEFINE min == Min(W)
<1>8. PICK j \in cols : min = PValue(h[j]) /\ rank(j) >= r
  BY <1>6
<1>9. \A i \in cols : rank(i) >= r => min <= PValue(h[i])
  BY <1>6
<1> HIDE DEF min, W
<1> QED BY <1>7, <1>8, <1>9 DEF min

Under(h, cols, q) ==
    {r \in 1 .. Cardinality(cols) :
        100 * OrderStatistic(h, cols, r) * Cardinality(cols) <= q * r * 2 ^ Iterations}

\* A rank that is under the line stays under it when more tests reach it.
LEMMA UnderLine ==
  ASSUME NEW p \in Nat, NEW v \in Nat, p <= v, NEW n \in Nat, NEW q \in Nat,
         NEW r \in Nat, NEW s \in Nat, s <= r, NEW d \in Nat, 100 * v * n <= q * s * d
  PROVE  100 * p * n <= q * r * d
<1>1. 100 * p <= 100 * v /\ 100 * p \in Nat /\ 100 * v \in Nat
  OBVIOUS
<1>2. (100 * p) * n <= (100 * v) * n /\ (100 * p) * n \in Nat /\ (100 * v) * n \in Nat
  <2> DEFINE a == 100 * p
             b == 100 * v
  <2>1. a \in Nat /\ b \in Nat /\ a <= b
    BY <1>1
  <2> HIDE DEF a, b
  <2>2. a * n <= b * n /\ a * n \in Nat /\ b * n \in Nat
    BY <2>1, Monotone
  <2> QED BY <2>2 DEF a, b
<1>3. q * s <= q * r /\ q * s \in Nat /\ q * r \in Nat
  BY Monotone
<1>4. (q * s) * d <= (q * r) * d /\ (q * s) * d \in Nat /\ (q * r) * d \in Nat
  <2> DEFINE a == q * s
             b == q * r
  <2>1. a \in Nat /\ b \in Nat /\ a <= b
    BY <1>3
  <2> HIDE DEF a, b
  <2>2. a * d <= b * d /\ a * d \in Nat /\ b * d \in Nat
    BY <2>1, Monotone
  <2> QED BY <2>2 DEF a, b
<1> DEFINE left == (100 * p) * n
           mid == (100 * v) * n
           over == (q * s) * d
           right == (q * r) * d
<1>5. /\ left <= mid /\ mid <= over /\ over <= right
      /\ left \in Nat /\ mid \in Nat /\ over \in Nat /\ right \in Nat
  BY <1>2, <1>4
<1> HIDE DEF left, mid, over, right
<1>6. left <= right
  BY <1>5
<1> QED BY <1>6 DEF left, right

\* The coded rule is the step-up procedure.
LEMMA StepUpDecides ==
  ASSUME NEW h, NEW cols, HitsOf(h, cols), NEW q \in Nat
  PROVE  StepUp(h, cols, q) = {k \in cols : Significant(h, cols, q, k)}
<1> DEFINE n == Cardinality(cols)
           d == 2 ^ Iterations
           rank(k) == RankOf(h, PValue(h[k]), cols)
           os(r) == OrderStatistic(h, cols, r)
           U == Under(h, cols, q)
<1>1. n \in Nat /\ d \in Nat /\ \A k \in cols : PValue(h[k]) \in Nat /\ rank(k) \in 1 .. n
  <2>1. \A k \in cols : rank(k) >= 1 /\ rank(k) \in 0 .. n
    BY RankFacts, RankGrows
  <2> QED BY <2>1, RankFacts, PValueNat, ProbabilityAssumption
<1>2. U \subseteq 1 .. n /\ \A r \in U : 100 * os(r) * n <= q * r * d
  BY DEF Under
<1>3. U # {} => Max(U) \in U /\ \A r \in U : r <= Max(U)
  <2> SUFFICES ASSUME U # {} PROVE Max(U) \in U /\ \A r \in U : r <= Max(U)
    OBVIOUS
  <2> HIDE DEF U
  <2>1. U \in SUBSET Nat /\ \A r \in U : r <= n
    BY <1>1, <1>2
  <2>2. \E x \in U : \A y \in U : x >= y
    BY <1>1, <2>1, NatMax
  <2> QED BY <2>1, <2>2 DEF Max
<1>4. StepUp(h, cols, q) = IF U = {} THEN {} ELSE {k \in cols : PValue(h[k]) <= os(Max(U))}
  BY DEF StepUp, Under
<1>5. ASSUME NEW k \in cols, Significant(h, cols, q, k)
      PROVE  U # {} /\ PValue(h[k]) <= os(Max(U))
  <2>1. PICK j \in cols : PValue(h[j]) >= PValue(h[k]) /\ 100 * PValue(h[j]) * n <= q * rank(j) * d
    BY <1>5 DEF Significant
  <2>2. PICK i \in cols : os(rank(j)) = PValue(h[i]) /\ rank(i) >= rank(j)
    BY <1>1, OrderStatisticFacts
  <2>3. PValue(h[j]) <= PValue(h[i])
    <3>1. PValue(h[i]) < PValue(h[j]) => rank(i) < rank(j)
      BY RankGrows
    <3>2. rank(i) \in Nat /\ rank(j) \in Nat /\ PValue(h[i]) \in Nat /\ PValue(h[j]) \in Nat
      BY <1>1
    <3> HIDE DEF rank
    <3> QED BY <2>2, <3>1, <3>2
  <2>4. os(rank(j)) <= PValue(h[j])
    <3>1. rank(j) >= rank(j)
      BY <1>1
    <3> QED BY <1>1, <3>1, OrderStatisticFacts
  <2>5. 100 * os(rank(j)) * n <= q * rank(j) * d
    <3>1. os(rank(j)) \in Nat /\ PValue(h[j]) \in Nat /\ rank(j) \in Nat /\ rank(j) <= rank(j)
      BY <1>1, <2>2
    <3> HIDE DEF os, rank, n, d
    <3> QED BY <1>1, <2>1, <2>4, <3>1, UnderLine
  <2>6. rank(j) \in U
    BY <1>1, <2>5 DEF Under
  <2>7. Max(U) \in 1 .. n /\ rank(j) <= Max(U)
    BY <1>2, <1>3, <2>6
  <2>8. PICK m \in cols : os(Max(U)) = PValue(h[m]) /\ rank(m) >= Max(U)
    BY <2>7, OrderStatisticFacts
  <2>9. PValue(h[j]) <= PValue(h[m])
    <3>1. PValue(h[m]) < PValue(h[j]) => rank(m) < rank(j)
      BY RankGrows
    <3>2. /\ rank(m) \in Nat /\ rank(j) \in Nat /\ Max(U) \in Nat
          /\ PValue(h[m]) \in Nat /\ PValue(h[j]) \in Nat
      BY <1>1, <2>7
    <3> HIDE DEF rank, U
    <3> QED BY <2>7, <2>8, <3>1, <3>2
  <2>10. PValue(h[k]) \in Nat /\ PValue(h[j]) \in Nat /\ PValue(h[m]) \in Nat
    BY <1>1
  <2>11. PValue(h[k]) <= os(Max(U))
    <3> HIDE DEF os, U
    <3> QED BY <2>1, <2>8, <2>9, <2>10
  <2> QED BY <2>6, <2>11
<1>6. ASSUME NEW k \in cols, U # {}, PValue(h[k]) <= os(Max(U))
      PROVE  Significant(h, cols, q, k)
  <2>1. Max(U) \in U /\ Max(U) \in 1 .. n
    BY <1>2, <1>3, <1>6
  <2>2. PICK j \in cols : os(Max(U)) = PValue(h[j]) /\ rank(j) >= Max(U)
    BY <2>1, OrderStatisticFacts
  <2>3. 100 * PValue(h[j]) * n <= q * Max(U) * d
    BY <1>2, <2>1, <2>2
  <2>4. 100 * PValue(h[j]) * n <= q * rank(j) * d
    <3>1. /\ PValue(h[j]) \in Nat /\ Max(U) \in Nat /\ rank(j) \in Nat /\ Max(U) <= rank(j)
          /\ PValue(h[j]) <= PValue(h[j])
      BY <1>1, <2>1, <2>2
    <3> HIDE DEF os, rank, n, d, U
    <3> QED BY <1>1, <2>3, <3>1, UnderLine
  <2>5. PValue(h[j]) >= PValue(h[k])
    BY <1>1, <1>6, <2>2
  <2> QED BY <2>4, <2>5 DEF Significant
<1> HIDE DEF U, os
<1> QED BY <1>4, <1>5, <1>6

\* A wider threshold decides no less.
LEMMA WiderDecidesMore ==
  ASSUME NEW h, NEW cols, HitsOf(h, cols), NEW p \in Nat, NEW q \in Nat, p <= q
  PROVE  Confirmed(h, cols, p) \subseteq Confirmed(h, cols, q)
<1> SUFFICES ASSUME NEW k \in cols, Significant(h, cols, p, k) PROVE Significant(h, cols, q, k)
  BY DEF Confirmed
<1> DEFINE n == Cardinality(cols)
           d == 2 ^ Iterations
           rank(j) == RankOf(h, PValue(h[j]), cols)
           left(j) == 100 * PValue(h[j]) * n
<1>1. PICK j \in cols : PValue(h[j]) >= PValue(h[k]) /\ left(j) <= p * rank(j) * d
  BY DEF Significant
<1>2. left(j) \in Nat /\ rank(j) \in Nat /\ d \in Nat
  <2>1. PValue(h[j]) \in Nat /\ n \in Nat /\ rank(j) \in Nat
    BY PValueNat, RankFacts
  <2>2. 100 * PValue(h[j]) \in Nat /\ 100 <= 100
    BY <2>1
  <2>3. (100 * PValue(h[j])) * n \in Nat
    <3> DEFINE a == 100 * PValue(h[j])
    <3>1. a \in Nat
      BY <2>2
    <3> HIDE DEF a, n
    <3>2. a * n \in Nat
      BY <2>1, <3>1
    <3> QED BY <3>2 DEF a
  <2> QED BY <2>1, <2>3, ProbabilityAssumption
<1>3. p * rank(j) * d <= q * rank(j) * d /\ p * rank(j) * d \in Nat /\ q * rank(j) * d \in Nat
  <2> DEFINE a == p * rank(j)
             b == q * rank(j)
  <2> HIDE DEF rank, d
  <2>1. a \in Nat /\ b \in Nat /\ a <= b
    BY <1>2, Monotone
  <2> HIDE DEF a, b
  <2>2. a * d <= b * d /\ a * d \in Nat /\ b * d \in Nat
    BY <1>2, <2>1, Monotone
  <2> QED BY <2>2 DEF a, b
<1>4. left(j) <= q * rank(j) * d
  <2> DEFINE mid == p * rank(j) * d
             right == q * rank(j) * d
  <2>1. left(j) <= mid /\ mid <= right /\ left(j) \in Nat /\ mid \in Nat /\ right \in Nat
    BY <1>1, <1>2, <1>3
  <2> HIDE DEF left, mid, right
  <2>2. left(j) <= right
    BY <2>1
  <2> QED BY <2>2 DEF right
<1> QED BY <1>1, <1>4 DEF Significant

\* What a run keeps: hits that the iterations so far allow, and a sweep of those hits.
GateInv ==
    /\ columns \subseteq Knobs
    /\ iteration \in 0 .. Iterations
    /\ hits \in [Knobs -> 0 .. iteration]
    /\ stage = "stability" =>
          \A q \in QSweep : DOMAIN result.sweep[q] = Confirmed(hits, columns, q)

LEMMA GateHits ==
  ASSUME GateInv PROVE HitsOf(hits, columns)
<1>1. IsFiniteSet(columns)
  BY TieringAssumption, FS_Subset DEF GateInv
<1>2. \A k \in columns : hits[k] \in 0 .. Iterations
  BY TieringAssumption DEF GateInv
<1> QED BY <1>1, <1>2 DEF HitsOf

LEMMA GateImplies ==
  ASSUME GateInv PROVE GateIsStepUp
<1>1. ASSUME NEW q \in QSweep \cup {FdrQ}
      PROVE  StepUp(hits, columns, q) = Confirmed(hits, columns, q) \cup Rejected(hits, columns, q)
  <2>1. q \in Nat
    BY TieringAssumption DEF QSweep
  <2>2. StepUp(hits, columns, q) = {k \in columns : Significant(hits, columns, q, k)}
    BY <2>1, GateHits, StepUpDecides
  <2>3. \A k \in columns : 2 * hits[k] > Iterations \/ 2 * hits[k] <= Iterations
    BY GateHits, TieringAssumption DEF HitsOf
  <2> QED BY <2>2, <2>3 DEF Confirmed, Rejected
<1>2. ASSUME stage = "stability", NEW p \in QSweep, NEW q \in QSweep, p < q
      PROVE  DOMAIN result.sweep[p] \subseteq DOMAIN result.sweep[q]
  <2>1. p \in Nat /\ q \in Nat /\ p <= q
    BY <1>2 DEF QSweep
  <2>2. Confirmed(hits, columns, p) \subseteq Confirmed(hits, columns, q)
    BY <2>1, GateHits, WiderDecidesMore
  <2> QED BY <1>2, <2>2 DEF GateInv
<1> QED BY <1>1, <1>2 DEF GateIsStepUp

LEMMA GateInit ==
  ASSUME TierInit PROVE GateInv
BY TieringAssumption DEF TierInit, GateInv

LEMMA GateNext ==
  ASSUME GateInv, [TierNext]_tierVars PROVE GateInv'
<1> USE DEF GateInv
<1>1. ASSUME NEW overrides \in SUBSET Nuisance, NEW rows \in BOOLEAN, NEW clusters \in BOOLEAN,
             Preflight(overrides, rows, clusters)
      PROVE  GateInv'
  BY <1>1 DEF Preflight
<1>2. ASSUME NEW beaters \in SUBSET Knobs, BorutaIteration(beaters)
      PROVE  GateInv'
  <2>1. /\ stage = "gate" /\ iteration' = iteration + 1 /\ iteration < Iterations
        /\ UNCHANGED <<columns, result>>
        /\ stage' = IF iteration' = Iterations THEN "attribution" ELSE stage
        /\ hits' = [k \in Knobs |-> IF k \in beaters THEN hits[k] + 1 ELSE hits[k]]
    BY <1>2 DEF BorutaIteration
  <2>2. iteration' \in 0 .. Iterations
    BY <2>1, TieringAssumption
  <2>3. \A k \in Knobs : hits[k] \in 0 .. iteration' /\ hits[k] + 1 \in 0 .. iteration'
    BY <2>1
  <2>4. hits' \in [Knobs -> 0 .. iteration']
    BY <2>1, <2>3
  <2>5. stage' # "stability"
    BY <2>1
  <2> QED BY <2>1, <2>2, <2>4, <2>5
<1>3. ASSUME NEW marginal, NEW pair, Attribute(marginal, pair)
      PROVE  GateInv'
  <2> DEFINE value == Fused(pair, marginal, columns)
             C == Confirmed(hits, columns, FdrQ)
             Concluded == [Verdict EXCEPT !.degenerate = FALSE, !.reason = "none",
                                          !.confirmed = C, !.sweep = Sweep(value),
                                          !.tiers = AssignLorenzTiers(value, C)]
  <2>1. /\ UNCHANGED <<columns, iteration, hits>>
        /\ stage' = "stability" => result' = Concluded
    BY <1>3 DEF Attribute
  <2>2. Concluded.sweep = Sweep(value)
    BY DEF Verdict, DegenerateResult
  <2>3. \A q \in QSweep : DOMAIN Sweep(value)[q] = Confirmed(hits, columns, q)
    BY DEF Sweep, AssignLorenzTiers
  <2>4. ASSUME stage' = "stability", NEW q \in QSweep
        PROVE  DOMAIN result'.sweep[q] = Confirmed(hits, columns, q)'
    <3>1. result'.sweep = Sweep(value)
      BY <2>1, <2>2, <2>4
    <3>2. Confirmed(hits, columns, q)' = Confirmed(hits, columns, q)
      BY <2>1 DEF Confirmed, Significant, RankOf
    <3> QED BY <2>3, <3>1, <3>2
  <2> QED BY <2>1, <2>4
<1>4. ASSUME NEW assignment, SubsampleReturns(assignment)
      PROVE  GateInv'
  <2>1. UNCHANGED <<stage, columns, iteration, hits, result>>
    BY <1>4 DEF SubsampleReturns
  <2>2. \A q \in QSweep : Confirmed(hits, columns, q)' = Confirmed(hits, columns, q)
    BY <2>1 DEF Confirmed, Significant, RankOf
  <2> QED BY <2>1, <2>2
<1>5. ASSUME Conclude
      PROVE  GateInv'
  BY <1>5 DEF Conclude
<1>6. CASE UNCHANGED tierVars
  <2>1. UNCHANGED <<stage, columns, iteration, hits, result>>
    BY <1>6 DEF tierVars
  <2>2. \A q \in QSweep : Confirmed(hits, columns, q)' = Confirmed(hits, columns, q)
    BY <2>1 DEF Confirmed, Significant, RankOf
  <2> QED BY <2>1, <2>2
<1> QED BY <1>1, <1>2, <1>3, <1>4, <1>5, <1>6 DEF TierNext

\* The gate of SCALPEL is the step-up procedure of Benjamini and Hochberg at its own
\* threshold and at each of the sweep, and a wider threshold loses no knob, whatever the
\* columns, the number of iterations and the hits (scalpel_significance._bh_adjust,
\* partition_boruta_hits; scalpel_tier's sweep): the half of TiersAreSound that is about
\* the gate.
THEOREM GateStepsUp == TierSpec => []GateIsStepUp
<1>1. TierInit => GateInv
  BY GateInit
<1>2. GateInv /\ [TierNext]_tierVars => GateInv'
  BY GateNext
<1>3. GateInv => GateIsStepUp
  BY GateImplies
<1> QED BY <1>1, <1>2, <1>3, PTL DEF TierSpec

-----------------------------------------------------------------------------
(* The cuts of SCALPEL.                                                    *)

\* Importances of the knobs C.
ValuesOf(v, C) == IsFiniteSet(C) /\ C \subseteq Nat /\ C \subseteq DOMAIN v /\ \A k \in C : v[k] \in Int

\* Nothing outside B is ahead of anything in it.
Initial(v, C, B) == B \in SUBSET C /\ \A b \in B, j \in C : Ahead(v, j, b) => j \in B

LEMMA MassIs == \A v, S : Mass(v, S) = Total(S, Weight(v))
BY DEF Mass, Total

LEMMA WeightFacts ==
  ASSUME NEW v, NEW C, ValuesOf(v, C)
  PROVE  /\ \A k \in C : Weight(v)[k] \in Nat
         /\ \A j, k \in C : v[j] <= v[k] => Weight(v)[j] <= Weight(v)[k]
BY DEF Weight, ValuesOf

LEMMA AheadOrders ==
  ASSUME NEW v, NEW C, ValuesOf(v, C), NEW a \in C, NEW b \in C
  PROVE  /\ ~Ahead(v, a, a)
         /\ a = b \/ Ahead(v, a, b) \/ Ahead(v, b, a)
         /\ Ahead(v, a, b) => v[b] <= v[a]
         /\ \A c \in C : Ahead(v, a, b) /\ Ahead(v, b, c) => Ahead(v, a, c)
<1>1. v[a] \in Int /\ v[b] \in Int /\ a \in Nat /\ b \in Nat
  BY DEF ValuesOf
<1>2. \A c \in C : v[c] \in Int /\ c \in Nat
  BY DEF ValuesOf
<1> QED BY <1>1, <1>2 DEF Ahead

LEMMA BeforeFacts ==
  ASSUME NEW v, NEW C, ValuesOf(v, C), NEW k \in C
  PROVE  /\ Initial(v, C, Before(v, C, k)) /\ k \notin Before(v, C, k)
         /\ Initial(v, C, Before(v, C, k) \cup {k})
         /\ IsFiniteSet(Before(v, C, k)) /\ Cardinality(Before(v, C, k)) \in Nat
         /\ \A j \in Before(v, C, k) :
               /\ Before(v, C, j) \in SUBSET Before(v, C, k)
               /\ Cardinality(Before(v, C, j)) < Cardinality(Before(v, C, k))
<1> DEFINE B == Before(v, C, k)
<1>1. B \in SUBSET C
  BY DEF Before
<1>2. ASSUME NEW b \in B, NEW j \in C, Ahead(v, j, b) PROVE j \in B
  <2>1. b \in C /\ Ahead(v, b, k)
    BY DEF Before
  <2>2. Ahead(v, j, k)
    BY <1>2, <2>1, AheadOrders
  <2> QED BY <2>2 DEF Before
<1>3. k \notin B
  BY AheadOrders DEF Before
<1>4. IsFiniteSet(B) /\ Cardinality(B) \in Nat
  BY <1>1, FS_Subset, FS_CardinalityType DEF ValuesOf
<1>5. ASSUME NEW j \in B
      PROVE  Before(v, C, j) \in SUBSET B /\ Cardinality(Before(v, C, j)) < Cardinality(B)
  <2>1. j \in C /\ Before(v, C, j) \in SUBSET C
    BY <1>1 DEF Before
  <2>2. Before(v, C, j) \in SUBSET B
    BY <1>2, <2>1 DEF Before
  <2>3. j \notin Before(v, C, j)
    BY <2>1, AheadOrders DEF Before
  <2> DEFINE A == Before(v, C, j)
  <2> HIDE DEF A, B
  <2>4. Cardinality(A) <= Cardinality(B \ {j}) /\ Cardinality(B \ {j}) = Cardinality(B) - 1
    <3>1. A \in SUBSET (B \ {j}) /\ IsFiniteSet(B \ {j})
      BY <1>4, <2>2, <2>3, FS_Subset DEF A
    <3> QED BY <1>4, <3>1, FS_Subset, FS_RemoveElement
  <2>5. Cardinality(A) \in Nat
    BY <1>4, <2>2, FS_Subset, FS_CardinalityType DEF A
  <2> QED BY <1>4, <2>2, <2>4, <2>5 DEF A
<1>6. \A j \in C : Ahead(v, j, k) <=> j \in B
  BY DEF Before
<1>7. Initial(v, C, B) /\ Initial(v, C, B \cup {k})
  BY <1>1, <1>2, <1>6 DEF Initial
<1> QED BY <1>3, <1>4, <1>5, <1>7

\* A segment that is not all of C ends before some knob, and starts with one.
LEMMA FirstOutside ==
  ASSUME NEW v, NEW C, ValuesOf(v, C), NEW B, Initial(v, C, B), B # C
  PROVE  \E k \in C \ B : Before(v, C, k) = B
<1> DEFINE size(k) == Cardinality(Before(v, C, k))
           N == {size(k) : k \in C \ B}
<1>1. PICK k \in C \ B : \A j \in C \ B : size(k) <= size(j)
  <2>1. N \in SUBSET Nat
    <3>1. \A k \in C : size(k) \in Nat
      BY BeforeFacts
    <3> HIDE DEF size
    <3> QED BY <3>1
  <2>2. N # {}
    BY DEF Initial
  <2>3. PICK n \in N : \A m \in N : n <= m
    <3> HIDE DEF N
    <3> QED BY <2>1, <2>2, NatMin
  <2> QED BY <2>3
<1>2. ASSUME NEW j \in Before(v, C, k), j \notin B PROVE FALSE
  <2>1. j \in C /\ size(j) < size(k)
    BY BeforeFacts DEF Before
  <2>2. size(k) <= size(j) /\ size(k) \in Nat /\ size(j) \in Nat
    BY <1>1, <1>2, <2>1, BeforeFacts
  <2> HIDE DEF size
  <2> QED BY <2>1, <2>2
<1>3. ASSUME NEW b \in B PROVE b \in Before(v, C, k)
  <2>1. b \in C /\ ~Ahead(v, k, b) /\ b # k
    BY DEF Initial
  <2> QED BY <2>1, AheadOrders DEF Before
<1> QED BY <1>2, <1>3

LEMMA LastInside ==
  ASSUME NEW v, NEW C, ValuesOf(v, C), NEW B, Initial(v, C, B), B # {}
  PROVE  \E k \in B : B = Before(v, C, k) \cup {k}
<1> DEFINE size(k) == Cardinality(Before(v, C, k))
           N == {size(k) : k \in B}
<1>1. B \in SUBSET C
  BY DEF Initial
<1>2. PICK k \in B : \A j \in B : size(j) <= size(k)
  <2>1. N \in SUBSET Nat /\ N # {}
    <3>1. \A k \in B : size(k) \in Nat
      BY <1>1, BeforeFacts
    <3> HIDE DEF size
    <3> QED BY <3>1
  <2>2. Cardinality(C) \in Nat /\ \A n \in N : n <= Cardinality(C)
    <3>1. \A j \in B : Before(v, C, j) \in SUBSET C
      BY DEF Before
    <3> QED BY <3>1, FS_Subset, FS_CardinalityType DEF ValuesOf
  <2>3. PICK n \in N : \A m \in N : n >= m
    <3> HIDE DEF N
    <3> QED BY <2>1, <2>2, NatMax
  <2>4. PICK k \in B : n = size(k)
    BY <2>3
  <2>5. \A j \in B : size(k) >= size(j)
    BY <2>3, <2>4
  <2>6. \A j \in B : size(j) \in Nat
    BY <1>1, BeforeFacts
  <2> HIDE DEF size
  <2> QED BY <2>4, <2>5, <2>6
<1>3. ASSUME NEW j \in B, j # k PROVE j \in Before(v, C, k)
  <2>1. Ahead(v, j, k) \/ k \in Before(v, C, j)
    BY <1>1, <1>3, AheadOrders DEF Before
  <2>2. ASSUME k \in Before(v, C, j) PROVE FALSE
    <3>1. size(k) < size(j) /\ size(j) <= size(k) /\ size(k) \in Nat /\ size(j) \in Nat
      BY <1>1, <1>2, <2>2, BeforeFacts
    <3> HIDE DEF size
    <3> QED BY <3>1
  <2> QED BY <1>1, <2>1, <2>2 DEF Before
<1>4. Before(v, C, k) \in SUBSET B
  BY DEF Before, Initial
<1> QED BY <1>3, <1>4

\* No set of as many knobs weighs more than an initial segment.
LEMMA HeaviestFirst ==
  ASSUME NEW v, NEW C, ValuesOf(v, C), NEW B, Initial(v, C, B),
         NEW S \in SUBSET C, Cardinality(S) <= Cardinality(B)
  PROVE  Mass(v, S) <= Mass(v, B)
<1> DEFINE w == Weight(v)
           Bad == {T \in SUBSET C : Cardinality(T) <= Cardinality(B) /\ ~(Total(T, w) <= Total(B, w))}
           N == {Cardinality(T \ B) : T \in Bad}
<1>1. IsFiniteSet(C) /\ \A k \in C : w[k] \in Nat
  BY WeightFacts DEF ValuesOf
<1>2. \A T \in SUBSET C : IsFiniteSet(T) /\ Cardinality(T) \in Nat /\ Total(T, w) \in Nat
  BY <1>1, FS_Subset, FS_CardinalityType, TotalPart
<1>3. B \in SUBSET C
  BY DEF Initial
<1>4. SUFFICES ASSUME S \in Bad PROVE FALSE
  BY MassIs
<1>5. PICK T \in Bad : \A U \in Bad : Cardinality(T \ B) <= Cardinality(U \ B)
  <2>1. N \in SUBSET Nat /\ N # {}
    BY <1>2, <1>4
  <2>2. PICK n \in N : \A m \in N : n <= m
    <3> HIDE DEF N
    <3> QED BY <2>1, NatMin
  <2> QED BY <2>2
<1>6. T \in SUBSET C /\ Cardinality(T) <= Cardinality(B) /\ ~(Total(T, w) <= Total(B, w))
  BY <1>5
<1>7. PICK x \in T : x \notin B
  <2> SUFFICES ASSUME T \in SUBSET B PROVE FALSE
    OBVIOUS
  <2>1. \A k \in B : w[k] \in Nat
    BY <1>1, <1>3
  <2> HIDE DEF w
  <2> QED BY <1>2, <1>3, <1>6, <2>1, TotalPart
<1>8. PICK b \in B : b \notin T
  <2> SUFFICES ASSUME B \in SUBSET T PROVE FALSE
    OBVIOUS
  <2>1. B \in SUBSET (T \ {x}) /\ T \ {x} \in SUBSET C
    BY <1>6, <1>7
  <2>2. Cardinality(B) <= Cardinality(T \ {x}) /\ Cardinality(T \ {x}) = Cardinality(T) - 1
    BY <1>2, <1>6, <1>7, <2>1, FS_Subset, FS_RemoveElement
  <2> QED BY <1>2, <1>3, <1>6, <2>2
<1> DEFINE R == T \ {x}
           U == R \cup {b}
<1>9. /\ U \in SUBSET C /\ R \in SUBSET C /\ U \ {b} = R /\ b \in U
  BY <1>3, <1>6, <1>7, <1>8
<1>10. w[x] <= w[b] /\ w[x] \in Nat /\ w[b] \in Nat
  <2>1. x \in C /\ b \in C /\ ~Ahead(v, x, b) /\ x # b
    BY <1>3, <1>6, <1>7 DEF Initial
  <2>2. v[x] <= v[b]
    BY <2>1, AheadOrders
  <2> QED BY <1>1, <2>1, <2>2, WeightFacts
<1>11. Total(T, w) <= Total(U, w)
  <2>1. \A k \in C : w[k] \in Int
    BY <1>1
  <2> HIDE DEF w
  <2>2. Total(T, w) = w[x] + Total(R, w)
    BY <1>2, <1>6, <1>7, <2>1, TotalRemove
  <2>3. Total(U, w) = w[b] + Total(U \ {b}, w)
    <3> HIDE DEF U
    <3> QED BY <1>2, <1>9, <2>1, TotalRemove
  <2>4. Total(R, w) \in Nat
    BY <1>2, <1>9
  <2> HIDE DEF U, R
  <2> QED BY <1>9, <1>10, <2>2, <2>3, <2>4
<1>12. Cardinality(U) = Cardinality(T)
  <2>1. Cardinality(R) = Cardinality(T) - 1
    BY <1>2, <1>6, <1>7, FS_RemoveElement
  <2>2. Cardinality(R) = Cardinality(U) - 1
    <3> HIDE DEF R
    <3>1. IsFiniteSet(U) /\ b \in U
      BY <1>2, <1>9
    <3> HIDE DEF U
    <3> QED BY <1>9, <3>1, FS_RemoveElement
  <2>3. Cardinality(U) \in Nat /\ Cardinality(T) \in Nat
    BY <1>2, <1>6, <1>9
  <2> HIDE DEF U, R
  <2> QED BY <2>1, <2>2, <2>3
<1>13. U \in Bad
  <2>1. Total(T, w) \in Nat /\ Total(U, w) \in Nat /\ Total(B, w) \in Nat
    BY <1>2, <1>3, <1>6, <1>9
  <2> HIDE DEF U, w
  <2> QED BY <1>6, <1>9, <1>11, <1>12, <2>1
<1>14. Cardinality(U \ B) < Cardinality(T \ B)
  <2>1. U \ B = (T \ B) \ {x} /\ x \in T \ B
    BY <1>7, <1>8
  <2>2. T \ B \in SUBSET C
    BY <1>6
  <2>3. IsFiniteSet(T \ B) /\ Cardinality(T \ B) \in Nat
    BY <1>2, <2>2
  <2> HIDE DEF U
  <2>4. Cardinality((T \ B) \ {x}) = Cardinality(T \ B) - 1
    BY <2>1, <2>3, FS_RemoveElement
  <2> QED BY <2>1, <2>3, <2>4
<1>15. Cardinality(T \ B) <= Cardinality(U \ B)
  BY <1>5, <1>13
<1>16. Cardinality(T \ B) \in Nat /\ Cardinality(U \ B) \in Nat
  <2>1. T \ B \in SUBSET C /\ U \ B \in SUBSET C
    BY <1>6, <1>9
  <2> QED BY <1>2, <2>1
<1> HIDE DEF U
<1> QED BY <1>14, <1>15, <1>16

\* The cuts of C by v.
LEMMA CutFacts ==
  ASSUME NEW v, NEW C, ValuesOf(v, C), Mass(v, C) > 0,
         NEW cut \in 1 .. 100, NEW B, Initial(v, C, B), NEW D \in SUBSET C,
         \A k \in C : Before(v, C, k) = B => Reached(v, C, D, cut),
         B \in SUBSET D
  PROVE  Reached(v, C, D, cut)
<1>1. CASE B = C
  <2>1. D = C
    BY <1>1
  <2>2. Mass(v, C) \in Nat
    BY MassIs, WeightFacts, TotalPart DEF ValuesOf
  <2> DEFINE m == Mass(v, C)
  <2>3. cut * m <= 100 * m /\ cut * m \in Nat
    <3>1. m \in Nat /\ cut \in Nat /\ cut <= 100
      BY <2>2
    <3> HIDE DEF m
    <3> QED BY <3>1, Monotone
  <2> HIDE DEF m
  <2>4. 100 * m >= cut * m
    BY <2>2, <2>3 DEF m
  <2> QED BY <2>1, <2>4 DEF Reached, m
<1>2. CASE B # C
  BY <1>2, FirstOutside
<1> QED BY <1>1, <1>2

LEMMA ReachedGrows ==
  ASSUME NEW v, NEW C, ValuesOf(v, C), NEW cut \in 1 .. 100, NEW D \in SUBSET C, NEW S \in SUBSET C,
         Mass(v, S) <= Mass(v, D), Reached(v, C, S, cut)
  PROVE  Reached(v, C, D, cut)
<1>1. IsFiniteSet(C) /\ \A k \in C : Weight(v)[k] \in Nat
  BY WeightFacts DEF ValuesOf
<1>2. Mass(v, C) \in Nat /\ Mass(v, S) \in Nat /\ Mass(v, D) \in Nat
  BY <1>1, MassIs, TotalPart
<1> DEFINE m == cut * Mass(v, C)
<1>3. m \in Int /\ 100 * Mass(v, S) >= m
  BY <1>2 DEF Reached
<1> HIDE DEF m
<1>4. 100 * Mass(v, D) >= m
  BY <1>2, <1>3
<1> QED BY <1>4 DEF Reached, m

LEMMA PartReached ==
  ASSUME NEW v, NEW C, ValuesOf(v, C), NEW cut \in 1 .. 100, NEW D \in SUBSET C, NEW S \in SUBSET D,
         Reached(v, C, S, cut)
  PROVE  Reached(v, C, D, cut)
<1>1. IsFiniteSet(D) /\ \A k \in D : Weight(v)[k] \in Nat
  BY FS_Subset, WeightFacts DEF ValuesOf
<1>2. Mass(v, S) <= Mass(v, D)
  BY <1>1, MassIs, TotalPart
<1>3. S \in SUBSET C
  OBVIOUS
<1> QED BY <1>2, <1>3, ReachedGrows

LEMMA LorenzCuts ==
  ASSUME NEW v, NEW C, ValuesOf(v, C), Mass(v, C) > 0,
         NEW t, t = AssignLorenzTiers(v, C), NEW M, M = {k \in C : t[k] = "minimal"},
         NEW T, T = {k \in C : t[k] \in {"minimal", "core"}}
  PROVE  /\ Reached(v, C, M, CoverageMinimal)
         /\ \A S \in SUBSET C : Cardinality(S) < Cardinality(M) => ~Reached(v, C, S, CoverageMinimal)
         /\ Reached(v, C, T, CoverageCore)
         /\ \A k \in C \ T : \A j \in T : v[j] >= v[k]
<1>1. CoverageMinimal \in 1 .. 100 /\ CoverageCore \in 1 .. 100
  BY TieringAssumption
<1>2. Mass(v, C) # 0
  BY MassIs, WeightFacts, TotalPart DEF ValuesOf
<1>3. /\ M = {k \in C : IsMinimal(v, C, k)}
      /\ T = {k \in C : IsMinimal(v, C, k) \/ IsCore(v, C, k)}
  BY <1>2 DEF AssignLorenzTiers
<1>4. ASSUME NEW k \in C
      PROVE  /\ Before(v, C, k) \in SUBSET C /\ Before(v, C, k) \cup {k} \in SUBSET C
             /\ \A j \in C : Ahead(v, j, k) <=> j \in Before(v, C, k)
             /\ \A j \in Before(v, C, k) : Before(v, C, j) \in SUBSET Before(v, C, k)
  BY BeforeFacts DEF Before
<1>5. ASSUME NEW k \in C, NEW j \in Before(v, C, k)
      PROVE  /\ k \in M => j \in M
             /\ k \in T => j \in T
  <2>1. j \in C /\ Before(v, C, j) \in SUBSET Before(v, C, k) /\ Before(v, C, k) \in SUBSET C
    BY <1>4
  <2>2. IsMinimal(v, C, k) => IsMinimal(v, C, j)
    BY <1>1, <2>1, PartReached DEF IsMinimal
  <2>3. IsCore(v, C, k) => IsCore(v, C, j)
    BY <2>1 DEF IsCore
  <2> QED BY <1>3, <2>1, <2>2, <2>3
<1>6. Initial(v, C, M) /\ Initial(v, C, T)
  <2>1. M \in SUBSET C /\ T \in SUBSET C
    BY <1>3
  <2> QED BY <1>4, <1>5, <2>1 DEF Initial
<1>7. M \in SUBSET C /\ T \in SUBSET C /\ M \in SUBSET T
  BY <1>3
<1>8. Reached(v, C, M, CoverageMinimal)
  <2>1. ASSUME NEW k \in C, Before(v, C, k) = M PROVE Reached(v, C, M, CoverageMinimal)
    <3>1. k \notin M
      BY <2>1, BeforeFacts
    <3> QED BY <1>3, <2>1, <3>1 DEF IsMinimal
  <2> QED BY <1>1, <1>6, <1>7, <2>1, CutFacts
<1>9. ASSUME NEW S \in SUBSET C, Cardinality(S) < Cardinality(M), Reached(v, C, S, CoverageMinimal)
      PROVE  FALSE
  <2>1. \A U \in SUBSET C : IsFiniteSet(U) /\ Cardinality(U) \in Nat
    BY FS_Subset, FS_CardinalityType DEF ValuesOf
  <2>2. M # {}
    BY <1>9, <2>1, FS_EmptySet
  <2>3. PICK k \in M : M = Before(v, C, k) \cup {k}
    BY <1>6, <2>2, LastInside
  <2> DEFINE B == Before(v, C, k)
  <2>4. /\ Initial(v, C, B) /\ k \notin B /\ B \in SUBSET C /\ k \in C
    BY <1>4, <1>7, BeforeFacts
  <2>5. Cardinality(M) = Cardinality(B) + 1
    BY <2>1, <2>3, <2>4, FS_AddElement
  <2>6. Cardinality(S) <= Cardinality(B)
    BY <1>9, <2>1, <2>4, <2>5
  <2>7. Mass(v, S) <= Mass(v, B)
    BY <2>4, <2>6, HeaviestFirst
  <2>8. Reached(v, C, B, CoverageMinimal)
    BY <1>1, <1>9, <2>4, <2>7, ReachedGrows
  <2> QED BY <1>3, <2>3, <2>8 DEF IsMinimal
<1>10. Reached(v, C, T, CoverageCore)
  <2>1. ASSUME NEW k \in C, Before(v, C, k) = T PROVE Reached(v, C, T, CoverageCore)
    <3>1. k \notin T
      BY <2>1, BeforeFacts
    <3>2. PICK j \in Before(v, C, k) : Reached(v, C, Before(v, C, j) \cup {j}, CoverageCore)
      BY <1>3, <3>1 DEF IsCore
    <3>3. Before(v, C, j) \cup {j} \in SUBSET T
      BY <1>4, <2>1, <3>2
    <3> QED BY <1>1, <1>7, <3>2, <3>3, PartReached
  <2> QED BY <1>1, <1>6, <1>7, <2>1, CutFacts
<1>11. ASSUME NEW k \in C \ T, NEW j \in T PROVE v[j] >= v[k]
  <2>1. j \in C /\ ~Ahead(v, k, j) /\ j # k
    BY <1>6, <1>7, <1>11 DEF Initial
  <2>2. Ahead(v, j, k)
    BY <2>1, AheadOrders
  <2>3. v[k] <= v[j] /\ v[k] \in Int /\ v[j] \in Int
    BY <2>1, <2>2, AheadOrders DEF ValuesOf
  <2> QED BY <2>3
<1> QED BY <1>8, <1>9, <1>10, <1>11

LEMMA SameCuts ==
  ASSUME NEW v, NEW u, NEW C, ValuesOf(v, C), ValuesOf(u, C), \A k \in C : u[k] = v[k]
  PROVE  AssignLorenzTiers(u, C) = AssignLorenzTiers(v, C)
<1>1. ASSUME NEW S \in SUBSET C PROVE Mass(u, S) = Mass(v, S)
  <2>1. IsFiniteSet(S)
    BY FS_Subset DEF ValuesOf
  <2>2. ASSUME NEW k \in S PROVE Weight(v)[k] \in Int /\ Weight(u)[k] = Weight(v)[k]
    <3>1. k \in DOMAIN v /\ k \in DOMAIN u /\ v[k] \in Int /\ u[k] = v[k]
      BY DEF ValuesOf
    <3> QED BY <3>1 DEF Weight
  <2> QED BY <2>1, <2>2, MassIs, TotalSame
<1>2. ASSUME NEW S \in SUBSET C, NEW cut PROVE Reached(u, C, S, cut) <=> Reached(v, C, S, cut)
  BY <1>1 DEF Reached
<1>3. ASSUME NEW k \in C
      PROVE  /\ Before(u, C, k) = Before(v, C, k) /\ Before(v, C, k) \in SUBSET C
             /\ Before(v, C, k) \cup {k} \in SUBSET C
  BY DEF Before, Ahead
<1>4. ASSUME NEW k \in C PROVE IsMinimal(u, C, k) <=> IsMinimal(v, C, k)
  BY <1>2, <1>3 DEF IsMinimal
<1>5. ASSUME NEW k \in C PROVE IsCore(u, C, k) <=> IsCore(v, C, k)
  <2>1. \A j \in Before(v, C, k) : j \in C
    BY <1>3
  <2>2. \A j \in Before(v, C, k) :
          /\ IsMinimal(u, C, j) <=> IsMinimal(v, C, j)
          /\ Reached(u, C, Before(u, C, j) \cup {j}, CoverageCore)
                <=> Reached(v, C, Before(v, C, j) \cup {j}, CoverageCore)
    BY <1>2, <1>3, <1>4, <2>1
  <2> QED BY <1>3, <2>2 DEF IsCore
<1>6. Mass(u, C) = Mass(v, C)
  BY <1>1
<1> QED BY <1>4, <1>5, <1>6 DEF AssignLorenzTiers

LEMMA FusedType ==
  ASSUME NEW cols, NEW marginal \in [cols -> Importances], NEW best, NEW c \in Contributions,
         NEW pair, pair = [p \in SUBSET cols |-> IF p = best THEN c ELSE 0]
  PROVE  Fused(pair, marginal, cols) \in [cols -> Int]
<1> DEFINE top == TopMarginals(marginal, cols)
<1>1. c \in Nat /\ \A k \in cols : marginal[k] \in Int
  BY TieringAssumption
<1>2. ASSUME NEW k \in cols PROVE MaxInteraction(pair, marginal, cols, k) \in Int
  <2> DEFINE P == {0} \cup {pair[{k, j}] : j \in top \ {k}}
  <2>1. \A j \in top : {k, j} \in SUBSET cols
    BY DEF TopMarginals
  <2>2. P \in SUBSET {0, c} /\ 0 \in P
    BY <2>1
  <2> HIDE DEF P
  <2>3. \E x \in P : \A y \in P : x >= y
    BY <1>1, <2>2
  <2>4. Max(P) \in P
    BY <2>3 DEF Max
  <2>5. MaxInteraction(pair, marginal, cols, k) = IF k \in top THEN Max(P) ELSE 0
    BY DEF MaxInteraction, P
  <2>6. Max(P) \in Int
    <3>1. c \in Int /\ 0 \in Int
      BY <1>1
    <3>2. Max(P) = 0 \/ Max(P) = c
      BY <2>2, <2>4
    <3> QED BY <3>1, <3>2
  <2> HIDE DEF top
  <2> QED BY <2>5, <2>6
<1>3. ASSUME NEW k \in cols PROVE 2 * marginal[k] + MaxInteraction(pair, marginal, cols, k) \in Int
  <2> DEFINE a == marginal[k]
             b == MaxInteraction(pair, marginal, cols, k)
  <2>1. a \in Int /\ b \in Int
    BY <1>1, <1>2
  <2> HIDE DEF a, b
  <2>2. 2 * a + b \in Int
    BY <2>1
  <2> QED BY <2>2 DEF a, b
<1> QED BY <1>3 DEF Fused

\* Once there are tiers, they are the cuts of the importances on record.
TierInv ==
    /\ columns \subseteq Knobs
    /\ result.confirmed # {} =>
          /\ stage \in {"stability", "done"}
          /\ result.confirmed \subseteq Knobs /\ fused \in [Knobs -> Int]
          /\ result.tiers = AssignLorenzTiers(fused, result.confirmed)

LEMMA TierStart ==
  ASSUME TierInit PROVE TierInv
BY DEF TierInit, TierInv, DegenerateResult

LEMMA TierStep ==
  ASSUME TierInv, [TierNext]_tierVars PROVE TierInv'
<1>1. ASSUME NEW overrides \in SUBSET Nuisance, NEW rows \in BOOLEAN, NEW clusters \in BOOLEAN,
             Preflight(overrides, rows, clusters)
      PROVE  TierInv'
  BY <1>1 DEF Preflight, TierInv, DegenerateResult
<1>2. ASSUME NEW beaters \in SUBSET Knobs, BorutaIteration(beaters)
      PROVE  TierInv'
  BY <1>2 DEF BorutaIteration, TierInv
<1>3. ASSUME NEW marginal \in [columns -> Importances], NEW best, NEW c \in Contributions,
             Attribute(marginal, [pair \in SUBSET columns |-> IF pair = best THEN c ELSE 0])
      PROVE  TierInv'
  <2> DEFINE pair == [p \in SUBSET columns |-> IF p = best THEN c ELSE 0]
             value == Fused(pair, marginal, columns)
             C == Confirmed(hits, columns, FdrQ)
             Concluded == [Verdict EXCEPT !.degenerate = FALSE, !.reason = "none",
                                          !.confirmed = C, !.sweep = Sweep(value),
                                          !.tiers = AssignLorenzTiers(value, C)]
  <2>1. /\ columns' = columns
        /\ fused' = [k \in Knobs |-> IF k \in columns THEN value[k] ELSE 0]
        /\ \/ result' = Verdict
           \/ stage' = "stability" /\ result' = Concluded
    BY <1>3 DEF Attribute
  <2>2. value \in [columns -> Int]
    <3> HIDE DEF pair
    <3> QED BY <1>3, FusedType DEF pair
  <2>3. columns \in SUBSET Knobs /\ C \in SUBSET columns
    BY DEF TierInv, Confirmed
  <2> HIDE DEF value, pair
  <2>4. CASE result' = Verdict
    BY <2>1, <2>3, <2>4 DEF TierInv, Verdict, DegenerateResult
  <2>5. CASE stage' = "stability" /\ result' = Concluded
    <3>1. result'.confirmed = C /\ result'.tiers = AssignLorenzTiers(value, C)
      BY <2>5 DEF Verdict, DegenerateResult
    <3>2. fused' \in [Knobs -> Int] /\ \A k \in C : fused'[k] = value[k]
      BY <2>1, <2>2, <2>3
    <3>3. ValuesOf(value, C) /\ ValuesOf(fused', C)
      BY <2>2, <2>3, <3>2, TieringAssumption, FS_Subset DEF ValuesOf
    <3>4. AssignLorenzTiers(fused', C) = AssignLorenzTiers(value, C)
      <4> HIDE DEF C
      <4> QED BY <3>2, <3>3, SameCuts
    <3> HIDE DEF C
    <3>5. AssignLorenzTiers(fused, result.confirmed)' = AssignLorenzTiers(fused', C)
      BY <3>1 DEF AssignLorenzTiers, IsMinimal, IsCore, Reached, Before, Ahead, Mass, Weight, MapThenSumSet, MapThenFoldSet
    <3> QED BY <2>1, <2>3, <2>5, <3>1, <3>2, <3>4, <3>5 DEF TierInv
  <2> QED BY <2>1, <2>4, <2>5
<1>4. ASSUME NEW assignment, SubsampleReturns(assignment)
      PROVE  TierInv'
  <2>1. UNCHANGED <<stage, columns, fused, result>>
    BY <1>4 DEF SubsampleReturns
  <2> QED BY <2>1 DEF TierInv
<1>5. ASSUME Conclude
      PROVE  TierInv'
  <2>1. /\ stage' = "done" /\ columns' = columns /\ fused' = fused
        /\ result' = [result EXCEPT !.violations = Violating(result.tiers),
                                    !.probabilities = SelectionProbability]
    BY <1>5 DEF Conclude
  <2>2. result'.confirmed = result.confirmed /\ result'.tiers = result.tiers
    BY <2>1
  <2> QED BY <2>1, <2>2 DEF TierInv
<1>6. CASE UNCHANGED tierVars
  BY <1>6 DEF tierVars, TierInv
<1> QED BY <1>1, <1>2, <1>3, <1>4, <1>5, <1>6 DEF TierNext

LEMMA SmallestFromInv ==
  ASSUME TierInv PROVE MinimalIsSmallest
<1> SUFFICES ASSUME result.confirmed # {}, Mass(fused, result.confirmed) > 0
             PROVE  MinimalIsSmallest
  BY DEF MinimalIsSmallest
<1> DEFINE C == result.confirmed
           t == result.tiers
           M == {k \in C : t[k] = "minimal"}
           T == {k \in C : t[k] \in {"minimal", "core"}}
<1>1. ValuesOf(fused, C) /\ t = AssignLorenzTiers(fused, C)
  BY TieringAssumption, FS_Subset DEF TierInv, ValuesOf
<1>2. \A k \in C : t[k] \in {"minimal", "core", "standard"}
  BY <1>1 DEF AssignLorenzTiers
<1>3. /\ Tier({"minimal"}) = M /\ Tier({"minimal", "core"}) = T
      /\ Tier({"standard"}) = C \ T
  BY <1>2 DEF Tier
<1>4. /\ Reached(fused, C, M, CoverageMinimal)
      /\ \A S \in SUBSET C : Cardinality(S) < Cardinality(M) => ~Reached(fused, C, S, CoverageMinimal)
      /\ Reached(fused, C, T, CoverageCore)
      /\ \A k \in C \ T : \A j \in T : fused[j] >= fused[k]
  <2>1. M = {k \in C : t[k] = "minimal"} /\ T = {k \in C : t[k] \in {"minimal", "core"}}
    OBVIOUS
  <2>2. Mass(fused, C) > 0
    OBVIOUS
  <2> HIDE DEF C, t, M, T
  <2> QED BY <1>1, <2>1, <2>2, LorenzCuts
<1> QED BY <1>3, <1>4 DEF MinimalIsSmallest, Share

\* What Tiering promises of its tiers, whatever the knobs, the importances, the
\* interactions, the cuts and the stages that fail: the gate is the step-up procedure, no
\* fewer knobs reach the minimal cut than the minimal tier has, the minimal and core
\* tiers reach the core cut, and no standard knob has more importance than one of theirs
\* (scalpel_tier.assign_lorenz_tiers, run_scalpel_pipeline).
THEOREM TiersStaySound == TierSpec => []TiersAreSound
<1>1. TierInit => GateInv /\ TierInv
  BY GateInit, TierStart
<1>2. (GateInv /\ TierInv) /\ [TierNext]_tierVars => (GateInv /\ TierInv)'
  <2>1. GateInv /\ [TierNext]_tierVars => GateInv'
    BY GateNext
  <2>2. TierInv /\ [TierNext]_tierVars => TierInv'
    BY TierStep
  <2> QED BY <2>1, <2>2
<1>3. GateInv /\ TierInv => TiersAreSound
  BY GateImplies, SmallestFromInv DEF TiersAreSound
<1> QED BY <1>1, <1>2, <1>3, PTL DEF TierSpec

-----------------------------------------------------------------------------
(* How tiers reach the tuner.                                              *)

LEMMA OrderIndex ==
  /\ Index \in [Canonical -> 1 .. 4]
  /\ Index["minimal"] = 1 /\ Index["core"] = 2 /\ Index["standard"] = 3 /\ Index["extensive"] = 4
<1>1. /\ Order[1] = "minimal" /\ Order[2] = "core" /\ Order[3] = "standard" /\ Order[4] = "extensive"
  BY DEF Order
<1>2. \A i \in 1 .. 4 : i = 1 \/ i = 2 \/ i = 3 \/ i = 4
  OBVIOUS
<1>3. ASSUME NEW j \in 1 .. 4 PROVE (CHOOSE i \in 1 .. 4 : Order[i] = Order[j]) = j
  <2>1. \A i \in 1 .. 4 : Order[i] = Order[j] => i = j
    BY <1>1, <1>2
  <2> QED BY <2>1
<1>4. ASSUME NEW j \in 1 .. 4 PROVE Index[Order[j]] = j
  <2>1. Order[j] \in Canonical
    BY <1>1, <1>2 DEF Canonical
  <2> QED BY <1>3, <2>1 DEF Index
<1>5. \A tier \in Canonical : Index[tier] \in 1 .. 4
  BY <1>1, <1>4 DEF Canonical
<1>6. Index \in [Canonical -> 1 .. 4]
  BY <1>5 DEF Index
<1> QED BY <1>1, <1>4, <1>6

LEMMA FramesNest ==
  ASSUME NEW t, NEW a \in Canonical, NEW b \in Canonical, Index[a] <= Index[b]
  PROVE  TierFrame(t, a) \subseteq TierFrame(t, b)
<1>1. Index[a] \in 1 .. 4 /\ Index[b] \in 1 .. 4
  BY OrderIndex
<1>2. CASE b = "extensive"
  BY <1>2 DEF TierFrame
<1>3. CASE b # "extensive"
  <2>1. a # "extensive"
    BY <1>1, <1>3, OrderIndex DEF Canonical
  <2>2. 1 .. Index[a] \subseteq 1 .. Index[b]
    BY <1>1
  <2>3. KnobsByTier(t, a) \subseteq KnobsByTier(t, b)
    BY <2>2 DEF KnobsByTier
  <2> QED BY <1>3, <2>1, <2>3 DEF TierFrame
<1> QED BY <1>2, <1>3

Cut(t) == \A tier \in Canonical : csv[tier] = TierFrame(t, tier)

\* The tier's file, or that of the next broader one that has knobs.
LEMMA LoadsFirst ==
  ASSUME NEW t, Cut(t), NEW tier \in Canonical
  PROVE  \E u \in Canonical : /\ Index[u] >= Index[tier] /\ Load(tier) = csv[u] /\ csv[u] # {}
                              /\ \A v \in Canonical :
                                    Index[v] >= Index[tier] /\ csv[v] # {} => Index[u] <= Index[v]
<1>1. Fallbacks(tier) # {} /\ Fallbacks(tier) \subseteq Canonical
  <2>1. csv["extensive"] # Missing /\ "extensive" \in Canonical
    BY TierFilesAssumption DEF Cut, Canonical, TierFrame, Missing
  <2>2. Index["extensive"] >= Index[tier]
    BY OrderIndex
  <2> QED BY <2>1, <2>2 DEF Fallbacks
<1>2. \E u \in Fallbacks(tier) : \A v \in Fallbacks(tier) : Index[u] <= Index[v]
  <2>1. \A v \in Fallbacks(tier) : v \in {"minimal", "core", "standard", "extensive"}
    BY <1>1 DEF Canonical
  <2> QED BY <1>1, <2>1, OrderIndex
<1>3. PICK u \in Fallbacks(tier) : /\ Load(tier) = csv[u]
                                   /\ \A v \in Fallbacks(tier) : Index[u] <= Index[v]
  BY <1>1, <1>2 DEF Load
<1> QED BY <1>1, <1>3 DEF Fallbacks, Missing

LEMMA LoadsNest ==
  ASSUME NEW t, Cut(t), NEW tier \in Canonical
  PROVE  /\ Load(tier) # {} /\ TierFrame(t, tier) \subseteq Load(tier)
         /\ \A narrower \in Canonical :
               Index[narrower] <= Index[tier] => Load(narrower) \subseteq Load(tier)
<1>1. PICK u \in Canonical : /\ Index[u] >= Index[tier] /\ Load(tier) = csv[u] /\ csv[u] # {}
                             /\ \A v \in Canonical :
                                   Index[v] >= Index[tier] /\ csv[v] # {} => Index[u] <= Index[v]
  BY LoadsFirst
<1>2. TierFrame(t, tier) \subseteq Load(tier)
  BY <1>1, FramesNest DEF Cut
<1>3. ASSUME NEW narrower \in Canonical, Index[narrower] <= Index[tier]
      PROVE  Load(narrower) \subseteq Load(tier)
  <2>1. PICK s \in Canonical : /\ Load(narrower) = csv[s]
                               /\ \A v \in Canonical :
                                     Index[v] >= Index[narrower] /\ csv[v] # {} => Index[s] <= Index[v]
    BY LoadsFirst
  <2>2. Index[u] >= Index[narrower]
    BY <1>1, <1>3, OrderIndex
  <2>3. Index[s] <= Index[u]
    BY <1>1, <2>1, <2>2
  <2>4. TierFrame(t, s) \subseteq TierFrame(t, u)
    BY <2>3, FramesNest
  <2> QED BY <1>1, <2>1, <2>4 DEF Cut
<1> QED BY <1>1, <1>2, <1>3

\* What a preprocessing command has still to write, after n tiers.
Remaining(n) ==
    <<Order, <<"core", "standard", "extensive">>, <<"standard", "extensive">>, <<"extensive">>>>[n + 1]

CutSoFar(n) == \A tier \in Canonical : Index[tier] <= n => csv[tier] = TierFrame(loaded, tier)

CutInv ==
    /\ csv = [tier \in Canonical |-> csv[tier]]
    /\ command \in {"none", "exporting", "diagnosing", "preprocessing"}
    /\ whole \in {"no", "so far", "yes"}
    /\ command = "preprocessing" =>
          /\ whole # "yes"
          /\ \E n \in 0 .. 3 : pending = Remaining(n) /\ (whole = "so far" => CutSoFar(n))
    /\ whole = "yes" => \E t : Cut(t) /\ loaded \in {t, NoAssignment}

LEMMA RemainingIs ==
  ASSUME NEW n \in 0 .. 3
  PROVE  /\ Len(Remaining(n)) = 4 - n /\ Head(Remaining(n)) = Order[n + 1] /\ Order[n + 1] \in Canonical
         /\ n < 3 => Tail(Remaining(n)) = Remaining(n + 1)
<1>1. n = 0 \/ n = 1 \/ n = 2 \/ n = 3
  OBVIOUS
<1>2. CASE n = 0
  BY <1>2 DEF Remaining, Order, Canonical
<1>3. CASE n = 1
  BY <1>3 DEF Remaining, Order, Canonical
<1>4. CASE n = 2
  BY <1>4 DEF Remaining, Order, Canonical
<1>5. CASE n = 3
  BY <1>5 DEF Remaining, Order, Canonical
<1> QED BY <1>1, <1>2, <1>3, <1>4, <1>5

LEMMA CutInit == FileInit => CutInv
BY DEF FileInit, CutInv

LEMMA CutNext == CutInv /\ [FileNext]_fileVars => CutInv'
<1> SUFFICES ASSUME CutInv, [FileNext]_fileVars PROVE CutInv'
  OBVIOUS
<1>1. CASE UNCHANGED fileVars
  BY <1>1 DEF fileVars, CutInv, CutSoFar, Cut
<1>2. CASE Analyze \/ ReplaceTiers \/ ReplaceDiagnostics
  <2>1. /\ UNCHANGED <<csv, whole, loaded, pending>> /\ command # "preprocessing"
        /\ command' \in {"none", "exporting", "diagnosing"}
    BY <1>2 DEF Analyze, ReplaceTiers, ReplaceDiagnostics, Start
  <2> QED BY <2>1 DEF CutInv, Cut
<1>3. CASE Preprocess
  <2>1. /\ command' = "preprocessing" /\ pending' = Order /\ whole' = "so far" /\ csv' = csv
    BY <1>3 DEF Preprocess, Start
  <2>2. Order = Remaining(0) /\ 0 \in 0 .. 3
    BY DEF Remaining
  <2>3. CutSoFar(0)'
    BY OrderIndex DEF CutSoFar
  <2> QED BY <2>1, <2>2, <2>3 DEF CutInv
<1>4. CASE Crash
  <2>1. /\ command' = "none" /\ loaded' = NoAssignment /\ UNCHANGED <<csv, whole>>
    BY <1>4 DEF Crash
  <2> QED BY <2>1 DEF CutInv, Cut
<1>5. CASE WriteTier
  <2>1. command = "preprocessing" /\ whole # "yes" /\ loaded' = loaded
    BY <1>5 DEF WriteTier, CutInv
  <2>2. PICK n \in 0 .. 3 : pending = Remaining(n) /\ (whole = "so far" => CutSoFar(n))
    BY <2>1 DEF CutInv
  <2>3. /\ Len(pending) = 4 - n /\ Head(pending) = Order[n + 1] /\ Order[n + 1] \in Canonical
        /\ n < 3 => Tail(pending) = Remaining(n + 1)
    BY <2>2, RemainingIs
  <2> DEFINE tier == Order[n + 1]
             frame == TierFrame(loaded, tier)
  <2>4. Index[tier] = n + 1
    BY OrderIndex DEF Order
  <2>5. /\ pending' = Tail(pending)
        /\ command' = IF n = 3 THEN "none" ELSE "preprocessing"
    <3>1. pending' = Tail(pending) /\ command' = IF Len(pending) = 1 THEN "none" ELSE command
      BY <1>5 DEF WriteTier
    <3>2. Len(pending) = 1 <=> n = 3
      BY <2>3
    <3> QED BY <2>1, <3>1, <3>2
  <2>6. \/ /\ csv' = [csv EXCEPT ![tier] = Saved(csv[tier], frame)]
           /\ whole' = IF n = 3 /\ whole = "so far" THEN "yes" ELSE whole
        \/ csv' = csv /\ whole' = "no"
    <3>1. \/ /\ csv' = [csv EXCEPT ![Head(pending)] =
                             Saved(csv[Head(pending)], TierFrame(loaded, Head(pending)))]
             /\ whole' = IF Len(pending) = 1 /\ whole = "so far" THEN "yes" ELSE whole
          \/ csv' = csv /\ whole' = "no"
      BY <1>5 DEF WriteTier
    <3>2. Len(pending) = 1 <=> n = 3
      BY <2>3
    <3> QED BY <2>3, <3>1, <3>2
  <2>7. csv' = [u \in Canonical |-> csv'[u]]
    BY <2>6 DEF CutInv
  <2>8. Saved(csv[tier], frame) = frame
    BY DEF Saved, Missing
  <2>9. CASE whole' = "no"
    <3>1. CASE n = 3
      BY <2>5, <2>7, <2>9, <3>1 DEF CutInv
    <3>2. CASE n # 3
      <4>1. n + 1 \in 0 .. 3 /\ pending' = Remaining(n + 1) /\ command' = "preprocessing"
        BY <2>3, <2>5, <3>2
      <4> QED BY <2>7, <2>9, <4>1 DEF CutInv
    <3> QED BY <3>1, <3>2
  <2>11. CASE csv' = [csv EXCEPT ![tier] = frame] /\ whole' # "no"
    <3> DEFINE m == n + 1
    <3>1. whole = "so far" /\ CutSoFar(n)
      BY <2>1, <2>2, <2>6, <2>11 DEF CutInv
    <3>2. ASSUME NEW u \in Canonical, Index[u] <= m PROVE csv'[u] = TierFrame(loaded, u)
      <4>1. CASE u = tier
        BY <2>3, <2>11, <4>1 DEF CutInv
      <4>2. CASE u # tier
        <5>1. Index[u] # m
          BY <2>4, <3>2, <4>2, OrderIndex DEF Order, Canonical
        <5>2. Index[u] <= n
          BY <3>2, <5>1, OrderIndex
        <5> QED BY <2>11, <3>1, <4>2, <5>2 DEF CutSoFar, CutInv
      <4> QED BY <4>1, <4>2
    <3>3. CASE n = 3
      <4>1. \A u \in Canonical : Index[u] <= m
        BY <3>3, OrderIndex
      <4>2. Cut(loaded)'
        BY <2>1, <3>2, <4>1 DEF Cut
      <4> QED BY <2>1, <2>5, <2>6, <2>7, <3>3, <4>2 DEF CutInv
    <3>4. CASE n < 3
      <4>1. m \in 0 .. 3 /\ pending' = Remaining(m) /\ command' = "preprocessing"
        BY <2>3, <2>5, <3>4
      <4>2. CutSoFar(m)'
        BY <2>1, <3>2 DEF CutSoFar
      <4>3. whole' = "so far"
        <5>1. whole' = IF n = 3 /\ whole = "so far" THEN "yes" ELSE whole
          BY <2>6, <2>11
        <5>2. n # 3
          BY <3>4
        <5> QED BY <3>1, <5>1, <5>2, Zenon
      <4> HIDE DEF m
      <4> QED BY <2>1, <2>7, <4>1, <4>2, <4>3 DEF CutInv
    <3> QED BY <3>3, <3>4
  <2> QED BY <2>6, <2>8, <2>9, <2>11
<1> QED BY <1>1, <1>2, <1>3, <1>4, <1>5 DEF FileNext

LEMMA CutLoads == CutInv => LoadedTiersNest
<1> SUFFICES ASSUME CutInv, whole = "yes"
             PROVE  LoadedTiersNest
  BY DEF LoadedTiersNest
<1>1. PICK t : Cut(t) /\ loaded \in {t, NoAssignment}
  BY DEF CutInv
<1>2. ASSUME NEW tier \in Canonical PROVE TierFrame(loaded, tier) \subseteq Load(tier)
  <2>1. TierFrame(NoAssignment, tier) \subseteq TierFrame(t, tier)
    BY DEF TierFrame, KnobsByTier, NoAssignment
  <2> QED BY <1>1, <2>1, LoadsNest
<1> QED BY <1>1, <1>2, LoadsNest DEF LoadedTiersNest

\* When one preprocessing command has written every tier's file, a tier loads with every
\* knob that command put in it or in a narrower one, a narrower tier loads within a broader
\* one and no tier is empty, whatever files earlier commands had left, whole or in part
\* (preprocess_tuning_data's files, load_knob_space_for_tier); any knobs and commands.
THEOREM TiersLoadNested == FileSpec => []LoadedTiersNest
<1>1. FileInit => CutInv
  BY CutInit
<1>2. CutInv /\ [FileNext]_fileVars => CutInv'
  BY CutNext
<1> QED BY <1>1, <1>2, CutLoads, PTL DEF FileSpec

-----------------------------------------------------------------------------
(* The records of a session.                                               *)

Throughputs == {NoMetrics, 0, 1, 4, 5}
Readings == Values \cup {NoConfig}
Copies == [generation : Nat, elite : 0 .. Size, copied : Readings]
Records ==
    [config : [Workers -> Values], throughput : [Workers -> Throughputs], actual : [Workers -> Readings],
     score : [Workers -> Int], exploitations : SUBSET (Workers \X Workers), ruler : {2, 5},
     measured : [Workers -> Readings], origin : [Workers -> Copies]]

\* After the rescue: somebody lives and everybody has metrics, or those who have are barely alive.
Settled(t) ==
    \/ (\E w \in Workers : t[w] \in {4, 5}) /\ \A w \in Workers : t[w] # NoMetrics
    \/ \A w \in Workers : t[w] \in {NoMetrics, 1}

Touched(r) == {p[2] : p \in r.exploitations}

\* Record r of generation g, given the records before it.
Fit(r, h, g) ==
    /\ Settled(r.throughput)
    /\ \A w \in Workers : r.score[w] = IF r.throughput[w] > 0 THEN r.ruler * r.throughput[w] ELSE 0
    /\ \A p \in r.exploitations :
          /\ r.origin[p[2]].generation = g /\ r.origin[p[2]].elite = p[1]
          /\ r.measured[p[1]] = ReadBack(r.origin[p[2]].copied)
          /\ r.config[p[2]] \in Near(r.origin[p[2]].copied)
    /\ \A w \in Workers \ Touched(r) :
          r.throughput[w] # NoMetrics /\ r.actual[w] # NoConfig => r.config[w] = r.actual[w]
    /\ g > 1 => \A w \in Workers : r.measured[w] = ReadBack(h[g - 1].config[w])
    /\ \A f \in 1 .. g - 1 : \A w \in Touched(h[f]) \cap Touched(r) :
          r.throughput[w] <= 1 \/ g - f >= ReadyInterval

\* After n evaluations: steps count from the last exploit.
Ages(n) == \A g \in DOMAIN history : \A w \in Touched(history[g]) : steps[w] <= n - g

RoundInv ==
    /\ config \in [Workers -> Values] /\ steps \in [Workers -> Nat]
    /\ throughput \in [Workers -> Throughputs] /\ actual \in [Workers -> Readings]
    /\ ruler \in {2, 5} /\ measured \in [Workers -> Readings] /\ origin \in [Workers -> Copies]
    /\ events \in SUBSET (Workers \X Workers)
    /\ phase # "recording" => events = {}
    /\ phase \in {"evaluating", "stopped"} =>
          /\ Len(history) > 0 => config = history[Len(history)].config
          /\ Ages(Len(history))
    /\ phase \in {"rescuing", "scoring", "evolving", "recording"} =>
          /\ Len(history) > 0 => \A w \in Workers : measured[w] = ReadBack(history[Len(history)].config[w])
          /\ Ages(Len(history) + 1)
    /\ phase = "rescuing" => \A w \in Workers :
          /\ throughput[w] # NoMetrics
          /\ measured[w] = ReadBack(config[w])
          /\ throughput[w] # 0 /\ actual[w] # NoConfig => config[w] = actual[w]
    /\ phase \in {"scoring", "evolving"} =>
          /\ Settled(throughput)
          /\ \A w \in Workers : throughput[w] > 0 =>
                measured[w] = ReadBack(config[w]) /\ (actual[w] # NoConfig => config[w] = actual[w])
    /\ phase = "recording" =>
          /\ Fit(Record, history, Len(history) + 1)
          /\ \A w \in Touched(Record) : steps[w] = 0

HistoryInv ==
    /\ history \in Seq(Records)
    /\ \A g \in DOMAIN history : Fit(history[g], history, g)
PhaseInv == phase \in {"evaluating", "rescuing", "scoring", "evolving", "recording", "stopped"}
AuditInv == PhaseInv /\ HistoryInv /\ RoundInv

LEMMA WorkersAre ==
  /\ IsFiniteSet(Workers) /\ Cardinality(Workers) = Size /\ Workers # {} /\ Workers \subseteq Nat
  /\ Size \in Nat /\ Size > 0 /\ ReadyInterval \in Nat
<1>1. Size \in Nat \ {0} /\ ReadyInterval \in Nat
  BY TraceAssumption
<1>2. IsFiniteSet(1 .. Size) /\ Cardinality(1 .. Size) = Size
  BY <1>1, FS_Interval
<1>3. 1 \in 1 .. Size
  BY <1>1
<1> QED BY <1>1, <1>2, <1>3 DEF Workers

LEMMA ReadBackFacts ==
  ASSUME NEW v \in Values
  PROVE  ReadBack(v) \in Values /\ ReadBack(v) \in Readings /\ ReadBack(ReadBack(v)) = ReadBack(v)
BY DEF Values, ReadBack, Readings

LEMMA TouchedAre ==
  ASSUME NEW r \in Records
  PROVE  Touched(r) \subseteq Workers
<1>1. r.exploitations \in SUBSET (Workers \X Workers)
  BY DEF Records
<1> QED BY <1>1 DEF Touched

LEMMA HistoryKept ==
  ASSUME HistoryInv, history' = history PROVE HistoryInv'
BY DEF HistoryInv, Fit, Touched, Settled

LEMMA AuditStart ==
  ASSUME TraceInit PROVE AuditInv
<1> USE DEF TraceInit
<1>1. history \in Seq(Records) /\ DOMAIN history = {} /\ Len(history) = 0
  OBVIOUS
<1>2. config \in [Workers -> Values]
  <2>1. \A w \in Workers : (w + 1) % 3 \in 0 .. 2
    BY WorkersAre
  <2> QED BY <2>1 DEF Values
<1>3. ruler \in {2, 5}
  BY DEF Rulers
<1>4. origin \in [Workers -> Copies]
  BY WorkersAre DEF Original, Copies, Readings
<1>5. /\ throughput \in [Workers -> Throughputs] /\ actual \in [Workers -> Readings]
      /\ measured \in [Workers -> Readings] /\ steps \in [Workers -> Nat]
  BY DEF Throughputs, Readings
<1>6. RoundInv
  BY <1>1, <1>2, <1>3, <1>4, <1>5 DEF RoundInv, Ages
<1> QED BY <1>1, <1>6 DEF AuditInv, HistoryInv, PhaseInv

LEMMA EvaluateStep ==
  ASSUME AuditInv, NEW results \in [Workers -> Good \cup Faults], Evaluate(results)
  PROVE  RoundInv'
<1>1. /\ phase = "evaluating" /\ phase' = "rescuing"
      /\ config' = [w \in Workers |-> Capture(w, results[w]).config]
      /\ actual' = [w \in Workers |-> Capture(w, results[w]).actual]
      /\ throughput' = [w \in Workers |-> results[w].throughput]
      /\ steps' = [w \in Workers |-> steps[w] + 1]
      /\ measured' = [w \in Workers |-> ReadBack(config[w])]
      /\ UNCHANGED <<ruler, events, origin, history>>
  BY DEF Evaluate
<1>2. RoundInv
  BY DEF AuditInv
<1>3. ASSUME NEW w \in Workers
      PROVE  /\ config'[w] \in Values /\ actual'[w] \in Readings
             /\ throughput'[w] \in {0, 1, 4, 5}
             /\ measured'[w] = ReadBack(config'[w]) /\ measured'[w] = ReadBack(config[w])
             /\ measured'[w] \in Readings
             /\ throughput'[w] # 0 /\ actual'[w] # NoConfig => config'[w] = actual'[w]
  <2> DEFINE o == results[w]
  <2>1. /\ o.throughput \in {0, 1, 4, 5} /\ o.readback \in {"captured", "empty", "raised"}
        /\ o.throughput # 0 => o.readback # "raised"
    <3>1. o \in Good \/ o \in Faults
      OBVIOUS
    <3> HIDE DEF o
    <3> QED BY <3>1 DEF Good, Faults
  <2>2. config[w] \in Values /\ actual[w] \in Readings
    BY <1>2 DEF RoundInv
  <2>3. /\ config'[w] = Capture(w, o).config /\ actual'[w] = Capture(w, o).actual
        /\ throughput'[w] = o.throughput /\ measured'[w] = ReadBack(config[w])
    BY <1>1
  <2>4. NoConfig \in Readings
    BY DEF Readings
  <2> HIDE DEF o
  <2>5. CASE o.readback = "captured"
    <3>1. config'[w] = ReadBack(config[w]) /\ actual'[w] = ReadBack(config[w])
      BY <2>3, <2>5 DEF Capture
    <3> QED BY <2>1, <2>2, <2>3, <3>1, ReadBackFacts
  <2>6. CASE o.readback = "empty"
    <3>1. config'[w] = config[w] /\ actual'[w] = NoConfig
      BY <2>3, <2>6 DEF Capture
    <3> QED BY <2>1, <2>2, <2>3, <2>4, <3>1, ReadBackFacts
  <2>7. CASE o.readback = "raised"
    <3>1. config'[w] = config[w] /\ actual'[w] = actual[w]
      BY <2>3, <2>7 DEF Capture
    <3> QED BY <2>1, <2>2, <2>3, <2>7, <3>1, ReadBackFacts
  <2> QED BY <2>1, <2>5, <2>6, <2>7
<1>4. /\ config' \in [Workers -> Values] /\ actual' \in [Workers -> Readings]
      /\ throughput' \in [Workers -> Throughputs] /\ measured' \in [Workers -> Readings]
      /\ \A w \in Workers : throughput'[w] # NoMetrics
  BY <1>1, <1>3 DEF Throughputs, NoMetrics
<1>5. steps' \in [Workers -> Nat]
  BY <1>1, <1>2 DEF RoundInv
<1>6. Len(history) > 0 => \A w \in Workers : measured'[w] = ReadBack(history[Len(history)].config[w])
  BY <1>1, <1>2, <1>3 DEF RoundInv
<1>7. history \in Seq(Records) /\ Len(history) \in Nat /\ DOMAIN history = 1 .. Len(history)
  BY DEF AuditInv, HistoryInv
<1>8. ASSUME NEW g \in DOMAIN history, NEW w \in Touched(history[g])
      PROVE  steps'[w] <= Len(history) + 1 - g
  <2>1. w \in Workers
    BY <1>7, <1>8, TouchedAre
  <2>2. steps[w] <= Len(history) - g /\ steps[w] \in Nat
    BY <1>1, <1>2, <1>8, <2>1 DEF RoundInv, Ages
  <2>3. steps'[w] = steps[w] + 1
    BY <1>1, <2>1
  <2> QED BY <1>7, <2>2, <2>3
<1>9. Ages(Len(history) + 1)'
  <2>1. \A g \in DOMAIN history : \A w \in Touched(history[g]) : steps'[w] <= Len(history) + 1 - g
    BY <1>8
  <2>2. history' = history
    BY <1>1
  <2> QED BY <2>1, <2>2 DEF Ages
<1> QED BY <1>1, <1>2, <1>3, <1>4, <1>5, <1>6, <1>9 DEF RoundInv

LEMMA ViableIs ==
  ASSUME RoundInv, NEW w \in Workers
  PROVE  Viable(w) <=> throughput[w] \in {4, 5}
<1>1. throughput[w] \in {NoMetrics, 0, 1, 4, 5} /\ (ruler = 2 \/ ruler = 5)
  BY DEF RoundInv, Throughputs
<1> QED BY <1>1 DEF Viable, Score, DeadConfigThreshold, NoMetrics

LEMMA RescueStep ==
  ASSUME AuditInv, RescueDeadWorkers
  PROVE  RoundInv'
<1>1. RoundInv
  BY DEF AuditInv
<1>2. /\ phase = "rescuing" /\ phase' = "scoring"
      /\ UNCHANGED <<steps, actual, ruler, events, measured, history>>
  BY DEF RescueDeadWorkers
<1>3. Ages(Len(history) + 1)'
  BY <1>1, <1>2 DEF RoundInv, Ages, Touched
<1>4. ASSUME NEW w \in Workers
      PROVE  /\ throughput[w] \in {0, 1, 4, 5} /\ measured[w] = ReadBack(config[w])
             /\ throughput[w] # 0 /\ actual[w] # NoConfig => config[w] = actual[w]
  BY <1>1, <1>2 DEF RoundInv, Throughputs
<1>5. CASE \E w \in Workers : Viable(w)
  <2>1. UNCHANGED <<config, origin, throughput>>
    BY <1>5 DEF RescueDeadWorkers
  <2>2. \E w \in Workers : throughput[w] \in {4, 5}
    BY <1>1, <1>5, ViableIs
  <2>3. Settled(throughput)'
    BY <1>4, <2>1, <2>2 DEF Settled, NoMetrics
  <2> QED BY <1>1, <1>2, <1>3, <1>4, <2>1, <2>3 DEF RoundInv
<1>6. CASE ~\E w \in Workers : Viable(w)
  <2>1. PICK value \in Values : Rescue(value)
    BY <1>6 DEF RescueDeadWorkers
  <2>2. /\ config' = [w \in Workers |-> IF w \in Dead THEN value ELSE config[w]]
        /\ origin' = [w \in Workers |-> IF w \in Dead THEN Original ELSE origin[w]]
        /\ throughput' = [w \in Workers |-> IF w \in Dead THEN NoMetrics ELSE throughput[w]]
    BY <2>1 DEF Rescue
  <2>3. ASSUME NEW w \in Workers
        PROVE  /\ \/ throughput'[w] = NoMetrics
                  \/ throughput'[w] = 1 /\ throughput[w] = 1 /\ config'[w] = config[w]
               /\ config'[w] \in Values /\ origin'[w] \in Copies
    <3>1. throughput[w] = 0 \/ throughput[w] = 1
      BY <1>1, <1>4, <1>6, ViableIs
    <3>2. config[w] \in Values /\ origin[w] \in Copies /\ Original \in Copies
      BY <1>1, WorkersAre DEF RoundInv, Copies, Original, Readings
    <3>3. throughput[w] = 0 <=> w \in Dead
      BY DEF Dead
    <3>4. CASE w \in Dead
      BY <2>2, <3>2, <3>4
    <3>5. CASE w \notin Dead
      BY <2>2, <3>1, <3>2, <3>3, <3>5
    <3> QED BY <3>4, <3>5
  <2>4. Settled(throughput)'
    BY <2>3 DEF Settled
  <2>5. /\ config' \in [Workers -> Values] /\ origin' \in [Workers -> Copies]
        /\ throughput' \in [Workers -> Throughputs]
    BY <2>2, <2>3 DEF Throughputs
  <2>6. \A w \in Workers : throughput'[w] > 0 =>
           measured'[w] = ReadBack(config'[w]) /\ (actual'[w] # NoConfig => config'[w] = actual'[w])
    BY <1>2, <1>4, <2>3 DEF NoMetrics
  <2> QED BY <1>1, <1>2, <1>3, <2>4, <2>5, <2>6 DEF RoundInv
<1> QED BY <1>5, <1>6

LEMMA ScoringStep ==
  ASSUME AuditInv, FinalizeScores
  PROVE  RoundInv'
<1>1. RoundInv
  BY DEF AuditInv
<1>2. /\ phase = "scoring" /\ phase' = "evolving"
      /\ UNCHANGED <<config, steps, throughput, actual, events, measured, origin, history>>
  BY DEF FinalizeScores, workerVars
<1>3. ruler' \in {2, 5}
  BY <1>1 DEF FinalizeScores, RoundInv, Rulers
<1>4. Ages(Len(history) + 1)' /\ Settled(throughput)'
  BY <1>1, <1>2 DEF RoundInv, Ages, Touched, Settled
<1> QED BY <1>1, <1>2, <1>3, <1>4 DEF RoundInv

LEMMA SomeElite ==
  ASSUME RoundInv, NEW u \in Workers, Viable(u)
  PROVE  Elites # {}
<1> DEFINE B == {w \in Workers : Viable(w) /\ \A v \in Workers : Viable(v) => throughput[v] <= throughput[w]}
<1>1. \A w \in Workers : Viable(w) <=> throughput[w] \in {4, 5}
  BY ViableIs
<1>2. B # {}
  <2>1. CASE \E w \in Workers : throughput[w] = 5
    BY <1>1, <2>1
  <2>2. CASE ~\E w \in Workers : throughput[w] = 5
    BY <1>1, <2>2
  <2> QED BY <2>1, <2>2
<1>3. PICK w \in B : \A v \in B : w <= v
  <2>1. B \in SUBSET Nat
    BY WorkersAre
  <2> HIDE DEF B
  <2> QED BY <1>2, <2>1, NatMin
<1>4. ASSUME NEW v \in Workers, Viable(v), Above(v, w) PROVE FALSE
  <2>1. throughput[v] <= throughput[w] /\ v \in Nat /\ w \in Nat
    BY <1>4, WorkersAre
  <2>2. throughput[v] \in {4, 5} /\ throughput[w] \in {4, 5}
    BY <1>1, <1>4
  <2>3. throughput[v] = throughput[w] /\ v < w
    BY <1>4, <2>1, <2>2 DEF Above
  <2>4. v \in B
    BY <1>4, <2>3
  <2> QED BY <1>3, <2>1, <2>3, <2>4
<1>5. w \in Elites
  BY <1>4 DEF Elites
<1> QED BY <1>5

\* What evolution does with a worker, the poor ones and the others.
LEMMA EvolveStep ==
  ASSUME AuditInv, Evolve
  PROVE  RoundInv'
<1>1. RoundInv
  BY DEF AuditInv
<1>2. /\ phase = "evolving" /\ phase' = "recording"
      /\ UNCHANGED <<throughput, actual, ruler, measured, history>>
  BY DEF Evolve
<1>3. PICK elite \in IF Elites = {} THEN {0} ELSE Elites :
        LET poor == IF elite = 0 THEN {} ELSE Poor
        IN  /\ events' = {<<elite, w>> : w \in poor}
            /\ \E child \in [poor -> IF elite = 0 THEN Values ELSE Near(config[elite])] :
                  config' = [w \in Workers |-> IF w \in poor THEN child[w] ELSE config[w]]
            /\ steps' = [w \in Workers |-> IF w \in poor THEN Adopted(w) ELSE steps[w]]
            /\ origin' = [w \in Workers |->
                            IF w \in poor THEN [generation |-> Len(history) + 1, elite |-> elite,
                                                copied |-> config[elite]]
                            ELSE origin[w]]
  BY DEF Evolve
<1> DEFINE poor == IF elite = 0 THEN {} ELSE Poor
<1>4. PICK child \in [poor -> IF elite = 0 THEN Values ELSE Near(config[elite])] :
        config' = [w \in Workers |-> IF w \in poor THEN child[w] ELSE config[w]]
  BY <1>3
<1>5. /\ events' = {<<elite, w>> : w \in poor}
      /\ steps' = [w \in Workers |-> IF w \in poor THEN 0 ELSE steps[w]]
      /\ origin' = [w \in Workers |->
                      IF w \in poor THEN [generation |-> Len(history) + 1, elite |-> elite,
                                          copied |-> config[elite]]
                      ELSE origin[w]]
  BY <1>3 DEF Adopted
<1>6. /\ history \in Seq(Records) /\ Len(history) \in Nat /\ DOMAIN history = 1 .. Len(history)
      /\ \A g \in DOMAIN history : history[g] \in Records
  BY DEF AuditInv, HistoryInv
<1>7. /\ \A w \in Workers : throughput[w] \in {NoMetrics, 0, 1, 4, 5} /\ steps[w] \in Nat
      /\ \A w \in Workers : config[w] \in Values /\ origin[w] \in Copies
      /\ Settled(throughput) /\ Ages(Len(history) + 1)
      /\ \A w \in Workers : throughput[w] > 0 =>
            measured[w] = ReadBack(config[w]) /\ (actual[w] # NoConfig => config[w] = actual[w])
  BY <1>1, <1>2 DEF RoundInv, Throughputs
<1>8. poor \subseteq Workers
  BY DEF Poor
<1>9. ASSUME NEW w \in poor
      PROVE  /\ elite \in Workers /\ measured[elite] = ReadBack(config[elite])
             /\ config'[w] \in Near(config[elite]) /\ config'[w] \in Values
             /\ throughput[w] <= 1 \/ steps[w] >= ReadyInterval
  <2>1. elite \in Elites /\ elite # 0 /\ w \in Poor
    BY <1>3
  <2>2. elite \in Workers /\ Viable(elite) /\ w \in Workers
    BY <2>1 DEF Elites, Poor
  <2>3. throughput[elite] > 0
    BY <1>1, <2>2, ViableIs
  <2>4. config'[w] = child[w] /\ child[w] \in Near(config[elite])
    BY <1>4, <2>1, <2>2
  <2>5. throughput[w] <= 1 \/ steps[w] >= ReadyInterval
    BY <1>1, <1>7, <2>1, <2>2, ViableIs DEF Poor, Ready, NoMetrics
  <2> QED BY <1>7, <2>2, <2>3, <2>4, <2>5 DEF Near
<1>10. ASSUME NEW w \in Workers, w \notin poor
       PROVE  /\ config'[w] = config[w]
              /\ throughput[w] # NoMetrics /\ actual[w] # NoConfig => config[w] = actual[w]
  <2>1. config'[w] = config[w]
    BY <1>4, <1>10
  <2>2. throughput[w] # NoMetrics => throughput[w] > 0
    <3>1. CASE \E u \in Workers : throughput[u] \in {4, 5}
      <4>1. PICK u \in Workers : Viable(u)
        BY <1>1, <3>1, ViableIs
      <4>2. Elites # {}
        BY <1>1, <4>1, SomeElite
      <4>3. poor = Poor
        <5>1. elite \in Elites
          BY <1>3, <4>2
        <5>2. elite # 0
          BY <5>1, WorkersAre DEF Elites, Workers
        <5> QED BY <5>2
      <4>4. Viable(w)
        BY <1>10, <4>3 DEF Poor, Elites
      <4> QED BY <1>1, <4>4, ViableIs
    <3>2. CASE ~\E u \in Workers : throughput[u] \in {4, 5}
      BY <1>7, <3>2 DEF Settled
    <3> QED BY <3>1, <3>2
  <2> QED BY <1>7, <2>1, <2>2
<1> HIDE DEF poor
<1>11. /\ events' \in SUBSET (Workers \X Workers) /\ config' \in [Workers -> Values]
       /\ steps' \in [Workers -> Nat] /\ origin' \in [Workers -> Copies]
  <2>1. events' \in SUBSET (Workers \X Workers)
    BY <1>5, <1>8, <1>9
  <2>2. \A w \in Workers : config'[w] \in Values
    BY <1>7, <1>9, <1>10
  <2>3. \A w \in poor : [generation |-> Len(history) + 1, elite |-> elite, copied |-> config[elite]] \in Copies
    BY <1>6, <1>7, <1>9 DEF Copies, Workers, Readings
  <2>4. config' \in [Workers -> Values]
    BY <1>4, <2>2
  <2>5. steps' \in [Workers -> Nat]
    BY <1>5, <1>7
  <2>6. origin' \in [Workers -> Copies]
    BY <1>5, <1>7, <2>3
  <2> QED BY <2>1, <2>4, <2>5, <2>6
<1>12. {p[2] : p \in events'} = poor
  <2>1. \A w \in poor : <<elite, w>> \in events' /\ <<elite, w>>[2] = w
    BY <1>5
  <2>2. \A p \in events' : p[2] \in poor
    BY <1>5
  <2> QED BY <2>1, <2>2
<1>13. \A p \in events' : p[1] = elite /\ p[2] \in poor
  BY <1>5
<1>14. ASSUME NEW g \in DOMAIN history, NEW w \in Touched(history[g])
       PROVE  /\ w \in Workers
              /\ steps'[w] <= Len(history) + 1 - g
              /\ w \in poor => throughput[w] <= 1 \/ Len(history) + 1 - g >= ReadyInterval
  <2>1. w \in Workers
    BY <1>6, <1>14, TouchedAre
  <2>2. steps[w] <= Len(history) + 1 - g /\ steps[w] \in Nat
    BY <1>7, <1>14, <2>1 DEF Ages
  <2>3. g \in 1 .. Len(history)
    BY <1>6
  <2> QED BY <1>5, <1>6, <1>9, <2>1, <2>2, <2>3, WorkersAre
<1>15. Fit(Record, history, Len(history) + 1)'
  <2> DEFINE r == [config |-> config', throughput |-> throughput, actual |-> actual,
                   score |-> [w \in Workers |-> IF throughput[w] > 0 THEN ruler * throughput[w] ELSE 0],
                   exploitations |-> events', ruler |-> ruler, measured |-> measured, origin |-> origin']
  <2>1. Record' = r
    BY <1>2 DEF Record, Score
  <2>2. /\ r.config = config' /\ r.throughput = throughput /\ r.actual = actual
        /\ r.exploitations = events' /\ r.ruler = ruler /\ r.measured = measured /\ r.origin = origin'
        /\ \A w \in Workers : r.score[w] = IF throughput[w] > 0 THEN ruler * throughput[w] ELSE 0
    OBVIOUS
  <2> HIDE DEF r
  <2>3. Touched(r) = poor
    BY <1>12, <2>2 DEF Touched
  <2> DEFINE n == Len(history) + 1
  <2>4. n - 1 = Len(history) /\ (n > 1 <=> Len(history) > 0) /\ n \in Nat
    BY <1>6
  <2>5. ASSUME NEW p \in r.exploitations
        PROVE  /\ r.origin[p[2]].generation = n /\ r.origin[p[2]].elite = p[1]
               /\ r.measured[p[1]] = ReadBack(r.origin[p[2]].copied)
               /\ r.config[p[2]] \in Near(r.origin[p[2]].copied)
    <3>1. p[1] = elite /\ p[2] \in poor /\ p[2] \in Workers
      BY <1>8, <1>13, <2>2
    <3>2. origin'[p[2]] = [generation |-> n, elite |-> elite, copied |-> config[elite]]
      BY <1>5, <3>1
    <3> QED BY <1>9, <2>2, <3>1, <3>2
  <2>6. \A w \in Workers \ Touched(r) :
           r.throughput[w] # NoMetrics /\ r.actual[w] # NoConfig => r.config[w] = r.actual[w]
    BY <1>10, <2>2, <2>3
  <2>7. n > 1 => \A w \in Workers : r.measured[w] = ReadBack(history[n - 1].config[w])
    BY <1>1, <1>2, <2>2, <2>4 DEF RoundInv
  <2>8. \A f \in 1 .. n - 1 : \A w \in Touched(history[f]) \cap Touched(r) :
           r.throughput[w] <= 1 \/ n - f >= ReadyInterval
    BY <1>6, <1>14, <2>2, <2>3, <2>4
  <2>9. Settled(r.throughput)
    BY <1>7, <2>2
  <2> HIDE DEF n
  <2>10. Fit(r, history, n)
    BY <2>2, <2>5, <2>6, <2>7, <2>8, <2>9 DEF Fit
  <2>11. history' = history /\ (Len(history) + 1)' = n
    BY <1>2 DEF n
  <2> QED BY <2>1, <2>10, <2>11 DEF Fit, Touched, Settled
<1>16. \A w \in Touched(Record)' : steps'[w] = 0
  <2>1. Touched(Record)' = poor
    BY <1>12 DEF Touched, Record
  <2> QED BY <1>5, <1>8, <2>1
<1>17. Ages(Len(history) + 1)'
  <2>1. \A g \in DOMAIN history : \A w \in Touched(history[g]) : steps'[w] <= Len(history) + 1 - g
    BY <1>14
  <2>2. history' = history
    BY <1>2
  <2> QED BY <2>1, <2>2 DEF Ages
<1> QED BY <1>1, <1>2, <1>11, <1>15, <1>16, <1>17 DEF RoundInv

LEMMA FitPrefix ==
  ASSUME NEW r, NEW h, NEW k, NEW g \in Nat, \A f \in 1 .. g - 1 : k[f] = h[f], Fit(r, h, g)
  PROVE  Fit(r, k, g)
<1>1. g > 1 => k[g - 1] = h[g - 1]
  OBVIOUS
<1>2. \A f \in 1 .. g - 1 : Touched(k[f]) = Touched(h[f])
  OBVIOUS
<1> QED BY <1>1, <1>2 DEF Fit

LEMMA RecordStep ==
  ASSUME AuditInv, Step
  PROVE  HistoryInv' /\ RoundInv'
<1>1. /\ RoundInv /\ phase = "recording" /\ phase' \in {"evaluating", "stopped"}
      /\ history' = Append(history, Record) /\ events' = {}
      /\ UNCHANGED <<config, steps, throughput, actual, ruler, measured, origin>>
  BY DEF AuditInv, Step, workerVars
<1> DEFINE r == Record
           n == Len(history) + 1
<1>2. /\ history \in Seq(Records) /\ n \in Nat /\ n > 0 /\ DOMAIN history = 1 .. n - 1
      /\ \A g \in DOMAIN history : history[g] \in Records /\ Fit(history[g], history, g)
  BY DEF AuditInv, HistoryInv
<1>3. r \in Records
  <2>1. ASSUME NEW w \in Workers PROVE Score(w) \in Int
    <3>1. throughput[w] \in {NoMetrics, 0, 1, 4, 5} /\ (ruler = 2 \/ ruler = 5)
      BY <1>1 DEF RoundInv, Throughputs
    <3> QED BY <3>1 DEF Score, NoMetrics
  <2> QED BY <1>1, <2>1 DEF Record, Records, RoundInv
<1>4. Fit(r, history, n) /\ \A w \in Touched(r) : steps[w] = 0
  BY <1>1 DEF RoundInv
<1>5. r.config = config
  BY DEF Record
<1> HIDE DEF r
<1>6. /\ history' \in Seq(Records) /\ Len(history') = n /\ DOMAIN history' = 1 .. n
      /\ history'[n] = r /\ \A g \in 1 .. n - 1 : history'[g] = history[g]
  <2>1. history' = Append(history, r)
    BY <1>1 DEF r
  <2> QED BY <1>2, <1>3, <2>1
<1>7. ASSUME NEW g \in 1 .. n PROVE Fit(history'[g], history', g)
  <2>1. Fit(history'[g], history, g)
    BY <1>2, <1>4, <1>6
  <2>2. g \in Nat /\ \A f \in 1 .. g - 1 : history'[f] = history[f]
    BY <1>2, <1>6
  <2> QED BY <2>1, <2>2, FitPrefix
<1>8. HistoryInv'
  BY <1>6, <1>7 DEF HistoryInv, Fit, Touched, Settled
<1>9. Ages(Len(history))'
  <2>1. ASSUME NEW g \in 1 .. n, NEW w \in Touched(history'[g]) PROVE steps[w] <= n - g
    <3>1. CASE g = n
      BY <1>2, <1>4, <1>6, <2>1, <3>1
    <3>2. CASE g # n
      <4>1. g \in DOMAIN history /\ w \in Touched(history[g])
        BY <1>2, <1>6, <2>1, <3>2
      <4> QED BY <1>1, <4>1 DEF RoundInv, Ages
    <3> QED BY <3>1, <3>2
  <2>2. \A g \in DOMAIN history' : \A w \in Touched(history'[g]) : steps'[w] <= Len(history') - g
    BY <1>1, <1>6, <2>1
  <2> HIDE DEF n
  <2> QED BY <2>2 DEF Ages
<1>10. Len(history') > 0 => config' = history'[Len(history')].config
  BY <1>1, <1>5, <1>6
<1> HIDE DEF n
<1> QED BY <1>1, <1>8, <1>9, <1>10 DEF RoundInv

LEMMA AuditNext ==
  ASSUME AuditInv, [TraceNext]_traceVars PROVE AuditInv'
<1>1. ASSUME NEW results \in [Workers -> Good \cup Faults], Evaluate(results) PROVE AuditInv'
  <2>1. history' = history /\ PhaseInv'
    BY <1>1 DEF Evaluate, PhaseInv
  <2> QED BY <1>1, <2>1, EvaluateStep, HistoryKept DEF AuditInv
<1>2. CASE RescueDeadWorkers
  <2>1. history' = history /\ PhaseInv'
    BY <1>2 DEF RescueDeadWorkers, PhaseInv
  <2> QED BY <1>2, <2>1, RescueStep, HistoryKept DEF AuditInv
<1>3. CASE FinalizeScores
  <2>1. history' = history /\ PhaseInv'
    BY <1>3 DEF FinalizeScores, PhaseInv
  <2> QED BY <1>3, <2>1, ScoringStep, HistoryKept DEF AuditInv
<1>4. CASE Evolve
  <2>1. history' = history /\ PhaseInv'
    BY <1>4 DEF Evolve, PhaseInv
  <2> QED BY <1>4, <2>1, EvolveStep, HistoryKept DEF AuditInv
<1>5. CASE Step
  <2>1. PhaseInv'
    BY <1>5 DEF Step, PhaseInv
  <2> QED BY <1>5, <2>1, RecordStep DEF AuditInv
<1>6. CASE UNCHANGED traceVars
  <2>1. /\ UNCHANGED <<phase, config, steps, throughput, actual, ruler, events, measured, origin, history>>
        /\ HistoryInv /\ RoundInv /\ PhaseInv
    BY <1>6 DEF traceVars, workerVars, AuditInv
  <2>2. Ages(Len(history))' = Ages(Len(history)) /\ Ages(Len(history) + 1)' = Ages(Len(history) + 1)
    BY <2>1 DEF Ages, Touched
  <2>3. Record' = Record
    BY <2>1 DEF Record, Score
  <2>4. /\ Fit(Record, history, Len(history) + 1)' = Fit(Record, history, Len(history) + 1)
        /\ Touched(Record)' = Touched(Record) /\ Settled(throughput)' = Settled(throughput)
    BY <2>1, <2>3 DEF Fit, Touched, Settled
  <2>5. RoundInv'
    BY <2>1, <2>2, <2>4 DEF RoundInv
  <2> QED BY <2>1, <2>5, HistoryKept DEF AuditInv, PhaseInv
<1> QED BY <1>1, <1>2, <1>3, <1>4, <1>5, <1>6 DEF TraceNext

-----------------------------------------------------------------------------
(* What the audit makes of them.                                           *)

LEMMA RecordsAre ==
  ASSUME AuditInv
  PROVE  /\ Len(history) \in Nat /\ DOMAIN history = 1 .. Len(history)
         /\ \A g \in DOMAIN history : history[g] \in Records /\ Fit(history[g], history, g)
BY DEF AuditInv, HistoryInv

LEMMA ExploitationsAre ==
  ASSUME AuditInv, NEW e \in Exploitations(history)
  PROVE  /\ e.generation \in DOMAIN history /\ e.elite \in Workers /\ e.poor \in Workers
         /\ e.poor \in Touched(history[e.generation])
         /\ \E p \in history[e.generation].exploitations : p[1] = e.elite /\ p[2] = e.poor
<1>1. PICK g \in DOMAIN history :
        e \in {[generation |-> g, elite |-> p[1], poor |-> p[2]] : p \in history[g].exploitations}
  BY DEF Exploitations
<1>2. PICK p \in history[g].exploitations : e = [generation |-> g, elite |-> p[1], poor |-> p[2]]
  BY <1>1
<1>3. history[g].exploitations \in SUBSET (Workers \X Workers)
  BY RecordsAre DEF Records
<1>4. p[1] \in Workers /\ p[2] \in Workers /\ p[2] \in Touched(history[g])
  BY <1>3 DEF Touched
<1> QED BY <1>2, <1>4

LEMMA TouchedExploits ==
  ASSUME AuditInv, NEW g \in DOMAIN history, NEW w \in Touched(history[g])
  PROVE  \E e \in Exploitations(history) : e.generation = g /\ e.poor = w
<1>1. PICK p \in history[g].exploitations : w = p[2]
  BY DEF Touched
<1> DEFINE e == [generation |-> g, elite |-> p[1], poor |-> p[2]]
<1>2. e \in Exploitations(history)
  BY DEF Exploitations
<1>3. e.generation = g /\ e.poor = w
  BY <1>1
<1> HIDE DEF e
<1> QED BY <1>2, <1>3

LEMMA RecoverySound ==
  ASSUME AuditInv PROVE RecoveryComparesChild
<1> SUFFICES ASSUME NEW e \in Comparable(history)
             PROVE  LET copy == history[e.generation].origin[e.poor]
                    IN  /\ copy.generation = e.generation /\ copy.elite = e.elite
                        /\ history[e.generation].measured[e.elite] = ReadBack(copy.copied)
                        /\ ChildMetric(history, e) > 0 =>
                               \E v \in Near(copy.copied) :
                                   history[e.generation + 1].measured[e.poor] = ReadBack(v)
  BY DEF RecoveryComparesChild
<1> DEFINE g == e.generation
           copy == history[g].origin[e.poor]
<1>1. e \in Exploitations(history) /\ ChildMetric(history, e) # NoMetrics
  BY DEF Comparable
<1>2. /\ g \in DOMAIN history /\ e.poor \in Workers
      /\ \E p \in history[g].exploitations : p[1] = e.elite /\ p[2] = e.poor
  BY <1>1, ExploitationsAre
<1>3. g + 1 \in DOMAIN history
  BY <1>1 DEF ChildMetric, Metric, InTrace
<1>4. Fit(history[g], history, g) /\ Fit(history[g + 1], history, g + 1) /\ g \in Nat /\ g > 0
  BY <1>2, <1>3, RecordsAre
<1>5. /\ copy.generation = g /\ copy.elite = e.elite
      /\ history[g].measured[e.elite] = ReadBack(copy.copied)
      /\ history[g].config[e.poor] \in Near(copy.copied)
  BY <1>2, <1>4 DEF Fit
<1>6. history[g + 1].measured[e.poor] = ReadBack(history[g].config[e.poor])
  <2>1. g + 1 > 1 /\ (g + 1) - 1 = g
    BY <1>4
  <2> QED BY <1>2, <1>4, <2>1 DEF Fit
<1> QED BY <1>5, <1>6

LEMMA EarlySound ==
  ASSUME AuditInv PROVE EarlyMeansDying
<1> SUFFICES ASSUME NEW w \in Workers, NEW n \in ShortGaps(history, w)
             PROVE  Metric(history, n[2], w) <= 1
  BY DEF EarlyMeansDying
<1>1. /\ n[1] \in ExploitsOf(history, w) /\ n[2] \in ExploitsOf(history, w)
      /\ n[1] < n[2] /\ n[2] - n[1] < ReadyInterval
  BY DEF ShortGaps, Neighbours
<1>2. \A g \in ExploitsOf(history, w) : g \in DOMAIN history /\ w \in Touched(history[g])
  BY ExploitationsAre DEF ExploitsOf
<1>3. n[1] \in DOMAIN history /\ n[2] \in DOMAIN history /\ n[1] \in 1 .. n[2] - 1 /\ n[2] \in Nat
  BY <1>1, <1>2, RecordsAre
<1>4. history[n[2]].throughput[w] <= 1 \/ n[2] - n[1] >= ReadyInterval
  BY <1>1, <1>2, <1>3, RecordsAre DEF Fit
<1>5. history[n[2]].throughput[w] <= 1
  BY <1>1, <1>3, <1>4, WorkersAre
<1> QED BY <1>3, <1>5 DEF Metric, InTrace

LEMMA RatchetSound ==
  ASSUME AuditInv PROVE RatchetMeansStale
<1> SUFFICES ASSUME NEW x \in Ratchets(history)
             PROVE  Metric(history, x[1][1], x[2]) = NoMetrics
  BY DEF RatchetMeansStale
<1> DEFINE g == x[1][1]
           w == x[2]
<1>1. /\ g \in DOMAIN history /\ w \in Workers /\ Untouched(history, x[1], w)
      /\ Actual(history, g, w) # NoConfig /\ Intended(history, g, w) # Actual(history, g, w)
  BY DEF Ratchets, Neighbours
<1>2. w \notin Touched(history[g])
  BY <1>1, TouchedExploits DEF Untouched
<1>3. history[g].config[w] # history[g].actual[w] /\ history[g].actual[w] # NoConfig
  BY <1>1 DEF Actual, Intended, InTrace
<1>4. history[g].throughput[w] = NoMetrics
  BY <1>1, <1>2, <1>3, RecordsAre DEF Fit
<1> QED BY <1>1, <1>4 DEF Metric, InTrace

LEMMA SumOverIs == \A S, f : SumOver(S, f) = Total(S, f)
BY DEF SumOver, Total

\* The sums behind the two means of record r: somebody lives, or those measured are barely alive.
Sums(S, n, Q, r) ==
    /\ S \in Nat /\ n \in Nat /\ Q \in Nat /\ n > 0 /\ S > 0
    /\ \/ n = Size /\ Q = r * S /\ S <= 5 * Size
       \/ S = n /\ n <= Size /\ Q <= 5 * Size

LEMMA MeansAre ==
  ASSUME AuditInv, NEW g \in Metered(history)
  PROVE  Sums(SumMetric(history, g), Cardinality(Meters(history, g)), SumScore(history, g), history[g].ruler)
<1> DEFINE r == history[g]
           t == r.throughput
           M == Meters(history, g)
<1>1. g \in DOMAIN history /\ M # {} /\ M = {w \in Workers : t[w] # NoMetrics}
  BY DEF Metered, Meters
<1>2. r \in Records /\ Fit(r, history, g)
  BY <1>1, RecordsAre
<1>3. (r.ruler = 2 \/ r.ruler = 5) /\ \A w \in Workers : t[w] \in {-1, 0, 1, 4, 5} /\ r.score[w] \in Int
  BY <1>2 DEF Records, Throughputs, NoMetrics
<1>4. /\ Settled(t)
      /\ \A w \in Workers : r.score[w] = IF t[w] > 0 THEN r.ruler * t[w] ELSE 0
  BY <1>2 DEF Fit
<1>5. SumMetric(history, g) = Total(M, t) /\ SumScore(history, g) = Total(Workers, r.score)
  BY SumOverIs DEF SumMetric, SumScore
<1>6. IsFiniteSet(M) /\ Cardinality(M) \in Nat /\ Cardinality(M) <= Size /\ Cardinality(M) > 0
  BY <1>1, WorkersAre, FS_Subset, FS_CardinalityType, FS_EmptySet
<1> DEFINE score == r.score
           ruler1 == r.ruler
           S == Total(M, t)
           Q == Total(Workers, score)
<1>7. CASE (\E w \in Workers : t[w] \in {4, 5}) /\ \A w \in Workers : t[w] # NoMetrics
  <2>1. M = Workers
    BY <1>1, <1>7
  <2>2. ASSUME NEW w \in Workers PROVE t[w] \in Nat /\ t[w] \in Int /\ t[w] <= 5
    <3>1. t[w] # -1
      BY <1>7 DEF NoMetrics
    <3> QED BY <1>3, <3>1
  <2>3. ASSUME NEW w \in Workers PROVE score[w] = ruler1 * t[w]
    <3>1. t[w] = 0 \/ t[w] > 0
      BY <2>2
    <3>2. ruler1 * 0 = 0
      BY <1>3
    <3> QED BY <1>4, <3>1, <3>2
  <2>4. ruler1 \in Int /\ ruler1 \in Nat
    BY <1>3
  <2>5. PICK u \in Workers : t[u] \in {4, 5}
    BY <1>7
  <2>6. t[u] = 4 \/ t[u] = 5
    BY <2>5
  <2> HIDE DEF t, score, ruler1
  <2>7. Q = ruler1 * Total(Workers, t)
    BY <2>2, <2>3, <2>4, WorkersAre, TotalScaled
  <2>8. Total(Workers, t) \in Int /\ Total(Workers, t) <= 5 * Cardinality(Workers)
    BY <2>2, WorkersAre, TotalAtMost
  <2>9. /\ \A T \in SUBSET Workers : Total(T, t) \in Nat /\ Total(T, t) <= Total(Workers, t)
    BY <2>2, WorkersAre, TotalPart
  <2>10. Total(Workers, t) = t[u] + Total(Workers \ {u}, t)
    BY <2>2, WorkersAre, TotalRemove
  <2>11. Total(Workers \ {u}, t) \in Nat /\ Total(Workers, t) \in Nat
    BY <2>9
  <2>12. Total(Workers, t) > 0
    BY <2>6, <2>10, <2>11
  <2>13. ruler1 * Total(Workers, t) \in Nat
    BY <2>4, <2>11
  <2>14. SumMetric(history, g) = Total(Workers, t) /\ SumScore(history, g) = Q
         /\ Cardinality(M) = Size /\ r.ruler = ruler1
    BY <1>5, <2>1, WorkersAre DEF t, score, ruler1
  <2> HIDE DEF M, Q
  <2> QED BY <1>6, <2>7, <2>8, <2>11, <2>12, <2>13, <2>14, WorkersAre DEF Sums, M
<1>8. CASE \A w \in Workers : t[w] \in {NoMetrics, 1}
  <2>1. \A w \in M : t[w] = 1
    BY <1>1, <1>8
  <2>2. ASSUME NEW w \in Workers PROVE score[w] \in Nat /\ score[w] <= 5 /\ score[w] \in Int
    <3>1. t[w] = 1 \/ t[w] = -1
      BY <1>8 DEF NoMetrics
    <3>2. score[w] = IF t[w] > 0 THEN ruler1 * t[w] ELSE 0
      BY <1>4
    <3>3. ruler1 = 2 \/ ruler1 = 5
      BY <1>3
    <3> HIDE DEF t, score, ruler1
    <3> QED BY <3>1, <3>2, <3>3
  <2> HIDE DEF t, score, ruler1
  <2>3. Total(M, t) = Cardinality(M)
    BY <1>6, <2>1, TotalOnes
  <2>4. Q \in Int /\ Q <= 5 * Cardinality(Workers)
    BY <2>2, WorkersAre, TotalAtMost
  <2>5. Q \in Nat
    BY <2>2, WorkersAre, TotalPart
  <2>6. SumMetric(history, g) = Cardinality(M) /\ SumScore(history, g) = Q
    BY <1>5, <2>3 DEF t, score
  <2> HIDE DEF M, Q
  <2> QED BY <1>6, <2>4, <2>5, <2>6, WorkersAre DEF Sums, M
<1> QED BY <1>4, <1>7, <1>8 DEF Settled

LEMMA Cancel ==
  ASSUME NEW a \in Int, NEW b \in Int, NEW n \in Nat, n > 0, a * n < b * n
  PROVE  a < b
<1> SUFFICES ASSUME b <= a PROVE FALSE
  OBVIOUS
<1>1. (a - b) * n >= 0
  <2>1. a - b \in Nat
    OBVIOUS
  <2> DEFINE d == a - b
  <2> HIDE DEF d
  <2>2. d * n >= 0
    BY <2>1 DEF d
  <2> QED BY <2>2 DEF d
<1>2. (a - b) * n = a * n - b * n
  OBVIOUS
<1> QED BY <1>1, <1>2

LEMMA NoShock ==
  ASSUME NEW S1, NEW n1, NEW Q1, NEW S2, NEW n2, NEW Q2, NEW r, r = 2 \/ r = 5,
         Sums(S1, n1, Q1, r), Sums(S2, n2, Q2, r),
         20 * (S2 * n1 - S1 * n2) < S1 * n2, -20 * (S2 * n1 - S1 * n2) < S1 * n2
  PROVE  ~(Q2 - Q1 > 10 * Size) /\ ~(-(Q2 - Q1) > 10 * Size)
<1>1. /\ S1 \in Nat /\ n1 \in Nat /\ Q1 \in Nat /\ n1 > 0 /\ S2 \in Nat /\ n2 \in Nat /\ Q2 \in Nat /\ n2 > 0
      /\ Size \in Nat /\ Size > 0
  BY WorkersAre DEF Sums
<1>2. CASE n1 = Size /\ Q1 = r * S1 /\ S1 <= 5 * Size /\ n2 = Size /\ Q2 = r * S2 /\ S2 <= 5 * Size
  <2>1. /\ 20 * (S2 * Size - S1 * Size) = (20 * (S2 - S1)) * Size
        /\ -20 * (S2 * Size - S1 * Size) = (-20 * (S2 - S1)) * Size
    BY <1>1
  <2>2. (20 * (S2 - S1)) * Size < S1 * Size /\ (-20 * (S2 - S1)) * Size < S1 * Size
    BY <1>2, <2>1
  <2>3. 20 * (S2 - S1) \in Int /\ -20 * (S2 - S1) \in Int /\ S1 \in Int
    BY <1>1
  <2>4. 20 * (S2 - S1) < S1 /\ -20 * (S2 - S1) < S1
    BY <1>1, <2>2, <2>3, Cancel
  <2>5. CASE r = 2
    BY <1>1, <1>2, <2>4, <2>5
  <2>6. CASE r = 5
    BY <1>1, <1>2, <2>4, <2>6
  <2> QED BY <2>5, <2>6
<1>3. CASE n1 = Size /\ Q1 = r * S1 /\ S1 <= 5 * Size /\ S2 = n2 /\ Q2 <= 5 * Size
  <2>1. /\ 20 * (n2 * Size - S1 * n2) = (20 * (Size - S1)) * n2
        /\ -20 * (n2 * Size - S1 * n2) = (-20 * (Size - S1)) * n2
    BY <1>1
  <2>2. (-20 * (Size - S1)) * n2 < S1 * n2
    BY <1>3, <2>1
  <2>3. -20 * (Size - S1) \in Int /\ S1 \in Int
    BY <1>1
  <2>4. -20 * (Size - S1) < S1
    BY <1>1, <2>2, <2>3, Cancel
  <2>5. CASE r = 2
    BY <1>1, <1>3, <2>4, <2>5
  <2>6. CASE r = 5
    BY <1>1, <1>3, <2>4, <2>6
  <2> QED BY <2>5, <2>6
<1>4. CASE S1 = n1 /\ Q1 <= 5 * Size /\ n2 = Size /\ Q2 = r * S2 /\ S2 <= 5 * Size
  <2>1. 20 * (S2 * n1 - n1 * Size) = (20 * (S2 - Size)) * n1 /\ n1 * Size = Size * n1
    BY <1>1
  <2>2. (20 * (S2 - Size)) * n1 < Size * n1
    BY <1>4, <2>1
  <2>3. 20 * (S2 - Size) \in Int /\ Size \in Int
    BY <1>1
  <2>4. 20 * (S2 - Size) < Size
    BY <1>1, <2>2, <2>3, Cancel
  <2>5. CASE r = 2
    BY <1>1, <1>4, <2>4, <2>5
  <2>6. CASE r = 5
    BY <1>1, <1>4, <2>4, <2>6
  <2> QED BY <2>5, <2>6
<1>5. CASE Q1 <= 5 * Size /\ Q2 <= 5 * Size
  BY <1>1, <1>5
<1> QED BY <1>2, <1>3, <1>4, <1>5 DEF Sums

LEMMA MetricSound ==
  ASSUME AuditInv PROVE AuditIsDefined /\ ShockMeansRuler
<1>1. AuditIsDefined
  BY MeansAre DEF AuditIsDefined, Sums
<1>2. ASSUME NEW x \in Shocks(history), history[x[1]].ruler = history[x[2]].ruler PROVE FALSE
  <2> DEFINE S1 == SumMetric(history, x[1])
             S2 == SumMetric(history, x[2])
             n1 == Cardinality(Meters(history, x[1]))
             n2 == Cardinality(Meters(history, x[2]))
             Q1 == SumScore(history, x[1])
             Q2 == SumScore(history, x[2])
             r == history[x[1]].ruler
  <2>1. /\ x[1] \in Metered(history) /\ x[2] \in Metered(history)
        /\ Q2 - Q1 > 10 * Size \/ -(Q2 - Q1) > 10 * Size
        /\ 20 * (S2 * n1 - S1 * n2) < S1 * n2 /\ -20 * (S2 * n1 - S1 * n2) < S1 * n2
    BY DEF Shocks, Neighbours
  <2>2. Sums(S1, n1, Q1, r) /\ Sums(S2, n2, Q2, r)
    BY <1>2, <2>1, MeansAre
  <2>3. r = 2 \/ r = 5
    <3>1. x[1] \in DOMAIN history
      BY <2>1 DEF Metered
    <3>2. history[x[1]] \in Records
      BY <3>1, RecordsAre
    <3> QED BY <3>2 DEF Records
  <2> HIDE DEF S1, S2, n1, n2, Q1, Q2, r
  <2> QED BY <2>1, <2>2, <2>3, NoShock
<1> QED BY <1>1, <1>2 DEF ShockMeansRuler

\* The audit of a session trace can be run whatever fails, and what it reports has a cause:
\* a mean throughput is never 0, the score jumps alone only with the ruler, an early exploit
\* is a dying worker's, a ratchet is a stale read-back, a recovery compares the child with
\* the donor's own measurement; any population, cadence, number of generations and faults
\* (PBTTuner.step, build_generation_record, pbt_invariants).
THEOREM AuditStaysSound == TraceSpec => []AuditIsSound
<1>1. TraceInit => AuditInv
  BY AuditStart
<1>2. AuditInv /\ [TraceNext]_traceVars => AuditInv'
  BY AuditNext
<1>3. AuditInv => AuditIsSound
  BY RecoverySound, EarlySound, RatchetSound, MetricSound DEF AuditIsSound, AlarmsHaveCauses
<1> QED BY <1>1, <1>2, <1>3, PTL DEF TraceSpec

=============================================================================
