--------------------------- MODULE Campaign_proof ---------------------------
(***************************************************************************)
(* Proofs about the campaign (ExperimentRunner), for every number of       *)
(* seeds, modes, faults and invocations, and about the loop its BO phase   *)
(* runs (BOLoop), for every budget, number of pilots, score range and      *)
(* patience, and whatever a fit makes of the scores.                       *)
(*                                                                         *)
(* The campaign.  A manifest lives in up to five kinds of copy: in memory, *)
(* in the working tree, in the last commit, in each stash, and as the      *)
(* empty one of a runner that died; any of them may become the manifest on *)
(* disk.  So the inductive invariant speaks of all Copies: each entry is   *)
(* Sound (attempts, status and publication agree) and Backed (the result   *)
(* it names was written, belongs to it and can be found).  Where results   *)
(* can be found, the Tree, and where the published ones are, Safe, only    *)
(* ever grow, which is what keeps an old copy good when it comes back.     *)
(*                                                                         *)
(* The loop.  ScoresAreCurrent is not inductive: it needs that the pilots  *)
(* are scored alike before the calibration, that a trial without metrics   *)
(* is worth 0 on every ruler, and that with enough pilots the anchors are  *)
(* fitted, so that no later trial fits them behind the back of the loop.   *)
(***************************************************************************)
EXTENDS ExperimentRunner, BOLoop, SequenceTheorems, FiniteSetTheorems, WellFoundedInduction,
        TLAPS

Attempted == Statuses \ {"none"}
Result == [phase: Phases, seed: Nat, remote: BOOLEAN]
Snapshot == [m: Manifests, files: SUBSET Nat]
Running == [key: Keys, id: Nat \X Nat, remote: BOOLEAN, marker: Nat, wrote: Nat]
RemoteKeys == {k \in Keys : Remote(k)}
OnOrder(k) == k \in Keys /\ \E j \in DOMAIN PhaseOrder : PhaseOrder[j] = k[2]

\* What an entry says of its attempts and of its publication fits together.
Sound(e) ==
    /\ e.tries \in Seq(Attempted)
    /\ \A i \in 1 .. Len(e.tries) - 1 : e.tries[i] \in Terminal
    /\ e.tries # <<>> => Last(e.tries) = e.status
    /\ e.pub = "published" => e.status = "done"

\* The result a done entry names exists and can be found again.
Backed(k, e, results, tree, safe, remote) ==
    /\ e.status = "done" =>
          /\ e.artifact \in DOMAIN results /\ e.artifact \in tree
          /\ results[e.artifact].phase = k[2]
          /\ k \in remote => results[e.artifact].seed = k[1]
    /\ e.pub = "published" => e.artifact \in safe

Good(m, results, tree, safe, remote) ==
    \A k \in Keys : Sound(m[k]) /\ Backed(k, m[k], results, tree, safe, remote)

\* Where a result may lie, and where a published one does.
Stashed == UNION {stash[i].files : i \in DOMAIN stash}
Settled == {j \in DOMAIN stash : pc = "pull" => j # Len(stash)}
Tree == files \cup head.files \cup Stashed
Safe == upstream \cup UNION {stash[i].files : i \in Settled}

Copies == {EmptyManifest, mem, disk, head.m} \cup {stash[i].m : i \in DOMAIN stash}

RecordInv ==
    \A m \in Copies : m \in Manifests /\ Good(m, made, Tree, Safe, RemoteKeys)

WorldInv ==
    /\ mode \in ModeRecords
    /\ mode.stopFleet => mode.distributed
    /\ invocation \in Nat
    /\ OnOrder(at)
    /\ made \in Seq(Result) /\ head \in Snapshot /\ stash \in Seq(Snapshot)
    /\ files \subseteq DOMAIN made /\ Stashed \subseteq DOMAIN made
    /\ upstream \subseteq head.files
    /\ \A r \in receipts : r.artifact # 0 =>
          r.artifact \in DOMAIN made /\ made[r.artifact].remote
    /\ procs \subseteq Running /\ \A p \in procs : p.remote = Remote(p.key)

Publishing == {"publish", "stash", "pull", "commit", "commit_unpopped", "push", "push_unpopped"}

PcInv ==
    /\ pc \in InAttempt => mem[at].pub # "published"
    /\ pc = "succeeded" => ~Remote(at)
    /\ pc = "recorded" => mem[at].status = "done" /\ disk[at].status = "done"
    /\ pc \in Publishing => mem[at].status = "done"
    /\ pc \in {"pull", "commit_unpopped", "push", "push_unpopped"} =>
           mem[at].artifact \in head.files \cup Stashed
    /\ pc = "pull" => stash # <<>>

HostInv ==
    /\ host \in [governor: {"original", "performance"}, saved: {"original", "performance"}]
    /\ mode.distributed => host = [governor |-> "original", saved |-> "original"]
    /\ pc = "verify" => mode.stopFleet
    /\ ~dirty => host.saved = "original" /\ (pc = "idle" => host.governor = "original")

CampaignInv == WorldInv /\ RecordInv /\ PcInv

LEMMA ModeType == mode \in ModeRecords =>
    mode.distributed \in BOOLEAN /\ mode.stopFleet \in BOOLEAN
  BY DEF ModeRecords

LEMMA EntryFields ==
  ASSUME NEW m \in Manifests, NEW k \in Keys
  PROVE  /\ m[k] \in Entries
         /\ m[k].status \in Statuses /\ m[k].tries \in Seq(Statuses) /\ m[k].artifact \in Nat
  BY DEF Manifests, Entries

LEMMA GoodGrows ==
  ASSUME NEW m, NEW r1, NEW r2, NEW t1, NEW t2, NEW s1, NEW s2, NEW rem,
         Good(m, r1, t1, s1, rem),
         \A i \in DOMAIN r1 : i \in DOMAIN r2 /\ r2[i] = r1[i],
         t1 \subseteq t2, s1 \subseteq s2
  PROVE  Good(m, r2, t2, s2, rem)
  BY DEF Good, Backed

Growing ==
    /\ mode' = mode
    /\ \A i \in DOMAIN made : i \in DOMAIN made' /\ made'[i] = made[i]
    /\ Tree \subseteq Tree' /\ Safe \subseteq Safe'

LEMMA SameRemote == mode' = mode => RemoteKeys' = RemoteKeys
  BY DEF RemoteKeys, Remote

LEMMA RecordsKept == RecordInv /\ Growing /\ Copies' \subseteq Copies => RecordInv'
<1> SUFFICES ASSUME RecordInv, Growing, Copies' \subseteq Copies, NEW m \in Copies'
             PROVE  m \in Manifests /\ Good(m, made', Tree', Safe', RemoteKeys')
  BY DEF RecordInv
<1>1. m \in Manifests /\ Good(m, made, Tree, Safe, RemoteKeys)
  BY DEF RecordInv
<1>2. Good(m, made', Tree', Safe', RemoteKeys)
  BY <1>1, GoodGrows DEF Growing
<1> QED BY <1>1, <1>2, SameRemote DEF Growing

LEMMA RecordsRenewed ==
  ASSUME RecordInv, Growing, NEW m \in Manifests,
         Good(m, made', Tree', Safe', RemoteKeys'), Copies' \subseteq Copies \cup {m}
  PROVE  RecordInv'
<1> SUFFICES ASSUME NEW n \in Copies'
             PROVE  n \in Manifests /\ Good(n, made', Tree', Safe', RemoteKeys')
  BY DEF RecordInv
<1>1. CASE n = m
  BY <1>1
<1>2. CASE n \in Copies
  <2>1. n \in Manifests /\ Good(n, made, Tree, Safe, RemoteKeys)
    BY <1>2 DEF RecordInv
  <2>2. Good(n, made', Tree', Safe', RemoteKeys)
    BY <2>1, GoodGrows DEF Growing
  <2> QED BY <2>1, <2>2, SameRemote DEF Growing
<1> QED BY <1>1, <1>2

\* The largest of a set of numbers that is bounded by a sequence is one of them.
LEMMA NewestIsOne ==
  ASSUME NEW n \in Nat, NEW S \in SUBSET (1 .. n), S # {}
  PROVE  Newest(S) \in S /\ \A j \in S : j <= Newest(S)
<1> DEFINE B == {b \in Nat : \A j \in S : j <= b}
<1>1. B \in SUBSET Nat /\ B # {}
  <2>1. n \in B
    OBVIOUS
  <2> QED BY <2>1
<1>2. \E b \in B : \A c \in B : ~(<<c, b>> \in OpToRel(<, Nat))
  <2> HIDE DEF B
  <2> QED BY <1>1, NatLessThanWellFounded, WFMin
<1>3. PICK b \in B : \A c \in B : ~(<<c, b>> \in OpToRel(<, Nat))
  BY <1>2
<1>4. \A c \in B : ~(c < b)
  BY <1>3 DEF OpToRel
<1>5. b \in S
  <2> SUFFICES ASSUME b \notin S PROVE FALSE
    OBVIOUS
  <2>1. b \in Nat /\ \A j \in S : j \in Nat /\ j >= 1 /\ j < b
    OBVIOUS
  <2>2. PICK j \in S : TRUE
    OBVIOUS
  <2>3. b - 1 \in Nat /\ \A i \in S : i <= b - 1
    BY <2>1, <2>2
  <2> QED BY <1>4, <2>1, <2>3
<1>6. \A j \in S : j <= b
  OBVIOUS
<1> HIDE DEF B
<1>7. \E i \in S : \A j \in S : j <= i
  BY <1>5, <1>6
<1> QED BY <1>7 DEF Newest

-----------------------------------------------------------------------------
(* What the operations on a manifest do to an entry.                        *)

LEMMA StatusTypes ==
  /\ Attempted \subseteq Statuses /\ Terminal \subseteq Attempted
  /\ "running" \in Attempted /\ "syncing" \in Attempted /\ "done" \in Terminal
  /\ "failed" \in Terminal /\ "interrupted" \in Terminal /\ "stale" \in Terminal
  /\ "done" # "running"
  BY DEF Attempted, Statuses, Terminal

LEMMA WithLastProperties ==
  \A S : \A s \in Seq(S), x \in S :
         /\ WithLast(s, x) \in Seq(S) /\ Len(WithLast(s, x)) = Len(s)
         /\ \A i \in 1 .. Len(s) - 1 : WithLast(s, x)[i] = s[i]
         /\ s # <<>> => WithLast(s, x) # <<>> /\ Last(WithLast(s, x)) = x
         /\ s = <<>> => WithLast(s, x) = <<>>
<1> SUFFICES ASSUME NEW S, NEW s \in Seq(S), NEW x \in S
             PROVE  /\ WithLast(s, x) \in Seq(S) /\ Len(WithLast(s, x)) = Len(s)
                    /\ \A i \in 1 .. Len(s) - 1 : WithLast(s, x)[i] = s[i]
                    /\ s # <<>> => WithLast(s, x) # <<>> /\ Last(WithLast(s, x)) = x
                    /\ s = <<>> => WithLast(s, x) = <<>>
  OBVIOUS
<1>1. CASE s = <<>>
  BY <1>1 DEF WithLast
<1>2. CASE s # <<>>
  <2>1. Len(s) \in 1 .. Len(s) /\ Len(s) \in Nat
    BY <1>2, EmptySeq, LenProperties
  <2>2. /\ [s EXCEPT ![Len(s)] = x] \in Seq(S)
        /\ Len([s EXCEPT ![Len(s)] = x]) = Len(s)
        /\ \A j \in 1 .. Len(s) : [s EXCEPT ![Len(s)] = x][j] = IF j = Len(s) THEN x ELSE s[j]
    BY <2>1, ExceptSeq
  <2>3. WithLast(s, x) = [s EXCEPT ![Len(s)] = x]
    BY <1>2 DEF WithLast
  <2>4. WithLast(s, x) # <<>>
    BY <2>1, <2>2, <2>3
  <2>5. \A i \in 1 .. Len(s) - 1 : WithLast(s, x)[i] = s[i]
    <3> SUFFICES ASSUME NEW i \in 1 .. Len(s) - 1 PROVE WithLast(s, x)[i] = s[i]
      OBVIOUS
    <3>1. i \in 1 .. Len(s) /\ i # Len(s)
      BY <2>1
    <3> QED BY <2>2, <2>3, <3>1
  <2>6. Last(WithLast(s, x)) = x
    BY <2>1, <2>2, <2>3 DEF Last
  <2> QED BY <1>2, <2>2, <2>3, <2>4, <2>5, <2>6
<1> QED BY <1>1, <1>2

\* m and n differ at most in the entry of k.
Differ(m, n, k) == n \in Manifests /\ \A j \in Keys : j # k => n[j] = m[j]

LEMMA Marked ==
  ASSUME NEW m \in Manifests, NEW k \in Keys, NEW s \in Attempted, Sound(m[k]),
         m[k].pub = "published" => s = "done"
  PROVE  LET n == MarkStatus(m, k, s)
         IN /\ Differ(m, n, k) /\ Sound(n[k]) /\ n[k].status = s
            /\ n[k].pub = m[k].pub /\ n[k].artifact = m[k].artifact
<1> DEFINE e == m[k]
           t == WithLast(e.tries, s)
           n == MarkStatus(m, k, s)
<1>1. e \in Entries /\ s \in Statuses
  BY EntryFields, StatusTypes
<1>2. /\ t \in Seq(Attempted) /\ Len(t) = Len(e.tries)
      /\ \A i \in 1 .. Len(e.tries) - 1 : t[i] = e.tries[i]
      /\ e.tries # <<>> => t # <<>> /\ Last(t) = s
      /\ e.tries = <<>> => t = <<>>
  <2>1. e.tries \in Seq(Attempted)
    BY DEF Sound
  <2>2. \A u \in Seq(Attempted), x \in Attempted :
           /\ WithLast(u, x) \in Seq(Attempted) /\ Len(WithLast(u, x)) = Len(u)
           /\ \A i \in 1 .. Len(u) - 1 : WithLast(u, x)[i] = u[i]
           /\ u # <<>> => WithLast(u, x) # <<>> /\ Last(WithLast(u, x)) = x
           /\ u = <<>> => WithLast(u, x) = <<>>
    BY WithLastProperties, Zenon
  <2> QED BY <2>1, <2>2
<1>3. t \in Seq(Statuses)
  BY <1>2, StatusTypes, SeqMonotonic
<1>4. n = [m EXCEPT ![k] = [e EXCEPT !.status = s, !.tries = t]]
  BY <1>1 DEF MarkStatus, Manifests, Entries
<1> HIDE DEF t
<1>5. [e EXCEPT !.status = s, !.tries = t] \in Entries
  BY <1>1, <1>3 DEF Entries
<1>6. /\ n \in Manifests /\ n[k] = [e EXCEPT !.status = s, !.tries = t]
      /\ \A j \in Keys : j # k => n[j] = m[j]
  BY <1>4, <1>5 DEF Manifests
<1>7. /\ n[k].status = s /\ n[k].tries = t /\ n[k].pub = e.pub
      /\ n[k].artifact = e.artifact
  BY <1>1, <1>6 DEF Entries
<1> HIDE DEF n, e
<1>8. Sound(n[k])
  BY <1>2, <1>7 DEF Sound, e
<1> QED BY <1>6, <1>7, <1>8 DEF Differ, n, e

LEMMA DoneMarked ==
  ASSUME NEW m \in Manifests, NEW k \in Keys, NEW i \in Nat, Sound(m[k])
  PROVE  LET n == MarkDone(m, k, i)
         IN /\ Differ(m, n, k) /\ Sound(n[k]) /\ n[k].status = "done"
            /\ n[k].pub = m[k].pub /\ n[k].artifact = i
<1> DEFINE n == MarkStatus(m, k, "done")
           d == MarkDone(m, k, i)
<1>1. /\ Differ(m, n, k) /\ Sound(n[k]) /\ n[k].status = "done" /\ n[k].pub = m[k].pub
  BY Marked, StatusTypes
<1>2. d = [n EXCEPT ![k].artifact = i]
  BY DEF MarkDone
<1>3. n \in Manifests /\ n[k] \in Entries /\ \A j \in Keys : j # k => n[j] = m[j]
  BY <1>1, EntryFields DEF Differ
<1> HIDE DEF n, d
<1>4. d \in Manifests /\ d[k] = [n[k] EXCEPT !.artifact = i] /\ \A j \in Keys : j # k => d[j] = n[j]
  BY <1>2, <1>3 DEF Manifests, Entries
<1>5. /\ d[k].status = n[k].status /\ d[k].tries = n[k].tries /\ d[k].pub = n[k].pub
      /\ d[k].artifact = i
  BY <1>3, <1>4 DEF Entries
<1>6. Sound(d[k])
  BY <1>1, <1>5 DEF Sound
<1> QED BY <1>1, <1>3, <1>4, <1>5, <1>6 DEF Differ, d

LEMMA PublicationSet ==
  ASSUME NEW m \in Manifests, NEW k \in Keys, Sound(m[k]), m[k].status = "done",
         NEW s \in {"pending", "published", "failed", "no_changes", "disabled"}
  PROVE  LET n == SetPublication(m, k, s)
         IN /\ Differ(m, n, k) /\ Sound(n[k]) /\ n[k].status = "done"
            /\ n[k].pub = s /\ n[k].artifact = m[k].artifact
<1> DEFINE n == SetPublication(m, k, s)
<1>1. m[k] \in Entries
  BY EntryFields
<1>2. n \in Manifests /\ n[k] = [m[k] EXCEPT !.pub = s] /\ \A j \in Keys : j # k => n[j] = m[j]
  BY <1>1 DEF SetPublication, Manifests, Entries
<1> HIDE DEF n
<1>3. /\ n[k].status = m[k].status /\ n[k].tries = m[k].tries /\ n[k].pub = s
      /\ n[k].artifact = m[k].artifact
  BY <1>1, <1>2 DEF Entries
<1>4. Sound(n[k])
  BY <1>3 DEF Sound
<1> QED BY <1>2, <1>3, <1>4 DEF Differ, n

LEMMA ContractSet ==
  ASSUME NEW m \in Manifests, NEW k \in Keys, Sound(m[k])
  PROVE  LET n == SetRemoteArtifact(m, k)
         IN /\ Differ(m, n, k) /\ Sound(n[k]) /\ n[k].status = m[k].status
            /\ n[k].pub = m[k].pub /\ n[k].artifact = m[k].artifact
<1> DEFINE n == SetRemoteArtifact(m, k)
           c == m[k].id
<1>1. m[k] \in Entries /\ c \in Nat \X Nat
  BY EntryFields DEF Entries
<1>2. n = [m EXCEPT ![k].contract = c]
  BY DEF SetRemoteArtifact
<1> HIDE DEF n, c
<1>3. n \in Manifests /\ n[k] = [m[k] EXCEPT !.contract = c] /\ \A j \in Keys : j # k => n[j] = m[j]
  BY <1>1, <1>2 DEF Manifests, Entries
<1>4. /\ n[k].status = m[k].status /\ n[k].tries = m[k].tries /\ n[k].pub = m[k].pub
      /\ n[k].artifact = m[k].artifact
  BY <1>1, <1>3 DEF Entries
<1>5. Sound(n[k])
  BY <1>4 DEF Sound
<1> QED BY <1>3, <1>4, <1>5 DEF Differ, n

\* A new attempt: the one before, if it never ended, has been superseded.
LEMMA PhaseStarted ==
  ASSUME NEW m \in Manifests, NEW k \in Keys, Sound(m[k]), m[k].status # "done",
         invocation \in Nat, made \in Seq(Result)
  PROVE  LET n == StartPhase(m, k)
         IN /\ Differ(m, n, k) /\ Sound(n[k]) /\ n[k].status = "running"
            /\ n[k].pub # "published" /\ n[k].pub = m[k].pub /\ n[k].id \in Nat \X Nat
<1> DEFINE e == m[k]
           old == IF e.status \in {"running", "syncing"} THEN WithLast(e.tries, "stale")
                  ELSE e.tries
           t == Append(old, "running")
           id == <<invocation, Len(old) + 1>>
           r == Len(made)
           n == StartPhase(m, k)
<1>1. e \in Entries /\ e.status \in Statuses
  BY EntryFields
<1>2. /\ old \in Seq(Attempted) /\ \A i \in 1 .. Len(old) : old[i] \in Terminal
  <2>1. e.tries \in Seq(Attempted) /\ Len(e.tries) \in Nat
    BY LenProperties DEF Sound
  <2>2. CASE e.tries = <<>>
    BY <2>1, <2>2 DEF WithLast
  <2>3. CASE e.tries # <<>>
    <3>1. Last(e.tries) = e.status /\ Last(e.tries) = e.tries[Len(e.tries)] /\ Len(e.tries) >= 1
      BY <2>1, <2>3, EmptySeq DEF Sound, Last
    <3>2. e.status \in Attempted
      BY <2>1, <3>1, ElementOfSeq
    <3>3. \A i \in 1 .. Len(e.tries) - 1 : e.tries[i] \in Terminal
      BY DEF Sound
    <3>4. CASE e.status \in {"running", "syncing"}
      <4>1. old = WithLast(e.tries, "stale")
        BY <3>4
      <4>2. /\ old \in Seq(Attempted) /\ Len(old) = Len(e.tries)
            /\ \A i \in 1 .. Len(e.tries) - 1 : old[i] = e.tries[i]
            /\ Last(old) = "stale"
        <5>1. "stale" \in Attempted
          BY StatusTypes
        <5>2. \A s \in Seq(Attempted), x \in Attempted :
                 /\ WithLast(s, x) \in Seq(Attempted) /\ Len(WithLast(s, x)) = Len(s)
                 /\ \A i \in 1 .. Len(s) - 1 : WithLast(s, x)[i] = s[i]
                 /\ s # <<>> => Last(WithLast(s, x)) = x
          BY WithLastProperties, ZenonT(40)
        <5> QED BY <2>1, <2>3, <4>1, <5>1, <5>2
      <4>3. old[Len(old)] = "stale"
        BY <4>2 DEF Last
      <4> QED BY <2>1, <3>3, <4>2, <4>3, StatusTypes
    <3>5. CASE e.status \notin {"running", "syncing"}
      <4>1. old = e.tries
        BY <3>5
      <4>2. e.status \in Terminal
        BY <3>2, <3>5 DEF Attempted, Statuses
      <4> QED BY <2>1, <3>1, <3>3, <4>1, <4>2
    <3> QED BY <3>4, <3>5
  <2> QED BY <2>2, <2>3
<1> HIDE DEF old
<1>3. /\ t \in Seq(Attempted) /\ Len(t) = Len(old) + 1 /\ Len(old) \in Nat
      /\ \A i \in 1 .. Len(old) : t[i] = old[i]
      /\ t[Len(old) + 1] = "running"
  BY <1>2, StatusTypes
<1>4. t \in Seq(Statuses)
  BY <1>3, StatusTypes, SeqMonotonic
<1>5. n = [m EXCEPT ![k] = [e EXCEPT !.status = "running", !.tries = t, !.id = id, !.started = r]]
  BY DEF StartPhase, old
<1>6. id \in Nat \X Nat /\ r \in Nat
  BY <1>3, LenProperties
<1> HIDE DEF t, n, id, r
<1> DEFINE f == [e EXCEPT !.status = "running", !.tries = t, !.id = id, !.started = r]
<1>7. /\ f \in Entries /\ f.status = "running" /\ f.tries = t /\ f.pub = e.pub /\ f.id = id
  BY <1>1, <1>4, <1>6, StatusTypes DEF Entries
<1> HIDE DEF f
<1>8. n \in Manifests /\ n[k] = f /\ \A j \in Keys : j # k => n[j] = m[j]
  BY <1>5, <1>7 DEF Manifests, f
<1>9. e.pub # "published"
  BY DEF Sound
<1>10. Last(t) = "running" /\ \A i \in 1 .. Len(t) - 1 : t[i] \in Terminal
  BY <1>2, <1>3 DEF Last
<1>11. Sound(n[k])
  BY <1>3, <1>7, <1>8, <1>9, <1>10 DEF Sound
<1> QED BY <1>6, <1>7, <1>8, <1>9, <1>11 DEF Differ, n

-----------------------------------------------------------------------------
(* Kinds of steps.                                                          *)

LEMMA CalmPc == pc' \notin InAttempt \cup Publishing => PcInv'
  BY DEF PcInv, InAttempt, Publishing

LEMMA Grows ==
  ASSUME UNCHANGED <<mode, made, head, stash>>, files \subseteq files',
         upstream \subseteq upstream', pc' # "pull"
  PROVE  Growing
<1>1. Stashed' = Stashed
  BY DEF Stashed
<1>2. Settled' = DOMAIN stash' /\ Settled \subseteq DOMAIN stash
  BY DEF Settled
<1>3. Tree \subseteq Tree'
  BY <1>1 DEF Tree
<1>4. Safe \subseteq Safe'
  BY <1>2 DEF Safe
<1> QED BY <1>3, <1>4 DEF Growing

\* A step that leaves the records and the repository alone.
LEMMA RecordsIdle ==
  ASSUME RecordInv, UNCHANGED <<mode, made, manifests, repository>>, pc' # "pull"
  PROVE  RecordInv'
<1>1. Growing
  BY Grows DEF repository
<1>2. Copies' = Copies
  BY DEF Copies, manifests, repository
<1> QED BY <1>1, <1>2, RecordsKept

LEMMA WorldIdle ==
  ASSUME WorldInv, UNCHANGED <<mode, invocation, repository, made, receipts>>,
         procs' \subseteq procs, OnOrder(at)'
  PROVE  WorldInv'
<1>1. \A k : Remote(k)' = Remote(k)
  BY DEF Remote
<1> QED BY <1>1 DEF WorldInv, repository, Remote, Stashed

\* A step that saves a manifest changed in one entry.
LEMMA RecordsSaved ==
  ASSUME RecordInv, Growing, UNCHANGED <<head, stash>>, NEW m, NEW k \in Keys, Save(m),
         Differ(mem, m, k), Sound(m[k]), Backed(k, m[k], made', Tree', Safe', RemoteKeys')
  PROVE  RecordInv'
<1>1. mem \in Manifests /\ Good(mem, made, Tree, Safe, RemoteKeys)
  BY DEF RecordInv, Copies
<1>2. Good(mem, made', Tree', Safe', RemoteKeys')
  <2>1. RemoteKeys' = RemoteKeys
    BY SameRemote DEF Growing
  <2> QED BY <1>1, <2>1, GoodGrows DEF Growing
<1>3. m \in Manifests /\ \A j \in Keys : j # k => m[j] = mem[j]
  BY DEF Differ
<1>4. Good(m, made', Tree', Safe', RemoteKeys')
  <2> SUFFICES ASSUME NEW j \in Keys
               PROVE  Sound(m[j]) /\ Backed(j, m[j], made', Tree', Safe', RemoteKeys')
    BY DEF Good
  <2>1. CASE j = k
    BY <2>1
  <2>2. CASE j # k
    <3>1. m[j] = mem[j]
      BY <1>3, <2>2
    <3>2. Sound(mem[j]) /\ Backed(j, mem[j], made', Tree', Safe', RemoteKeys')
      BY <1>2 DEF Good
    <3> QED BY <3>1, <3>2
  <2> QED BY <2>1, <2>2
<1>5. Copies' \subseteq Copies \cup {m}
  BY DEF Copies, Save
<1> QED BY <1>3, <1>4, <1>5, RecordsRenewed

LEMMA MemFacts ==
  ASSUME CampaignInv
  PROVE  /\ mem \in Manifests /\ at \in Keys /\ Sound(mem[at])
         /\ Backed(at, mem[at], made, Tree, Safe, RemoteKeys)
         /\ mem[at].status \in Statuses
<1>1. mem \in Manifests /\ at \in Keys /\ Good(mem, made, Tree, Safe, RemoteKeys)
  BY DEF CampaignInv, RecordInv, Copies, WorldInv, OnOrder
<1> QED BY <1>1, EntryFields DEF Good

\* A status other than done, which no published result has.
LEMMA UndoneBacked ==
  ASSUME NEW k, NEW e, e.status # "done", Sound(e), NEW r, NEW t, NEW s, NEW rem
  PROVE  Backed(k, e, r, t, s, rem)
  BY DEF Backed, Sound

\* The manifest with the present phase marked other than done.
LEMMA UndoneSaved ==
  ASSUME CampaignInv, NEW s \in Attempted, s # "done", mem[at].pub # "published",
         Save(MarkStatus(mem, at, s)), UNCHANGED <<mode, made, repository>>, pc' # "pull"
  PROVE  RecordInv'
<1> DEFINE n == MarkStatus(mem, at, s)
<1>1. mem \in Manifests /\ at \in Keys /\ Sound(mem[at])
  BY MemFacts
<1>2. Differ(mem, n, at) /\ Sound(n[at]) /\ n[at].status = s
  BY <1>1, Marked
<1>3. Growing
  BY Grows DEF repository
<1> HIDE DEF n
<1>4. Backed(at, n[at], made', Tree', Safe', RemoteKeys')
  BY <1>2, UndoneBacked
<1>5. RecordInv /\ UNCHANGED <<head, stash>> /\ Save(n)
  BY DEF CampaignInv, repository, n
<1> QED BY <1>1, <1>2, <1>3, <1>4, <1>5, RecordsSaved

LEMMA UndoneIsUnpublished ==
  CampaignInv /\ mem[at].status # "done" => mem[at].pub # "published"
  BY MemFacts DEF Sound

\* Where the runner goes next is a phase of the campaign.
LEMMA FirstIsOnOrder == mode \in ModeRecords => \A s \in Seeds : OnOrder(<<s, PhaseOrder[1]>>)
  BY DEF OnOrder, PhaseOrder, Keys, Phases

LEMMA NextSeedAt ==
  ASSUME WorldInv, NextSeed, mode' = mode
  PROVE  OnOrder(at)' /\ pc' \in {"phase", "exit"}
<1>1. PhaseOrder' = PhaseOrder
  BY DEF PhaseOrder
<1>2. CASE at[1] < NSeeds
  <2>1. at[1] + 1 \in Seeds
    BY <1>2, CampaignAssumption DEF WorldInv, OnOrder, Keys, Seeds
  <2>2. OnOrder(FirstKey(at[1] + 1))
    BY <2>1, FirstIsOnOrder DEF FirstKey, WorldInv
  <2> QED BY <1>1, <1>2, <2>2 DEF NextSeed, OnOrder
<1>3. CASE ~(at[1] < NSeeds)
  BY <1>1, <1>3 DEF NextSeed, OnOrder, WorldInv
<1> QED BY <1>2, <1>3

LEMMA NextPhaseAt ==
  ASSUME WorldInv, NextPhase, mode' = mode
  PROVE  OnOrder(at)' /\ pc' \in {"phase", "reconcile", "exit"}
<1> DEFINE i == CHOOSE j \in DOMAIN PhaseOrder : PhaseOrder[j] = at[2]
           k == <<at[1], PhaseOrder[i + 1]>>
<1>1. i \in DOMAIN PhaseOrder
  BY DEF WorldInv, OnOrder
<1>2. PhaseOrder' = PhaseOrder /\ PhaseOrder \in Seq(Phases)
  <2>1. /\ <<"lhs">> \in Seq(Phases) /\ <<"pbt", "eval">> \in Seq(Phases)
        /\ <<"pbt", "bo", "eval">> \in Seq(Phases)
    BY DEF Phases
  <2> QED BY <2>1 DEF PhaseOrder
<1>3. IF i = Len(PhaseOrder) THEN NextSeed ELSE at' = k /\ pc' = PhaseEntry(k)
  BY DEF NextPhase
<1> HIDE DEF i
<1>4. CASE i = Len(PhaseOrder)
  BY <1>3, <1>4, NextSeedAt
<1>5. CASE i # Len(PhaseOrder)
  <2>1. DOMAIN PhaseOrder = 1 .. Len(PhaseOrder) /\ Len(PhaseOrder) \in Nat
    BY <1>2
  <2>2. i + 1 \in DOMAIN PhaseOrder
    BY <1>1, <1>5, <2>1
  <2>3. PhaseOrder[i + 1] \in Phases
    BY <1>2, <2>1, <2>2, ElementOfSeq
  <2>4. at[1] \in Seeds
    BY DEF WorldInv, OnOrder, Keys
  <2>5. OnOrder(k)
    BY <2>2, <2>3, <2>4 DEF OnOrder, Keys
  <2>6. at' = k /\ pc' = PhaseEntry(k)
    BY <1>3, <1>5
  <2> HIDE DEF k
  <2> QED BY <1>2, <2>5, <2>6 DEF OnOrder, PhaseEntry
<1> QED BY <1>4, <1>5

-----------------------------------------------------------------------------
(* The runner on its way.                                                   *)

LEMMA QuietStep ==
  ASSUME CampaignInv, UNCHANGED <<mode, invocation, manifests, repository, world>>,
         OnOrder(at)', pc' \notin InAttempt \cup Publishing
  PROVE  CampaignInv'
<1>1. pc' # "pull"
  BY DEF Publishing
<1>2. RecordInv'
  BY <1>1, RecordsIdle DEF CampaignInv, world
<1>3. WorldInv'
  BY WorldIdle DEF CampaignInv, world
<1> QED BY <1>2, <1>3, CalmPc DEF CampaignInv

LEMMA SameOrder == WorldInv /\ mode' = mode /\ at' = at => OnOrder(at)'
  BY DEF WorldInv, OnOrder, PhaseOrder

LEMMA InitCampaign == Init => CampaignInv
<1> SUFFICES ASSUME Init PROVE CampaignInv
  OBVIOUS
<1>1. NoEntry \in Entries
  <2>1. <<>> \in Seq(Statuses)
    OBVIOUS
  <2> QED BY <2>1 DEF NoEntry, Entries, NoAttempt, Statuses
<1>2. EmptyManifest \in Manifests
  BY <1>1 DEF EmptyManifest, Manifests
<1>3. Good(EmptyManifest, made, Tree, Safe, RemoteKeys)
  <2> SUFFICES ASSUME NEW k \in Keys
               PROVE  /\ Sound(EmptyManifest[k])
                      /\ Backed(k, EmptyManifest[k], made, Tree, Safe, RemoteKeys)
    BY DEF Good
  <2>1. EmptyManifest[k] = NoEntry /\ NoEntry.status = "none" /\ NoEntry.pub = "none" /\ NoEntry.tries = <<>>
    BY DEF EmptyManifest, NoEntry
  <2>2. <<>> \in Seq(Attempted) /\ Len(<<>>) = 0
    OBVIOUS
  <2> QED BY <2>1, <2>2 DEF Sound, Backed
<1>4. stash = <<>> /\ head = [m |-> EmptyManifest, files |-> {}] /\ DOMAIN stash = {}
  BY DEF Init
<1>5. Copies = {EmptyManifest}
  BY <1>4 DEF Init, Copies
<1>6. RecordInv
  BY <1>2, <1>3, <1>5 DEF RecordInv
<1>7. WorldInv
  <2>1. mode \in ModeRecords /\ (mode.stopFleet => mode.distributed)
    BY CampaignAssumption DEF Init
  <2>2. OnOrder(at)
    <3>1. 1 \in Seeds
      BY CampaignAssumption DEF Seeds
    <3> QED BY <2>1, <3>1, FirstIsOnOrder DEF Init, FirstKey
  <2>3. head \in Snapshot
    BY <1>2, <1>4 DEF Snapshot
  <2>4. made \in Seq(Result) /\ stash \in Seq(Snapshot) /\ files = {} /\ upstream = {}
        /\ receipts = {} /\ procs = {} /\ invocation \in Nat
    BY DEF Init
  <2>5. Stashed = {}
    BY <1>4 DEF Stashed
  <2> QED BY <2>1, <2>2, <2>3, <2>4, <2>5 DEF WorldInv
<1>8. PcInv
  BY DEF Init, PcInv, InAttempt, Publishing
<1> QED BY <1>6, <1>7, <1>8 DEF CampaignInv

LEMMA StartStep ==
  ASSUME CampaignInv, NEW again \in BOOLEAN, StartCampaign(again)
  PROVE  CampaignInv'
<1>1. /\ mem' = disk /\ invocation' = invocation + 1 /\ at' = FirstKey(1) /\ pc' = "phase"
      /\ UNCHANGED <<mode, disk, repository, world>>
  BY DEF StartCampaign
<1>2. OnOrder(at)'
  <2>1. OnOrder(FirstKey(1))
    <3>1. 1 \in Seeds
      BY CampaignAssumption DEF Seeds
    <3> QED BY <3>1, FirstIsOnOrder DEF CampaignInv, WorldInv, FirstKey
  <2> QED BY <1>1, <2>1 DEF OnOrder, PhaseOrder
<1>3. WorldInv'
  <2>1. \A k : Remote(k)' = Remote(k)
    BY <1>1 DEF Remote
  <2> QED BY <1>1, <1>2, <2>1 DEF CampaignInv, WorldInv, repository, world, Remote, Stashed
<1>4. RecordInv'
  <2>1. Growing
    BY <1>1, Grows DEF repository, world
  <2>2. Copies' \subseteq Copies
    BY <1>1 DEF Copies, repository
  <2> QED BY <2>1, <2>2, RecordsKept DEF CampaignInv
<1>5. PcInv'
  BY <1>1, CalmPc DEF InAttempt, Publishing
<1> QED BY <1>3, <1>4, <1>5 DEF CampaignInv

\* The steps that only move the runner on.
LEMMA WalkSteps ==
  ASSUME CampaignInv,
         \/ NothingToReconcile \/ ReconcileFails \/ HandOff \/ HandOffFails \/ Proceed
         \/ RestoreCpu \/ StopVm \/ VerifyVm \/ InterruptInCleanup
  PROVE  CampaignInv'
<1>1. UNCHANGED <<mode, invocation, manifests, repository, world>>
  BY DEF NothingToReconcile, ReconcileFails, HandOff, HandOffFails, Proceed, RestoreCpu,
         StopVm, VerifyVm, InterruptInCleanup
<1>2. OnOrder(at)' /\ pc' \notin InAttempt \cup Publishing
  <2> USE DEF InAttempt, Publishing, CampaignInv
  <2>1. CASE \/ NothingToReconcile \/ ReconcileFails \/ HandOffFails
             \/ RestoreCpu \/ StopVm \/ VerifyVm \/ InterruptInCleanup
    <3>1. at' = at /\ pc' \in {"phase", "exit", "idle", "verify"}
      BY <2>1 DEF NothingToReconcile, ReconcileFails, HandOffFails, Abort, RestoreCpu,
                  StopVm, VerifyVm, InterruptInCleanup
    <3> QED BY <1>1, <3>1, SameOrder
  <2>2. CASE HandOff
    <3>1. NextSeed \/ NextPhase \/ (Abort /\ at' = at)
      BY <2>2 DEF HandOff
    <3> QED BY <1>1, <3>1, NextSeedAt, NextPhaseAt, SameOrder DEF Abort
  <2>3. CASE Proceed
    BY <1>1, <2>3, NextPhaseAt DEF Proceed
  <2> QED BY <2>1, <2>2, <2>3
<1> QED BY <1>1, <1>2, QuietStep

LEMMA SkipStep == CampaignInv /\ SkipPhase => CampaignInv'
<1> SUFFICES ASSUME CampaignInv, SkipPhase PROVE CampaignInv'
  OBVIOUS
<1>1. /\ UNCHANGED <<mode, invocation, at, manifests, repository, world>>
      /\ pc' \in {"publish", "after"}
      /\ pc' = "publish" => mem[at].status = "done"
  BY DEF SkipPhase
<1>2. OnOrder(at)'
  BY <1>1, SameOrder DEF CampaignInv
<1>3. RecordInv'
  BY <1>1, RecordsIdle DEF CampaignInv, world
<1>4. WorldInv'
  BY <1>1, <1>2, WorldIdle DEF CampaignInv, world
<1>5. PcInv'
  BY <1>1 DEF PcInv, InAttempt, Publishing, manifests
<1> QED BY <1>3, <1>4, <1>5 DEF CampaignInv

LEMMA LeaveStep == CampaignInv /\ LeaveAttempt => CampaignInv'
<1> SUFFICES ASSUME CampaignInv, LeaveAttempt PROVE CampaignInv'
  OBVIOUS
<1>1. /\ UNCHANGED <<mode, invocation, at, manifests, repository, world>>
      /\ pc = "recorded" /\ pc' = "publish"
  BY DEF LeaveAttempt
<1>2. OnOrder(at)'
  BY <1>1, SameOrder DEF CampaignInv
<1>3. RecordInv'
  BY <1>1, RecordsIdle DEF CampaignInv, world
<1>4. WorldInv'
  BY <1>1, <1>2, WorldIdle DEF CampaignInv, world
<1>5. PcInv'
  BY <1>1 DEF CampaignInv, PcInv, InAttempt, manifests
<1> QED BY <1>3, <1>4, <1>5 DEF CampaignInv

\* The steps that record a failure, an interruption or a stage on the way.
LEMMA MarkSteps ==
  ASSUME CampaignInv,
         \/ \E reachable \in BOOLEAN : ReconcileFindsNothing(reachable)
         \/ MissingSession \/ RemoteCompleted \/ SyncFails \/ RecordFailure
  PROVE  CampaignInv'
<1>1. /\ UNCHANGED <<mode, invocation, repository, world>>
      /\ pc' \in {"phase", "after", "exit", "sync"}
      /\ pc' = "sync" => RemoteCompleted
  BY DEF ReconcileFindsNothing, MissingSession, RemoteCompleted, SyncFails, RecordFailure,
         Abort, NextSeed
<1>2. /\ OnOrder(at)'
      /\ RecordFailure \/ at' = at
  <2>1. CASE RecordFailure
    BY <1>1, <2>1, NextSeedAt, SameOrder DEF CampaignInv, RecordFailure
  <2>2. CASE ~RecordFailure
    <3>1. at' = at
      BY <2>2 DEF ReconcileFindsNothing, MissingSession, RemoteCompleted, SyncFails
    <3> QED BY <1>1, <3>1, SameOrder DEF CampaignInv
  <2> QED BY <2>1, <2>2
<1> DEFINE Undone == /\ mem[at].pub # "published"
                     /\ \E s \in Attempted : s # "done" /\ Save(MarkStatus(mem, at, s))
<1>3. UNCHANGED manifests \/ Undone
  <2>1. ASSUME NEW reachable \in BOOLEAN, ReconcileFindsNothing(reachable) PROVE UNCHANGED manifests \/ Undone
    <3>1. CASE mem[at].status \in {"running", "syncing"}
      <4>1. Save(MarkStatus(mem, at, "stale")) /\ "stale" \in Attempted
        BY <2>1, <3>1, StatusTypes DEF ReconcileFindsNothing
      <4> QED BY <3>1, <4>1, UndoneIsUnpublished
    <3>2. CASE mem[at].status \notin {"running", "syncing"}
      BY <2>1, <3>2 DEF ReconcileFindsNothing
    <3> QED BY <3>1, <3>2
  <2>2. ASSUME MissingSession PROVE UNCHANGED manifests \/ Undone
    <3>1. mem[at].status # "done" /\ Save(MarkStatus(mem, at, "failed")) /\ "failed" \in Attempted
      BY <2>2, StatusTypes DEF MissingSession, IsDone
    <3> QED BY <3>1, UndoneIsUnpublished
  <2>3. ASSUME RemoteCompleted \/ SyncFails PROVE UNCHANGED manifests \/ Undone
    <3>1. pc \in InAttempt /\ Save(MarkStatus(mem, at, "syncing")) /\ "syncing" \in Attempted
      BY <2>3, StatusTypes DEF RemoteCompleted, SyncFails, InAttempt
    <3> QED BY <3>1 DEF CampaignInv, PcInv
  <2>4. ASSUME RecordFailure PROVE UNCHANGED manifests \/ Undone
    <3>1. pc \in InAttempt /\ Save(MarkStatus(mem, at, "failed")) /\ "failed" \in Attempted
      BY <2>4, StatusTypes DEF RecordFailure, InAttempt
    <3> QED BY <3>1 DEF CampaignInv, PcInv
  <2> QED BY <2>1, <2>2, <2>3, <2>4
<1>4. WorldInv'
  BY <1>1, <1>2, WorldIdle DEF CampaignInv, world
<1>5. RecordInv'
  BY <1>1, <1>3, RecordsIdle, UndoneSaved DEF CampaignInv, world
<1>6. PcInv'
  <2>1. CASE pc' # "sync"
    BY <1>1, <2>1, CalmPc DEF InAttempt, Publishing
  <2>2. CASE pc' = "sync"
    <3>1. at' = at /\ mem' = MarkStatus(mem, at, "syncing") /\ mem[at].pub # "published"
      BY <1>1, <2>2 DEF RemoteCompleted, CampaignInv, PcInv, InAttempt, Save
    <3>2. MarkStatus(mem, at, "syncing")[at].pub = mem[at].pub
      BY <3>1, MemFacts, Marked, StatusTypes
    <3> QED BY <2>2, <3>1, <3>2 DEF PcInv, InAttempt, Publishing
  <2> QED BY <2>1, <2>2
<1> QED BY <1>4, <1>5, <1>6 DEF CampaignInv

-----------------------------------------------------------------------------
(* Attempts and their results.                                              *)

LEMMA MadeFacts ==
  ASSUME WorldInv
  PROVE  /\ Len(made) \in Nat /\ DOMAIN made = 1 .. Len(made)
         /\ \A i \in DOMAIN made : made[i] \in Result /\ i \in Nat /\ i # 0
<1>1. made \in Seq(Result)
  BY DEF WorldInv
<1>2. Len(made) \in Nat /\ DOMAIN made = 1 .. Len(made)
  BY <1>1, LenProperties
<1> QED BY <1>1, <1>2, ElementOfSeq

LEMMA OldIsUndone == CampaignInv /\ ~IsDone(at) => mem[at].status # "done" /\ mem[at].pub # "published"
  BY UndoneIsUnpublished DEF IsDone

LEMMA BeginStep == CampaignInv /\ BeginAttempt => CampaignInv'
<1> SUFFICES ASSUME CampaignInv, BeginAttempt PROVE CampaignInv'
  OBVIOUS
<1> DEFINE n == StartPhase(mem, at)
<1>1. /\ ~IsDone(at) /\ Save(n)
      /\ procs' = IF Remote(at) THEN procs ELSE procs \cup {Command(at, n[at].id)}
      /\ pc' \in {"contract", "command"}
      /\ UNCHANGED <<mode, invocation, at, repository, made, receipts>>
  BY DEF BeginAttempt
<1>2. mem \in Manifests /\ at \in Keys /\ Sound(mem[at]) /\ mem[at].status # "done"
  BY <1>1, MemFacts, OldIsUndone
<1>3. /\ Differ(mem, n, at) /\ Sound(n[at]) /\ n[at].status = "running"
      /\ n[at].pub # "published" /\ n[at].id \in Nat \X Nat
  <2>1. invocation \in Nat /\ made \in Seq(Result)
    BY DEF CampaignInv, WorldInv
  <2> QED BY <1>2, <2>1, PhaseStarted
<1> HIDE DEF n
<1>4. OnOrder(at)' /\ WorldInv
  BY <1>1, SameOrder DEF CampaignInv
<1>5. WorldInv'
  <2>1. Command(at, n[at].id) \in Running /\ Command(at, n[at].id).remote = Remote(at)
        /\ Command(at, n[at].id).key = at
    <3>1. Remote(at) \in BOOLEAN
      BY <1>4, ModeType DEF WorldInv, Remote
    <3> QED BY <1>2, <1>3, <1>4, <3>1, MadeFacts DEF Command, Running
  <2>2. \A k : Remote(k)' = Remote(k)
    BY <1>1 DEF Remote
  <2>3. procs' \subseteq Running /\ \A p \in procs' : p.remote = Remote(p.key)'
    BY <1>1, <1>4, <2>1, <2>2 DEF WorldInv
  <2> QED BY <1>1, <1>4, <2>3 DEF WorldInv, repository, Stashed
<1>6. RecordInv'
  <2>1. Growing
    BY <1>1, Grows DEF repository
  <2>2. Backed(at, n[at], made', Tree', Safe', RemoteKeys')
    BY <1>3, UndoneBacked
  <2> QED BY <1>1, <1>2, <1>3, <2>1, <2>2, RecordsSaved DEF CampaignInv, repository
<1>7. PcInv'
  BY <1>1, <1>3 DEF PcInv, InAttempt, Publishing, Save
<1> QED BY <1>5, <1>6, <1>7 DEF CampaignInv

LEMMA LaunchStep == CampaignInv /\ LaunchRemote => CampaignInv'
<1> SUFFICES ASSUME CampaignInv, LaunchRemote PROVE CampaignInv'
  OBVIOUS
<1> DEFINE n == SetRemoteArtifact(mem, at)
<1>1. /\ pc = "contract" /\ pc' = "command" /\ Save(n)
      /\ procs' = procs \cup {Command(at, mem[at].id)}
      /\ UNCHANGED <<mode, invocation, at, repository, made, receipts>>
  BY DEF LaunchRemote
<1>2. mem \in Manifests /\ at \in Keys /\ Sound(mem[at])
      /\ Backed(at, mem[at], made, Tree, Safe, RemoteKeys) /\ mem[at].id \in Nat \X Nat
  BY MemFacts, EntryFields DEF Entries
<1>3. /\ Differ(mem, n, at) /\ Sound(n[at]) /\ n[at].status = mem[at].status
      /\ n[at].pub = mem[at].pub /\ n[at].artifact = mem[at].artifact
  BY <1>2, ContractSet
<1> HIDE DEF n
<1>4. OnOrder(at)' /\ WorldInv
  BY <1>1, SameOrder DEF CampaignInv
<1>5. WorldInv'
  <2>1. Command(at, mem[at].id) \in Running /\ Command(at, mem[at].id).remote = Remote(at)
        /\ Command(at, mem[at].id).key = at
    <3>1. Remote(at) \in BOOLEAN
      BY <1>4, ModeType DEF WorldInv, Remote
    <3> QED BY <1>2, <1>4, <3>1, MadeFacts DEF Command, Running
  <2>2. \A k : Remote(k)' = Remote(k)
    BY <1>1 DEF Remote
  <2>3. procs' \subseteq Running /\ \A p \in procs' : p.remote = Remote(p.key)'
    BY <1>1, <1>4, <2>1, <2>2 DEF WorldInv
  <2> QED BY <1>1, <1>4, <2>3 DEF WorldInv, repository, Stashed
<1>6. Growing
  BY <1>1, Grows DEF repository
<1>7. RecordInv'
  <2>1. Backed(at, mem[at], made', Tree', Safe', RemoteKeys')
    <3>1. RemoteKeys' = RemoteKeys
      BY <1>1, SameRemote
    <3> QED BY <1>2, <1>6, <3>1 DEF Backed, Growing
  <2>2. Backed(at, n[at], made', Tree', Safe', RemoteKeys')
    BY <1>3, <2>1 DEF Backed
  <2> QED BY <1>1, <1>2, <1>3, <1>6, <2>2, RecordsSaved DEF CampaignInv, repository
<1>8. PcInv'
  <2>1. mem[at].pub # "published"
    BY <1>1 DEF CampaignInv, PcInv, InAttempt
  <2> QED BY <1>1, <1>3, <2>1 DEF PcInv, InAttempt, Publishing, Save
<1> QED BY <1>5, <1>7, <1>8 DEF CampaignInv

\* What a remote phase is given as its result is a result, written on the device.
LEMMA ReceiptIsResult ==
  ASSUME WorldInv, NEW k \in Keys, NEW e, ReceiptOrNewer(k, e) # 0
  PROVE  /\ ReceiptOrNewer(k, e) \in DOMAIN made
         /\ made[ReceiptOrNewer(k, e)].remote
<1> DEFINE own == {r \in receipts : r.id = Contract(e)}
           later == {i \in OnDevice(k[2]) : i > e.started}
<1>1. CASE own # {}
  <2>1. PICK r \in own : ReceiptOrNewer(k, e) = r.artifact
    BY <1>1 DEF ReceiptOrNewer
  <2> QED BY <2>1 DEF WorldInv
<1>2. CASE own = {}
  <2>1. ReceiptOrNewer(k, e) = Newest(later)
    BY <1>2 DEF ReceiptOrNewer
  <2>2. later # {}
    BY <2>1 DEF Newest
  <2>3. later \subseteq {i \in DOMAIN made : made[i].remote}
    BY DEF OnDevice, OfPhase
  <2>4. later \in SUBSET (1 .. Len(made)) /\ Len(made) \in Nat
    BY <2>3, MadeFacts
  <2> HIDE DEF later
  <2>5. Newest(later) \in later
    BY <2>2, <2>4, NewestIsOne
  <2> QED BY <2>1, <2>3, <2>5
<1> QED BY <1>1, <1>2

LEMMA LatestIsOne ==
  ASSUME WorldInv, NEW f, FindLatest(f) # 0
  PROVE  /\ FindLatest(f) \in files /\ FindLatest(f) \in DOMAIN made
         /\ made[FindLatest(f)].phase = f
<1> DEFINE own == OfPhase(files, f)
<1>1. own # {}
  BY DEF FindLatest, Newest
<1>2. own \in SUBSET (1 .. Len(made)) /\ Len(made) \in Nat
  BY MadeFacts DEF WorldInv, OfPhase
<1>3. Newest(own) \in own
  <2> HIDE DEF own
  <2> QED BY <1>1, <1>2, NewestIsOne
<1> QED BY <1>3 DEF FindLatest, OfPhase, WorldInv

\* The result found is entered in the manifest, and is in the tree by then.
LEMMA ResultSaved ==
  ASSUME CampaignInv, NEW i, UNCHANGED <<mode, invocation, at, head, upstream, stash, world>>,
         i \in DOMAIN made, i \in files', made[i].phase = at[2],
         Remote(at) => made[i].seed = at[1],
         mem[at].pub # "published", Save(MarkDone(mem, at, i)),
         files \subseteq files', files' \subseteq DOMAIN made, pc' # "pull"
  PROVE  /\ WorldInv' /\ RecordInv'
         /\ mem'[at].status = "done" /\ disk'[at].status = "done"
         /\ mem'[at].pub # "published"
<1> DEFINE n == MarkDone(mem, at, i)
<1>1. mem \in Manifests /\ at \in Keys /\ Sound(mem[at]) /\ WorldInv /\ RecordInv
  BY MemFacts DEF CampaignInv
<1>2. i \in Nat
  BY <1>1, MadeFacts
<1>3. /\ Differ(mem, n, at) /\ Sound(n[at]) /\ n[at].status = "done"
      /\ n[at].pub = mem[at].pub /\ n[at].artifact = i
  BY <1>1, <1>2, DoneMarked
<1> HIDE DEF n
<1>4. Growing
  BY Grows DEF world
<1>5. Backed(at, n[at], made', Tree', Safe', RemoteKeys')
  <2>1. made' = made /\ i \in Tree' /\ RemoteKeys' = RemoteKeys
    BY SameRemote DEF world, Tree
  <2> QED BY <1>3, <2>1 DEF Backed, RemoteKeys
<1>6. RecordInv'
  BY <1>1, <1>3, <1>4, <1>5, RecordsSaved DEF n
<1>7. WorldInv'
  <2>1. OnOrder(at)'
    BY <1>1, SameOrder
  <2>2. \A k : Remote(k)' = Remote(k)
    BY DEF Remote
  <2> QED BY <1>1, <2>1, <2>2 DEF WorldInv, world, Remote, Stashed
<1> QED BY <1>3, <1>6, <1>7 DEF Save, n

LEMMA RecordLocalStep == CampaignInv /\ RecordLocal => CampaignInv'
<1> SUFFICES ASSUME CampaignInv, RecordLocal PROVE CampaignInv'
  OBVIOUS
<1>1. /\ pc = "succeeded" /\ UNCHANGED <<mode, invocation, at, repository, world>>
      /\ mem[at].pub # "published" /\ ~Remote(at) /\ WorldInv
  BY DEF RecordLocal, CampaignInv, PcInv, InAttempt
<1>2. CASE FindLatest(at[2]) = 0
  <2>1. Save(MarkStatus(mem, at, "failed")) /\ pc' = "exit"
    BY <1>2 DEF RecordLocal, Abort
  <2>2. RecordInv'
    BY <1>1, <2>1, UndoneSaved, StatusTypes DEF world
  <2>3. WorldInv'
    BY <1>1, WorldIdle, SameOrder DEF world
  <2> QED BY <2>1, <2>2, <2>3, CalmPc DEF CampaignInv, InAttempt, Publishing
<1>3. CASE FindLatest(at[2]) # 0
  <2>1. Save(MarkDone(mem, at, FindLatest(at[2]))) /\ pc' = "recorded"
    BY <1>3 DEF RecordLocal
  <2>2. /\ FindLatest(at[2]) \in files /\ FindLatest(at[2]) \in DOMAIN made
        /\ made[FindLatest(at[2])].phase = at[2]
    BY <1>1, <1>3, LatestIsOne
  <2>3. files' = files /\ files \subseteq DOMAIN made
    BY <1>1 DEF WorldInv, repository
  <2>4. /\ WorldInv' /\ RecordInv'
        /\ mem'[at].status = "done" /\ disk'[at].status = "done" /\ mem'[at].pub # "published"
    BY <1>1, <2>1, <2>2, <2>3, ResultSaved DEF repository
  <2>5. PcInv'
    BY <1>1, <2>1, <2>4 DEF PcInv, InAttempt, Publishing
  <2> QED BY <2>4, <2>5 DEF CampaignInv
<1> QED BY <1>2, <1>3

\* A valid result of the device, fetched with all results of its phase.
LEMMA Fetched ==
  ASSUME WorldInv, NEW e, ReceiptOrNewer(at, e) # 0, Valid(at, ReceiptOrNewer(at, e)),
         files' = files \cup OnDevice(at[2])
  PROVE  LET i == ReceiptOrNewer(at, e)
         IN /\ i \in DOMAIN made /\ i \in files' /\ made[i].phase = at[2] /\ made[i].seed = at[1]
            /\ files \subseteq files' /\ files' \subseteq DOMAIN made
<1>1. /\ ReceiptOrNewer(at, e) \in DOMAIN made /\ made[ReceiptOrNewer(at, e)].remote
  BY ReceiptIsResult DEF WorldInv, OnOrder
<1> QED BY <1>1 DEF Valid, OnDevice, OfPhase, WorldInv

LEMMA SyncStep == CampaignInv /\ SyncRemote => CampaignInv'
<1> SUFFICES ASSUME CampaignInv, SyncRemote PROVE CampaignInv'
  OBVIOUS
<1> DEFINE i == ReceiptOrNewer(at, mem[at])
<1>1. /\ pc = "sync" /\ UNCHANGED <<mode, invocation, at, head, upstream, stash, world>>
      /\ mem[at].pub # "published" /\ WorldInv
  BY DEF SyncRemote, CampaignInv, PcInv, InAttempt
<1>2. \/ /\ i # 0 /\ Valid(at, i) /\ files' = files \cup OnDevice(at[2])
         /\ Save(MarkDone(mem, at, i)) /\ pc' = "recorded"
      \/ pc' = "exit" /\ UNCHANGED <<files, manifests>>
  BY DEF SyncRemote, Abort
<1>3. CASE pc' = "exit" /\ UNCHANGED <<files, manifests>>
  <2>1. OnOrder(at)'
    BY <1>1, SameOrder
  <2> QED BY <1>1, <1>3, <2>1, QuietStep DEF repository, InAttempt, Publishing
<1>4. CASE /\ i # 0 /\ Valid(at, i) /\ files' = files \cup OnDevice(at[2])
           /\ Save(MarkDone(mem, at, i)) /\ pc' = "recorded"
  <2>1. /\ i \in DOMAIN made /\ i \in files' /\ made[i].phase = at[2] /\ made[i].seed = at[1]
        /\ files \subseteq files' /\ files' \subseteq DOMAIN made
    BY <1>1, <1>4, Fetched
  <2> HIDE DEF i
  <2>2. /\ WorldInv' /\ RecordInv'
        /\ mem'[at].status = "done" /\ disk'[at].status = "done" /\ mem'[at].pub # "published"
    BY <1>1, <1>4, <2>1, ResultSaved
  <2>3. PcInv'
    BY <1>1, <1>4, <2>2 DEF PcInv, InAttempt, Publishing
  <2> QED BY <2>2, <2>3 DEF CampaignInv
<1> QED BY <1>2, <1>3, <1>4

LEMMA RecoverStep == CampaignInv /\ ReconcileRecovers => CampaignInv'
<1> SUFFICES ASSUME CampaignInv, ReconcileRecovers PROVE CampaignInv'
  OBVIOUS
<1> DEFINE i == ReceiptOrNewer(at, mem[at])
<1>1. /\ Recoverable(at) /\ UNCHANGED <<mode, invocation, at, head, upstream, stash, world>>
      /\ i # 0 /\ Valid(at, i) /\ files' = files \cup OnDevice(at[2])
      /\ Save(MarkDone(mem, at, i)) /\ pc' = "publish" /\ WorldInv
  BY DEF ReconcileRecovers, CampaignInv
<1>2. mem[at].pub # "published"
  <2>1. mem[at].status # "done"
    BY <1>1 DEF Recoverable
  <2> QED BY <2>1, UndoneIsUnpublished
<1>3. /\ i \in DOMAIN made /\ i \in files' /\ made[i].phase = at[2] /\ made[i].seed = at[1]
      /\ files \subseteq files' /\ files' \subseteq DOMAIN made
  BY <1>1, Fetched
<1> HIDE DEF i
<1>4. /\ WorldInv' /\ RecordInv'
      /\ mem'[at].status = "done" /\ disk'[at].status = "done" /\ mem'[at].pub # "published"
  BY <1>1, <1>2, <1>3, ResultSaved
<1>5. PcInv'
  BY <1>1, <1>4 DEF PcInv, InAttempt, Publishing
<1> QED BY <1>4, <1>5 DEF CampaignInv

-----------------------------------------------------------------------------
(* Commands, and the publication.                                           *)

LEMMA Appended ==
  ASSUME NEW S, NEW s \in Seq(S), NEW e \in S
  PROVE  /\ Append(s, e) \in Seq(S) /\ Len(Append(s, e)) = Len(s) + 1
         /\ DOMAIN Append(s, e) = 1 .. Len(s) + 1
         /\ \A i \in 1 .. Len(s) : Append(s, e)[i] = s[i]
         /\ Append(s, e)[Len(s) + 1] = e
  OBVIOUS

LEMMA WriteStep ==
  ASSUME CampaignInv, NEW p \in procs, CommandWrites(p)
  PROVE  CampaignInv'
<1> DEFINE r == [phase |-> p.key[2], seed |-> p.key[1], remote |-> p.remote]
           q == [p EXCEPT !.wrote = Len(made')]
<1>1. /\ made' = Append(made, r) /\ procs' = (procs \ {p}) \cup {q}
      /\ files' = IF p.remote THEN files ELSE files \cup {Len(made')}
      /\ UNCHANGED <<mode, invocation, pc, at, manifests, head, upstream, stash, receipts>>
      /\ WorldInv
  BY DEF CommandWrites, CampaignInv
<1>2. p \in Running /\ p.remote = Remote(p.key)
  BY <1>1 DEF WorldInv
<1>3. r \in Result
  BY <1>2, CampaignAssumption DEF Result, Running, Keys, Seeds
<1>4. /\ made' \in Seq(Result) /\ Len(made') = Len(made) + 1 /\ DOMAIN made' = 1 .. Len(made) + 1
      /\ \A i \in 1 .. Len(made) : made'[i] = made[i]
  BY <1>1, <1>3, Appended DEF WorldInv
<1>5. DOMAIN made = 1 .. Len(made) /\ Len(made) \in Nat
  BY <1>1, MadeFacts
<1>6. q \in Running /\ q.remote = p.remote /\ q.key = p.key
  BY <1>2, <1>4, <1>5 DEF Running
<1> HIDE DEF q, r
<1>7. WorldInv'
  <2>1. OnOrder(at)'
    BY <1>1, SameOrder
  <2>2. \A k : Remote(k)' = Remote(k)
    BY <1>1 DEF Remote
  <2>3. procs' \subseteq Running /\ \A x \in procs' : x.remote = Remote(x.key)'
    BY <1>1, <1>2, <1>6, <2>2 DEF WorldInv
  <2>4. files' \subseteq DOMAIN made'
    BY <1>1, <1>4, <1>5 DEF WorldInv
  <2>5. \A x \in receipts' : x.artifact # 0 => x.artifact \in DOMAIN made' /\ made'[x.artifact].remote
    BY <1>1, <1>4, <1>5 DEF WorldInv
  <2>6. Stashed' \subseteq DOMAIN made'
    BY <1>1, <1>4, <1>5 DEF WorldInv, Stashed
  <2> QED BY <1>1, <1>4, <2>1, <2>3, <2>4, <2>5, <2>6 DEF WorldInv
<1>8. Growing
  <2>1. Stashed' = Stashed /\ Settled' = Settled
    BY <1>1 DEF Stashed, Settled
  <2>2. Tree \subseteq Tree' /\ Safe' = Safe
    BY <1>1, <2>1 DEF Tree, Safe
  <2> QED BY <1>1, <1>4, <1>5, <2>2 DEF Growing
<1>9. RecordInv'
  <2>1. Copies' = Copies
    BY <1>1 DEF Copies, manifests
  <2> QED BY <1>8, <2>1, RecordsKept DEF CampaignInv
<1>10. PcInv'
  <2>1. Remote(at)' = Remote(at) /\ Stashed' = Stashed
    BY <1>1 DEF Remote, Stashed
  <2> QED BY <1>1, <2>1 DEF CampaignInv, PcInv, manifests
<1> QED BY <1>7, <1>9, <1>10 DEF CampaignInv

LEMMA EndStep ==
  ASSUME CampaignInv, NEW p \in procs, NEW ok \in BOOLEAN, CommandEnds(p, ok)
  PROVE  CampaignInv'
<1> DEFINE S == {i \in OnDevice(p.key[2]) : i > p.marker}
           r == [id |-> p.id, artifact |-> Newest(S)]
<1>1. /\ procs' = procs \ {p} /\ receipts' \subseteq receipts \cup {r}
      /\ pc' = IF p \notin Attached THEN pc
               ELSE IF ~ok THEN "failed" ELSE IF p.remote THEN "completed" ELSE "succeeded"
      /\ UNCHANGED <<mode, invocation, at, manifests, repository, made>>
      /\ WorldInv /\ RecordInv
  BY DEF CommandEnds, CampaignInv
<1>2. r.artifact # 0 => r.artifact \in DOMAIN made /\ made[r.artifact].remote
  <2> SUFFICES ASSUME Newest(S) # 0
               PROVE  Newest(S) \in DOMAIN made /\ made[Newest(S)].remote
    OBVIOUS
  <2>1. S # {}
    BY DEF Newest
  <2>2. S \subseteq {i \in DOMAIN made : made[i].remote}
    BY DEF OnDevice, OfPhase
  <2>3. S \in SUBSET (1 .. Len(made)) /\ Len(made) \in Nat
    BY <1>1, <2>2, MadeFacts
  <2> HIDE DEF S
  <2>4. Newest(S) \in S
    BY <2>1, <2>3, NewestIsOne
  <2> QED BY <2>2, <2>4
<1> HIDE DEF r
<1>3. WorldInv'
  <2>1. OnOrder(at)' /\ \A k : Remote(k)' = Remote(k)
    BY <1>1, SameOrder DEF Remote
  <2> QED BY <1>1, <1>2, <2>1 DEF WorldInv, repository, Remote, Stashed
<1>4. Growing /\ Copies' = Copies /\ Stashed' = Stashed
  <2>1. Stashed' = Stashed /\ stash' = stash
    BY <1>1 DEF Stashed, repository
  <2>2. Settled' = Settled
    <3>1. pc' = "pull" <=> pc = "pull"
      BY <1>1 DEF Attached
    <3> QED BY <2>1, <3>1 DEF Settled
  <2>3. Tree' = Tree /\ Safe' = Safe
    BY <1>1, <2>1, <2>2 DEF Tree, Safe, repository
  <2> QED BY <1>1, <2>1, <2>3 DEF Growing, Copies, manifests, repository
<1>5. RecordInv'
  BY <1>1, <1>4, RecordsKept
<1>6. PcInv'
  <2>1. Remote(at)' = Remote(at) /\ head' = head
    BY <1>1 DEF Remote, repository
  <2>2. CASE p \notin Attached
    BY <1>1, <1>4, <2>1, <2>2 DEF CampaignInv, PcInv, manifests, repository
  <2>3. CASE p \in Attached
    <3>1. pc = "command" /\ p.key = at /\ p.remote = Remote(at)
      BY <1>1, <2>3 DEF Attached, WorldInv
    <3>2. pc' \in {"failed", "completed", "succeeded"} /\ (pc' = "succeeded" => ~p.remote)
      BY <1>1, <2>3
    <3>3. mem[at].pub # "published"
      BY <3>1 DEF CampaignInv, PcInv, InAttempt
    <3> QED BY <1>1, <2>1, <3>1, <3>2, <3>3 DEF PcInv, Publishing, manifests
  <2> QED BY <2>2, <2>3
<1> QED BY <1>3, <1>5, <1>6 DEF CampaignInv

\* The publication of a phase that is done.
LEMMA PublicationSaved ==
  ASSUME CampaignInv, mem[at].status = "done",
         NEW s \in {"pending", "published", "failed", "no_changes", "disabled"},
         Save(SetPublication(mem, at, s)), UNCHANGED <<mode, invocation, at, files, head, stash, world>>,
         upstream \subseteq upstream', upstream' \subseteq head.files,
         s = "published" => mem[at].artifact \in Safe', pc' # "pull"
  PROVE  /\ WorldInv' /\ RecordInv'
         /\ mem'[at].status = "done" /\ mem'[at].artifact = mem[at].artifact
<1> DEFINE n == SetPublication(mem, at, s)
<1>1. /\ mem \in Manifests /\ at \in Keys /\ Sound(mem[at]) /\ WorldInv /\ RecordInv
      /\ Backed(at, mem[at], made, Tree, Safe, RemoteKeys)
  BY MemFacts DEF CampaignInv
<1>2. /\ Differ(mem, n, at) /\ Sound(n[at]) /\ n[at].status = "done"
      /\ n[at].pub = s /\ n[at].artifact = mem[at].artifact
  BY <1>1, PublicationSet
<1> HIDE DEF n
<1>3. Growing
  BY Grows DEF world
<1>4. Backed(at, n[at], made', Tree', Safe', RemoteKeys')
  <2>1. RemoteKeys' = RemoteKeys
    BY SameRemote
  <2> QED BY <1>1, <1>2, <1>3, <2>1 DEF Backed, Growing
<1>5. RecordInv'
  BY <1>1, <1>2, <1>3, <1>4, RecordsSaved DEF n
<1>6. WorldInv'
  <2>1. OnOrder(at)' /\ \A k : Remote(k)' = Remote(k)
    BY <1>1, SameOrder DEF Remote
  <2> QED BY <1>1, <2>1 DEF WorldInv, world, Remote, Stashed
<1> QED BY <1>2, <1>5, <1>6 DEF Save, n

LEMMA PublicationBeginsStep == CampaignInv /\ PublicationBegins => CampaignInv'
<1> SUFFICES ASSUME CampaignInv, PublicationBegins PROVE CampaignInv'
  OBVIOUS
<1>1. /\ pc = "publish" /\ UNCHANGED <<mode, invocation, at, repository, world>>
      /\ pc' \in {"stash", "after"}
      /\ \E s \in {"pending", "disabled"} : Save(SetPublication(mem, at, s))
  BY DEF PublicationBegins
<1>2. mem[at].status = "done" /\ upstream \subseteq head.files
  BY <1>1 DEF CampaignInv, PcInv, Publishing, WorldInv
<1>3. /\ WorldInv' /\ RecordInv'
      /\ mem'[at].status = "done" /\ mem'[at].artifact = mem[at].artifact
  BY <1>1, <1>2, PublicationSaved DEF repository
<1>4. PcInv'
  BY <1>1, <1>3 DEF PcInv, InAttempt
<1> QED BY <1>3, <1>4 DEF CampaignInv

LEMMA PushStep ==
  ASSUME CampaignInv, NEW ok \in BOOLEAN, PushResults(ok)
  PROVE  CampaignInv'
<1>1. /\ pc \in {"push", "push_unpopped"} /\ pc' \in {"flush", "after"}
      /\ upstream' = IF ok THEN head.files ELSE upstream
      /\ Save(SetPublication(mem, at, IF ok THEN "published" ELSE "failed"))
      /\ UNCHANGED <<mode, invocation, at, files, head, stash, world>>
  BY DEF PushResults
<1>2. /\ mem[at].status = "done" /\ mem[at].artifact \in head.files \cup Stashed
      /\ upstream \subseteq head.files
  BY <1>1 DEF CampaignInv, PcInv, Publishing, WorldInv
<1>3. ok => mem[at].artifact \in Safe'
  <2>1. Settled' = DOMAIN stash /\ stash' = stash
    BY <1>1 DEF Settled
  <2> QED BY <1>1, <1>2, <2>1 DEF Safe, Stashed
<1>4. WorldInv' /\ RecordInv'
  BY <1>1, <1>2, <1>3, PublicationSaved
<1>5. PcInv'
  BY <1>1, CalmPc DEF InAttempt, Publishing
<1> QED BY <1>4, <1>5 DEF CampaignInv

LEMMA FlushStep == CampaignInv /\ FlushRecord => CampaignInv'
<1> SUFFICES ASSUME CampaignInv, FlushRecord PROVE CampaignInv'
  OBVIOUS
<1>1. /\ pc' = "after" /\ head' = [head EXCEPT !.m = disk]
      /\ UNCHANGED <<mode, invocation, at, manifests, files, upstream, stash, world>>
      /\ WorldInv /\ RecordInv
  BY DEF FlushRecord, CampaignInv
<1>2. disk \in Manifests /\ head \in Snapshot
  BY <1>1 DEF RecordInv, Copies, WorldInv
<1>3. head'.m = disk /\ head'.files = head.files /\ head' \in Snapshot
  BY <1>1, <1>2 DEF Snapshot
<1>4. Copies' \subseteq Copies
  BY <1>1, <1>3 DEF Copies, manifests
<1>5. Growing
  <2>1. Stashed' = Stashed /\ Settled \subseteq Settled'
    BY <1>1 DEF Stashed, Settled
  <2> QED BY <1>1, <1>3, <2>1 DEF Growing, Tree, Safe, world
<1>6. WorldInv'
  <2>1. OnOrder(at)' /\ \A k : Remote(k)' = Remote(k)
    BY <1>1, SameOrder DEF Remote
  <2> QED BY <1>1, <1>3, <2>1 DEF WorldInv, world, Remote, Stashed
<1> QED BY <1>1, <1>4, <1>5, <1>6, RecordsKept, CalmPc DEF CampaignInv, InAttempt, Publishing

-----------------------------------------------------------------------------
(* The stash.                                                               *)

LEMMA StashFacts ==
  ASSUME WorldInv
  PROVE  /\ Len(stash) \in Nat /\ DOMAIN stash = 1 .. Len(stash)
         /\ \A i \in DOMAIN stash : stash[i] \in Snapshot
         /\ stash # <<>> => Len(stash) \in DOMAIN stash
<1>1. stash \in Seq(Snapshot)
  BY DEF WorldInv
<1>2. Len(stash) \in Nat /\ DOMAIN stash = 1 .. Len(stash)
  BY <1>1, LenProperties
<1>3. stash # <<>> => Len(stash) \in Nat \ {0}
  BY <1>1, EmptySeq
<1> QED BY <1>1, <1>2, <1>3, ElementOfSeq

LEMMA StashPushStep == CampaignInv /\ StashPush => CampaignInv'
<1> SUFFICES ASSUME CampaignInv, StashPush PROVE CampaignInv'
  OBVIOUS
<1> DEFINE x == [m |-> disk, files |-> files \ head.files]
<1>1. /\ pc = "stash" /\ pc' = "pull" /\ stash' = Append(stash, x)
      /\ disk' = head.m /\ files' = files \cap head.files
      /\ UNCHANGED <<mode, invocation, at, mem, head, upstream, world>>
      /\ WorldInv /\ RecordInv
  BY DEF StashPush, CampaignInv
<1>2. x \in Snapshot /\ x.m = disk /\ x.files = files \ head.files
  <2>1. disk \in Manifests
    BY <1>1 DEF RecordInv, Copies
  <2>2. files \subseteq Nat
    BY <1>1, MadeFacts DEF WorldInv
  <2> QED BY <2>1, <2>2 DEF Snapshot
<1> HIDE DEF x
<1>3. /\ stash' \in Seq(Snapshot) /\ Len(stash') = Len(stash) + 1
      /\ DOMAIN stash' = 1 .. Len(stash) + 1
      /\ \A i \in 1 .. Len(stash) : stash'[i] = stash[i]
      /\ stash'[Len(stash) + 1] = x
  BY <1>1, <1>2, Appended DEF WorldInv
<1>4. Len(stash) \in Nat /\ DOMAIN stash = 1 .. Len(stash)
  BY <1>1, StashFacts
<1>5. Stashed' = Stashed \cup x.files
  <2>1. \A i \in DOMAIN stash' : i \in DOMAIN stash \/ i = Len(stash) + 1
    BY <1>3, <1>4
  <2>2. \A i \in DOMAIN stash : i \in DOMAIN stash' /\ stash'[i] = stash[i]
    BY <1>3, <1>4
  <2>3. Len(stash) + 1 \in DOMAIN stash'
    BY <1>3, <1>4
  <2> QED BY <1>3, <2>1, <2>2, <2>3 DEF Stashed
<1>6. Settled' = Settled /\ Settled = DOMAIN stash
  <2>1. Settled = DOMAIN stash
    BY <1>1 DEF Settled
  <2>2. Settled' = {j \in DOMAIN stash' : j # Len(stash')}
    BY <1>1 DEF Settled
  <2>3. {j \in DOMAIN stash' : j # Len(stash')} = 1 .. Len(stash)
    BY <1>3, <1>4
  <2> QED BY <1>4, <2>1, <2>2, <2>3
<1>7. Growing
  <2>1. Tree \subseteq Tree'
    BY <1>1, <1>2, <1>5 DEF Tree
  <2>2. Safe \subseteq Safe'
    BY <1>1, <1>3, <1>4, <1>6 DEF Safe
  <2> QED BY <1>1, <2>1, <2>2 DEF Growing, world
<1>8. RecordInv'
  <2>1. Copies' \subseteq Copies
    <3>1. \A i \in DOMAIN stash' : stash'[i].m \in Copies
      BY <1>2, <1>3, <1>4 DEF Copies
    <3> QED BY <1>1, <3>1 DEF Copies
  <2> QED BY <1>1, <1>7, <2>1, RecordsKept
<1>9. WorldInv'
  <2>1. OnOrder(at)' /\ \A k : Remote(k)' = Remote(k)
    BY <1>1, SameOrder DEF Remote
  <2>2. Stashed' \subseteq DOMAIN made'
    BY <1>1, <1>2, <1>5 DEF WorldInv, world
  <2> QED BY <1>1, <1>3, <2>1, <2>2 DEF WorldInv, world, Remote
<1>10. PcInv'
  <2>1. mem[at].status = "done" /\ Backed(at, mem[at], made, Tree, Safe, RemoteKeys)
    BY <1>1, MemFacts DEF CampaignInv, PcInv, Publishing
  <2>2. mem[at].artifact \in head'.files \cup Stashed'
    BY <1>1, <1>2, <1>5, <2>1 DEF Backed, Tree
  <2>3. stash' # <<>>
    BY <1>3, <1>4
  <2> QED BY <1>1, <2>1, <2>2, <2>3 DEF PcInv, InAttempt, Publishing
<1> QED BY <1>8, <1>9, <1>10 DEF CampaignInv

\* git stash pop: what the tree gains is what the stash loses.
LEMMA Unstashed ==
  ASSUME CampaignInv, pc = "pull", Unstash, pc' # "pull",
         UNCHANGED <<mode, invocation, at, mem, head, upstream, made, receipts>>,
         procs' \subseteq procs
  PROVE  WorldInv' /\ RecordInv' /\ head.files \cup Stashed \subseteq Tree'
<1> DEFINE x == Last(stash)
           n == Len(stash) - 1
<1>1. /\ disk' = x.m /\ files' = files \cup x.files /\ stash' = SubSeq(stash, 1, n)
      /\ stash # <<>> /\ WorldInv /\ RecordInv
  BY DEF Unstash, CampaignInv, PcInv
<1>2. /\ Len(stash) \in Nat /\ DOMAIN stash = 1 .. Len(stash) /\ Len(stash) \in DOMAIN stash
      /\ \A i \in DOMAIN stash : stash[i] \in Snapshot
  BY <1>1, StashFacts
<1>3. n \in Nat /\ x = stash[n + 1] /\ n + 1 = Len(stash)
  BY <1>2 DEF Last
<1> HIDE DEF n, x
<1>4. /\ stash' \in Seq(Snapshot) /\ Len(stash') = n /\ DOMAIN stash' = 1 .. n
      /\ \A i \in 1 .. n : stash'[i] = stash[i]
  <2>1. 1 \in Int /\ n \in Int /\ \A i \in 1 .. n : stash[i] \in Snapshot
    BY <1>2, <1>3
  <2>2. /\ SubSeq(stash, 1, n) \in Seq(Snapshot)
        /\ Len(SubSeq(stash, 1, n)) = IF 1 <= n THEN n - 1 + 1 ELSE 0
        /\ \A i \in 1 .. n - 1 + 1 : SubSeq(stash, 1, n)[i] = stash[1 + i - 1]
    BY <2>1, SubSeqProperties
  <2>3. Len(stash') = n /\ \A i \in 1 .. n : stash'[i] = stash[i]
    BY <1>1, <1>3, <2>2
  <2> QED BY <1>1, <2>2, <2>3, LenProperties
<1>5. Stashed = Stashed' \cup x.files
  <2>1. \A i \in DOMAIN stash : i \in DOMAIN stash' \/ i = n + 1
    BY <1>2, <1>3, <1>4
  <2>2. \A i \in DOMAIN stash' : i \in DOMAIN stash /\ stash'[i] = stash[i]
    BY <1>2, <1>3, <1>4
  <2> QED BY <1>2, <1>3, <2>1, <2>2 DEF Stashed
<1>6. Settled' = Settled /\ Settled = 1 .. n
  <2>1. Settled' = DOMAIN stash'
    BY DEF Settled
  <2>2. Settled = {j \in DOMAIN stash : j # Len(stash)}
    BY DEF Settled
  <2>3. {j \in DOMAIN stash : j # Len(stash)} = 1 .. n
    BY <1>2, <1>3
  <2> QED BY <1>4, <2>1, <2>2, <2>3
<1>7. x \in Snapshot
  BY <1>2, <1>3
<1>8. Growing /\ Tree' = Tree
  <2>1. Tree' = Tree
    BY <1>1, <1>5 DEF Tree
  <2>2. Safe \subseteq Safe'
    BY <1>4, <1>6 DEF Safe
  <2> QED BY <2>1, <2>2 DEF Growing
<1>9. RecordInv'
  <2>1. Copies' \subseteq Copies
    <3>1. \A i \in DOMAIN stash' : stash'[i].m \in Copies
      BY <1>2, <1>3, <1>4 DEF Copies
    <3>2. disk' \in Copies
      BY <1>1, <1>2, <1>3 DEF Copies
    <3> QED BY <3>1, <3>2 DEF Copies
  <2> QED BY <1>1, <1>8, <2>1, RecordsKept
<1>10. files' \subseteq DOMAIN made' /\ Stashed' \subseteq DOMAIN made'
  BY <1>1, <1>5 DEF WorldInv
<1>11. WorldInv'
  <2>1. OnOrder(at)' /\ \A k : Remote(k)' = Remote(k)
    BY <1>1, SameOrder DEF Remote
  <2> QED BY <1>1, <1>4, <1>10, <2>1 DEF WorldInv, Remote
<1> QED BY <1>8, <1>9, <1>11 DEF Tree

LEMMA StashPopStep == CampaignInv /\ StashPop => CampaignInv'
<1> SUFFICES ASSUME CampaignInv, StashPop PROVE CampaignInv'
  OBVIOUS
<1>1. /\ pc = "pull" /\ Unstash /\ pc' = "commit"
      /\ UNCHANGED <<mode, invocation, at, mem, head, upstream, made, receipts, procs>>
  BY DEF StashPop, world
<1>2. WorldInv' /\ RecordInv'
  BY <1>1, Unstashed
<1>3. PcInv'
  BY <1>1 DEF CampaignInv, PcInv, InAttempt, Publishing
<1> QED BY <1>2, <1>3 DEF CampaignInv

LEMMA PopConflictsStep == CampaignInv /\ PopConflicts => CampaignInv'
<1> SUFFICES ASSUME CampaignInv, PopConflicts PROVE CampaignInv'
  OBVIOUS
<1>1. /\ pc = "pull" /\ pc' = "commit_unpopped"
      /\ UNCHANGED <<mode, invocation, at, manifests, repository, world>>
  BY DEF PopConflicts
<1>2. WorldInv'
  BY <1>1, WorldIdle, SameOrder DEF CampaignInv, world
<1>3. RecordInv'
  BY <1>1, RecordsIdle DEF CampaignInv, world
<1>4. PcInv'
  <2>1. Stashed' = Stashed
    BY <1>1 DEF Stashed, repository
  <2> QED BY <1>1, <2>1 DEF CampaignInv, PcInv, InAttempt, Publishing, manifests, repository
<1> QED BY <1>2, <1>3, <1>4 DEF CampaignInv

LEMMA CommitStep == CampaignInv /\ CommitResults => CampaignInv'
<1> SUFFICES ASSUME CampaignInv, CommitResults PROVE CampaignInv'
  OBVIOUS
<1>1. /\ pc \in {"commit", "commit_unpopped"} /\ mem[at].status = "done"
      /\ UNCHANGED <<mode, invocation, at, files, upstream, stash, world>>
      /\ WorldInv /\ RecordInv /\ upstream \subseteq head.files
  BY DEF CommitResults, CampaignInv, PcInv, Publishing, WorldInv
<1>2. CASE pc = "commit_unpopped" /\ Staged = {}
  <2>1. /\ Save(SetPublication(mem, at, "no_changes")) /\ pc' = "after" /\ head' = head
    BY <1>2 DEF CommitResults
  <2>2. WorldInv' /\ RecordInv'
    BY <1>1, <2>1, PublicationSaved
  <2> QED BY <2>1, <2>2, CalmPc DEF CampaignInv, InAttempt, Publishing
<1>3. CASE ~(pc = "commit_unpopped" /\ Staged = {})
  <2>1. /\ head' = [m |-> disk, files |-> head.files \cup Staged]
        /\ pc' = (IF pc = "commit" THEN "push" ELSE "push_unpopped")
        /\ UNCHANGED manifests
    BY <1>3 DEF CommitResults
  <2>2. /\ head'.m = disk /\ head'.files = head.files \cup Staged
        /\ disk \in Manifests /\ head.files \subseteq Nat /\ files \subseteq Nat
    BY <1>1, <2>1, MadeFacts DEF RecordInv, Copies, WorldInv, Snapshot
  <2>3. head' \in Snapshot
    BY <2>1, <2>2 DEF Snapshot, Staged, OfPhase
  <2>4. Stashed' = Stashed /\ Settled \subseteq Settled'
    BY <1>1, <2>1 DEF Stashed, Settled
  <2>5. Growing
    BY <1>1, <2>2, <2>4 DEF Growing, Tree, Safe, world
  <2>6. Copies' \subseteq Copies
    BY <1>1, <2>1, <2>2 DEF Copies, manifests
  <2>7. RecordInv'
    BY <1>1, <2>5, <2>6, RecordsKept
  <2>8. WorldInv'
    <3>1. OnOrder(at)' /\ \A k : Remote(k)' = Remote(k)
      BY <1>1, SameOrder DEF Remote
    <3> QED BY <1>1, <2>2, <2>3, <2>4, <3>1 DEF WorldInv, world, Remote
  <2>9. mem[at].artifact \in head'.files \cup Stashed'
    <3>1. CASE pc = "commit_unpopped"
      BY <2>2, <2>4, <3>1 DEF CampaignInv, PcInv
    <3>2. CASE pc = "commit"
      <4>1. Backed(at, mem[at], made, Tree, Safe, RemoteKeys)
        BY MemFacts
      <4>2. mem[at].artifact \in Tree /\ made[mem[at].artifact].phase = at[2]
        BY <1>1, <4>1 DEF Backed
      <4> QED BY <2>2, <2>4, <4>2 DEF Tree, Staged, OfPhase
    <3> QED BY <1>1, <3>1, <3>2
  <2>10. PcInv'
    BY <1>1, <2>1, <2>9 DEF PcInv, InAttempt, Publishing, manifests
  <2> QED BY <2>7, <2>8, <2>10 DEF CampaignInv
<1> QED BY <1>2, <1>3

LEMMA InterruptStep == CampaignInv /\ Interrupt => CampaignInv'
<1> SUFFICES ASSUME CampaignInv, Interrupt PROVE CampaignInv'
  OBVIOUS
<1>1. /\ pc' = "exit" /\ procs' \subseteq procs
      /\ UNCHANGED <<mode, invocation, at, head, upstream, made, receipts>>
      /\ WorldInv /\ RecordInv
  BY DEF Interrupt, Abort, CampaignInv
<1>2. PcInv'
  BY <1>1, CalmPc DEF InAttempt, Publishing
<1>3. CASE pc = "pull"
  <2>1. Unstash /\ mem' = mem
    BY <1>3 DEF Interrupt, InAttempt
  <2>2. WorldInv' /\ RecordInv'
    BY <1>1, <1>3, <2>1, Unstashed
  <2> QED BY <1>2, <2>2 DEF CampaignInv
<1>4. CASE pc # "pull"
  <2>1. UNCHANGED <<files, stash>>
    BY <1>4 DEF Interrupt
  <2>2. WorldInv'
    BY <1>1, <2>1, WorldIdle, SameOrder DEF repository
  <2>3. RecordInv'
    <3>1. CASE pc \in InAttempt
      <4>1. mem[at].pub # "published" /\ Save(MarkStatus(mem, at, "interrupted"))
        BY <3>1 DEF Interrupt, CampaignInv, PcInv
      <4> QED BY <1>1, <2>1, <4>1, UndoneSaved, StatusTypes DEF repository
    <3>2. CASE pc \notin InAttempt
      <4>1. UNCHANGED manifests
        BY <1>4, <3>2 DEF Interrupt
      <4> QED BY <1>1, <2>1, <4>1, RecordsIdle DEF repository
    <3> QED BY <3>1, <3>2
  <2> QED BY <1>2, <2>2, <2>3 DEF CampaignInv
<1> QED BY <1>3, <1>4

LEMMA CrashStep ==
  ASSUME CampaignInv, NEW survives \in BOOLEAN, Crash(survives)
  PROVE  CampaignInv'
<1>1. /\ pc' = "idle" /\ mem' = EmptyManifest /\ procs' \subseteq procs
      /\ UNCHANGED <<mode, invocation, at, disk, repository, made, receipts>>
      /\ WorldInv /\ RecordInv
  BY DEF Crash, CampaignInv
<1>2. WorldInv'
  BY <1>1, WorldIdle, SameOrder
<1>3. RecordInv'
  <2>1. Growing
    BY <1>1, Grows DEF repository
  <2>2. Copies' \subseteq Copies
    BY <1>1 DEF Copies, repository
  <2> QED BY <1>1, <2>1, <2>2, RecordsKept
<1> QED BY <1>1, <1>2, <1>3, CalmPc DEF CampaignInv, InAttempt, Publishing

\* The runner is where it was, and so are its records.
LEMMA StillStep ==
  ASSUME CampaignInv, UNCHANGED <<mode, invocation, pc, at, manifests, repository, world>>
  PROVE  CampaignInv'
<1>1. Stashed' = Stashed /\ Settled' = Settled /\ RemoteKeys' = RemoteKeys
  BY SameRemote DEF Stashed, Settled, repository
<1>2. Tree' = Tree /\ Safe' = Safe /\ Copies' = Copies /\ made' = made
  BY <1>1 DEF Tree, Safe, Copies, repository, manifests, world
<1>3. RecordInv'
  BY <1>1, <1>2 DEF CampaignInv, RecordInv
<1>4. WorldInv'
  BY WorldIdle, SameOrder DEF CampaignInv, world
<1>5. PcInv'
  <2>1. Remote(at)' = Remote(at)
    BY DEF Remote
  <2> QED BY <1>1, <2>1 DEF CampaignInv, PcInv, manifests, repository
<1> QED BY <1>3, <1>4, <1>5 DEF CampaignInv

LEMMA NextCampaign == CampaignInv /\ [Next]_vars => CampaignInv'
<1> SUFFICES ASSUME CampaignInv, [Next]_vars PROVE CampaignInv'
  OBVIOUS
<1>1. CASE VmTerminates \/ UNCHANGED vars
  <2>1. UNCHANGED <<mode, invocation, pc, at, manifests, repository, world>>
    BY <1>1 DEF VmTerminates, vars, manifests, repository, world
  <2> QED BY <2>1, StillStep
<1>2. CASE \E again \in BOOLEAN : StartCampaign(again)
  BY <1>2, StartStep
<1>3. CASE \E p \in procs : CommandWrites(p) \/ \E ok \in BOOLEAN : CommandEnds(p, ok)
  BY <1>3, WriteStep, EndStep
<1>4. CASE \E ok \in BOOLEAN : PushResults(ok)
  BY <1>4, PushStep
<1>5. CASE \E survives \in BOOLEAN : Crash(survives)
  BY <1>5, CrashStep
<1>6. CASE \/ NothingToReconcile \/ ReconcileFails \/ HandOff \/ HandOffFails \/ Proceed
           \/ RestoreCpu \/ StopVm \/ VerifyVm \/ InterruptInCleanup
  BY <1>6, WalkSteps
<1>7. CASE \/ \E reachable \in BOOLEAN : ReconcileFindsNothing(reachable)
           \/ MissingSession \/ RemoteCompleted \/ SyncFails \/ RecordFailure
  BY <1>7, MarkSteps
<1>8. CASE \/ ReconcileRecovers \/ SkipPhase \/ BeginAttempt \/ LaunchRemote \/ RecordLocal
           \/ SyncRemote \/ LeaveAttempt
  BY <1>8, RecoverStep, SkipStep, BeginStep, LaunchStep, RecordLocalStep, SyncStep, LeaveStep
<1>9. CASE \/ PublicationBegins \/ StashPush \/ StashPop \/ PopConflicts \/ CommitResults
           \/ FlushRecord \/ Interrupt
  BY <1>9, PublicationBeginsStep, StashPushStep, StashPopStep, PopConflictsStep, CommitStep,
     FlushStep, InterruptStep
<1> QED BY <1>1, <1>2, <1>3, <1>4, <1>5, <1>6, <1>7, <1>8, <1>9 DEF Next

LEMMA CampaignInvariant == Spec => []CampaignInv
  BY InitCampaign, NextCampaign, PTL DEF Spec

LEMMA DiskFacts ==
  CampaignInv => \A k \in Keys : /\ Sound(disk[k])
                                 /\ Backed(k, disk[k], made, Tree, Safe, RemoteKeys)
  BY DEF CampaignInv, RecordInv, Copies, Good

\* A resumed campaign supersedes the attempt it finds running before it starts one: of
\* the attempts of a phase only the last is live, for any number of seeds, invocations,
\* crashes and interruptions.
THEOREM AttemptsAreSuperseded == Spec => []OneLiveAttempt
<1>1. CampaignInv => OneLiveAttempt
  BY DiskFacts DEF OneLiveAttempt, Sound
<1> QED BY <1>1, CampaignInvariant, PTL

\* Whatever lies on the device, a remote phase is recorded with a result of its own
\* phase and seed.
THEOREM RemoteResultsMatch == Spec => []RemoteResultMatches
<1>1. CampaignInv => RemoteResultMatches
  <2> SUFFICES ASSUME CampaignInv, NEW k \in Keys, Remote(k), disk[k].status = "done"
               PROVE  made[disk[k].artifact].phase = k[2] /\ made[disk[k].artifact].seed = k[1]
    BY DEF RemoteResultMatches
  <2> QED BY DiskFacts DEF Backed, RemoteKeys
<1> QED BY <1>1, CampaignInvariant, PTL

\* A result said to be published is in the shared repository or preserved in the stash,
\* also when the runner is stopped while its stash is pushed.
THEOREM PublishedStaysFound == Spec => []PublishedIsKept
<1>1. CampaignInv => PublishedIsKept
  <2> SUFFICES ASSUME CampaignInv, NEW k \in Keys, disk[k].pub = "published"
               PROVE  disk[k].artifact \in upstream \cup UNION {stash[i].files : i \in DOMAIN stash}
    BY DEF PublishedIsKept
  <2>1. disk[k].artifact \in Safe
    BY DiskFacts DEF Backed
  <2> QED BY <2>1 DEF Safe, Settled
<1> QED BY <1>1, CampaignInvariant, PTL

-----------------------------------------------------------------------------
(* The host and the fleet.                                                  *)

LEMMA ModesDistributed ==
  CampaignInv => /\ mode.stopFleet => mode.distributed
                 /\ mode.distributed \in BOOLEAN /\ mode.stopFleet \in BOOLEAN
  BY ModeType DEF CampaignInv, WorldInv

LEMMA InitHost == Init => HostInv
  BY DEF Init, HostInv

LEMMA HostStands ==
  ASSUME HostInv, UNCHANGED <<mode, host, dirty>>, pc' \notin {"idle", "verify"} \/ pc' = pc
  PROVE  HostInv'
  BY DEF HostInv

LEMMA NextHost == CampaignInv /\ HostInv /\ [Next]_vars => HostInv'
<1> SUFFICES ASSUME CampaignInv, HostInv, [Next]_vars PROVE HostInv'
  OBVIOUS
<1>1. CASE UNCHANGED vars
  BY <1>1, HostStands DEF vars
<1>2. CASE \E again \in BOOLEAN : StartCampaign(again)
  <2>1. pc = "idle" /\ pc' = "phase" /\ mode' = mode /\ dirty' = dirty /\ PinCpu
    BY <1>2 DEF StartCampaign
  <2> QED BY <2>1, ModesDistributed DEF HostInv, PinCpu
<1>3. CASE RestoreCpu
  <2>1. /\ pc' = "idle" /\ mode' = mode /\ dirty' = dirty
        /\ host' = IF mode.distributed THEN host ELSE [host EXCEPT !.governor = host.saved]
    BY <1>3 DEF RestoreCpu
  <2> QED BY <2>1, ModesDistributed DEF HostInv
<1>4. CASE StopVm
  BY <1>4 DEF StopVm, HostInv
<1>5. CASE VerifyVm
  <2>1. mode.stopFleet /\ mode' = mode /\ dirty' = dirty /\ host' = host /\ pc' # "verify"
    BY <1>5 DEF VerifyVm, HostInv
  <2> QED BY <2>1, ModesDistributed DEF HostInv
<1>6. CASE InterruptInCleanup \/ \E survives \in BOOLEAN : Crash(survives)
  <2>1. mode' = mode /\ dirty' = TRUE /\ host' = host /\ pc' = "idle"
    BY <1>6 DEF InterruptInCleanup, Crash
  <2> QED BY <2>1 DEF HostInv
<1>7. CASE \E p \in procs : CommandWrites(p) \/ \E ok \in BOOLEAN : CommandEnds(p, ok)
  <2>1. UNCHANGED <<mode, host, dirty>> /\ (pc' \notin {"idle", "verify"} \/ pc' = pc)
    BY <1>7 DEF CommandWrites, CommandEnds
  <2> QED BY <2>1, HostStands
<1>8. CASE VmTerminates
  BY <1>8, HostStands DEF VmTerminates
<1>9. CASE HandOff \/ Proceed \/ RecordFailure
  <2>1. UNCHANGED <<mode, host, dirty>> /\ pc' \notin {"idle", "verify"}
    BY <1>9, NextSeedAt, NextPhaseAt
    DEF CampaignInv, HandOff, Proceed, RecordFailure, Abort
  <2> QED BY <2>1, HostStands
<1>10. CASE \/ NothingToReconcile \/ ReconcileFails \/ HandOffFails \/ ReconcileRecovers
            \/ SkipPhase \/ MissingSession \/ BeginAttempt \/ LaunchRemote \/ RecordLocal
            \/ RemoteCompleted \/ SyncRemote \/ SyncFails \/ LeaveAttempt
            \/ \E reachable \in BOOLEAN : ReconcileFindsNothing(reachable)
  <2>1. UNCHANGED <<mode, host, dirty>> /\ pc' \notin {"idle", "verify"}
    BY <1>10 DEF NothingToReconcile, ReconcileFails, HandOffFails, ReconcileRecovers,
       SkipPhase, MissingSession, BeginAttempt, LaunchRemote, RecordLocal, RemoteCompleted,
       SyncRemote, SyncFails, LeaveAttempt, ReconcileFindsNothing, Abort
  <2> QED BY <2>1, HostStands
<1>11. CASE \/ PublicationBegins \/ StashPush \/ StashPop \/ PopConflicts \/ CommitResults
            \/ FlushRecord \/ Interrupt \/ \E ok \in BOOLEAN : PushResults(ok)
  <2>1. UNCHANGED <<mode, host, dirty>> /\ pc' \notin {"idle", "verify"}
    BY <1>11 DEF PublicationBegins, StashPush, StashPop, PopConflicts, CommitResults,
       FlushRecord, Interrupt, PushResults, Abort
  <2> QED BY <2>1, HostStands
<1> QED BY <1>1, <1>2, <1>3, <1>4, <1>5, <1>6, <1>7, <1>8, <1>9, <1>10, <1>11 DEF Next

\* A runner that unwinds, however its session ends, leaves the CPU policy as it found
\* it; also the one after it, whose snapshot is of a restored host.
THEOREM HostIsRestored == Spec => []HostRestored
<1>1. HostInv => HostRestored
  BY DEF HostInv, HostRestored
<1> QED BY <1>1, CampaignInvariant, InitHost, NextHost, PTL DEF Spec

\* The shutdown on record is one a machine has confirmed, however often it was asked.
THEOREM ShutdownIsVerified == Spec => []TerminatedIsVerified
<1> DEFINE FleetInv == /\ fleet \in [vm: {"RUNNING", "TERMINATED"}, attempts: Nat,
                                     recorded: {"none", "stopping", "terminated", "failed"}]
                       /\ TerminatedIsVerified
<1>1. Init => FleetInv
  BY DEF Init, TerminatedIsVerified
<1>2. FleetInv /\ [Next]_vars => FleetInv'
  <2> SUFFICES ASSUME FleetInv, [Next]_vars PROVE FleetInv'
    OBVIOUS
  <2>1. CASE \E again \in BOOLEAN : StartCampaign(again)
    BY <2>1 DEF StartCampaign, TerminatedIsVerified
  <2>2. CASE StopVm \/ VmTerminates \/ VerifyVm
    <3>1. CASE StopVm
      <4> DEFINE a == fleet.attempts + 1
      <4>1. fleet' = [fleet EXCEPT !.recorded = "stopping", !.attempts = a] /\ a \in Nat
        BY <3>1 DEF StopVm
      <4> HIDE DEF a
      <4> QED BY <4>1 DEF TerminatedIsVerified
    <3>2. CASE VmTerminates
      <4>1. fleet' = [fleet EXCEPT !.vm = "TERMINATED"]
        BY <3>2 DEF VmTerminates
      <4> QED BY <4>1 DEF TerminatedIsVerified
    <3>3. CASE VerifyVm
      <4>1. \/ fleet' = [fleet EXCEPT !.recorded = "terminated"] /\ fleet.vm = "TERMINATED"
            \/ fleet' = fleet
            \/ fleet' = [fleet EXCEPT !.recorded = "failed"]
        BY <3>3 DEF VerifyVm
      <4> QED BY <4>1 DEF TerminatedIsVerified
    <3> QED BY <2>2, <3>1, <3>2, <3>3
  <2>3. CASE fleet' = fleet
    BY <2>3 DEF TerminatedIsVerified
  <2>4. CASE \/ NothingToReconcile \/ ReconcileFails \/ HandOffFails \/ ReconcileRecovers
             \/ SkipPhase \/ MissingSession \/ BeginAttempt \/ LaunchRemote \/ RecordLocal
             \/ RemoteCompleted \/ SyncRemote \/ SyncFails \/ LeaveAttempt
             \/ HandOff \/ Proceed \/ RecordFailure
             \/ \E reachable \in BOOLEAN : ReconcileFindsNothing(reachable)
    <3>1. fleet' = fleet
      BY <2>4 DEF NothingToReconcile, ReconcileFails, HandOffFails, ReconcileRecovers,
         SkipPhase, MissingSession, BeginAttempt, LaunchRemote, RecordLocal, RemoteCompleted,
         SyncRemote, SyncFails, LeaveAttempt, ReconcileFindsNothing, HandOff, Proceed,
         RecordFailure
    <3> QED BY <2>3, <3>1
  <2>5. CASE \/ PublicationBegins \/ StashPush \/ StashPop \/ PopConflicts \/ CommitResults
             \/ FlushRecord \/ Interrupt \/ InterruptInCleanup \/ RestoreCpu
             \/ \E ok \in BOOLEAN : PushResults(ok) \/ \E survives \in BOOLEAN : Crash(survives)
             \/ \E p \in procs : CommandWrites(p) \/ \E done \in BOOLEAN : CommandEnds(p, done)
    <3>1. fleet' = fleet
      BY <2>5 DEF PublicationBegins, StashPush, StashPop, PopConflicts, CommitResults,
         FlushRecord, Interrupt, PushResults, InterruptInCleanup, RestoreCpu, Crash,
         CommandWrites, CommandEnds
    <3> QED BY <2>3, <3>1
  <2>6. CASE UNCHANGED vars
    BY <2>3, <2>6 DEF vars
  <2> HIDE DEF FleetInv
  <2> QED BY <2>1, <2>2, <2>4, <2>5, <2>6 DEF Next
<1>3. FleetInv => TerminatedIsVerified
  OBVIOUS
<1> QED BY <1>1, <1>2, <1>3, PTL DEF Spec

-----------------------------------------------------------------------------
(* What was completed stays done.                                           *)

Complete(c, m) == \A k \in c : m[k].status = "done"

CompleteInv ==
    /\ completed \subseteq Keys
    /\ pc # "idle" => Complete(completed, mem)
    /\ pc \notin InStash => Complete(completed, disk)
    /\ pc = "pull" => Complete(completed, Last(stash).m)
    /\ pc \in InAttempt => at \notin completed

LEMMA InitComplete == Init => CompleteInv
  BY DEF Init, CompleteInv, Complete, InAttempt

LEMMA CompleteWalks ==
  ASSUME CompleteInv, UNCHANGED <<manifests, completed>>, pc # "idle",
         pc \in InStash => pc' \in InStash, pc' \notin InAttempt, pc' # "pull"
  PROVE  CompleteInv'
  BY DEF CompleteInv, Complete, manifests

LEMMA CompleteStands ==
  ASSUME CompleteInv, UNCHANGED <<manifests, stash, at, completed>>,
         pc' = pc \/ (pc = "command" /\ pc' \in InAttempt)
  PROVE  CompleteInv'
<1>1. CASE pc' = pc
  BY <1>1 DEF CompleteInv, Complete, manifests
<1>2. CASE pc = "command" /\ pc' \in InAttempt
  BY <1>2 DEF CompleteInv, Complete, manifests, InAttempt, InStash
<1> QED BY <1>1, <1>2

LEMMA CompleteSaves ==
  ASSUME CompleteInv, NEW n, NEW k \in Keys, Differ(mem, n, k), Save(n),
         k \notin completed \/ n[k].status = "done",
         completed' = completed \/ (completed' = completed \cup {k} /\ n[k].status = "done"),
         pc # "idle", pc' # "pull",
         pc' \in InAttempt => at' \notin completed'
  PROVE  CompleteInv'
<1>1. \A j \in completed : j \in Keys /\ mem[j].status = "done"
  BY DEF CompleteInv, Complete
<1>2. \A j \in completed' : n[j].status = "done"
  BY <1>1 DEF Differ
<1>3. completed' \subseteq Keys
  BY DEF CompleteInv
<1> QED BY <1>2, <1>3 DEF CompleteInv, Complete, Save

LEMMA UndoneIsIncomplete ==
  CompleteInv /\ pc # "idle" /\ mem[at].status # "done" => at \notin completed
  BY DEF CompleteInv, Complete

LEMMA MarkCompletes ==
  ASSUME CampaignInv, CompleteInv, NEW s \in Attempted, at \notin completed, mem[at].pub # "published",
         Save(MarkStatus(mem, at, s)), completed' = completed, pc # "idle", pc' # "pull",
         pc' \in InAttempt => at' = at
  PROVE  CompleteInv'
<1> DEFINE n == MarkStatus(mem, at, s)
<1>1. at \in Keys /\ Differ(mem, n, at)
  BY MemFacts, Marked
<1> HIDE DEF n
<1> QED BY <1>1, CompleteSaves DEF n

LEMMA DoneCompletes ==
  ASSUME CampaignInv, CompleteInv, NEW i \in Nat, Save(MarkDone(mem, at, i)),
         completed' = completed \/ completed' = completed \cup {at},
         pc # "idle", pc' # "pull", pc' \in InAttempt => at' \notin completed'
  PROVE  CompleteInv'
<1> DEFINE n == MarkDone(mem, at, i)
<1>1. at \in Keys /\ Differ(mem, n, at) /\ n[at].status = "done"
  BY MemFacts, DoneMarked
<1> HIDE DEF n
<1> QED BY <1>1, CompleteSaves DEF n

LEMMA PublicationCompletes ==
  ASSUME CampaignInv, CompleteInv, mem[at].status = "done",
         NEW s \in {"pending", "published", "failed", "no_changes", "disabled"},
         Save(SetPublication(mem, at, s)), completed' = completed, pc # "idle",
         pc' \notin InAttempt, pc' # "pull"
  PROVE  CompleteInv'
<1> DEFINE n == SetPublication(mem, at, s)
<1>1. at \in Keys /\ Differ(mem, n, at) /\ n[at].status = "done"
  BY MemFacts, PublicationSet
<1> HIDE DEF n
<1> QED BY <1>1, CompleteSaves DEF n

LEMMA NextComplete ==
  ASSUME "stop_in_stash" \notin Faults, CampaignInv, CompleteInv, [Next]_vars
  PROVE  CompleteInv'
<1>1. CASE UNCHANGED vars \/ VmTerminates
  <2>1. UNCHANGED <<manifests, stash, at, completed, pc>>
    BY <1>1 DEF vars, VmTerminates, manifests, repository
  <2> QED BY <2>1, CompleteStands
<1>2. CASE \E again \in BOOLEAN : StartCampaign(again)
  <2>1. pc = "idle" /\ pc' = "phase" /\ mem' = disk /\ disk' = disk /\ completed' = completed
    BY <1>2 DEF StartCampaign
  <2> QED BY <2>1 DEF CompleteInv, Complete, InStash, InAttempt
<1>3. CASE \/ NothingToReconcile \/ ReconcileFails \/ SkipPhase \/ HandOff \/ HandOffFails
           \/ Proceed \/ RestoreCpu \/ StopVm \/ VerifyVm \/ InterruptInCleanup
  <2>1. /\ UNCHANGED <<manifests, completed>> /\ pc \in {"reconcile", "phase", "after", "exit", "verify"}
        /\ pc' \in {"phase", "reconcile", "exit", "publish", "after", "idle", "verify"}
    BY <1>3, NextSeedAt, NextPhaseAt
    DEF CampaignInv, NothingToReconcile, ReconcileFails, SkipPhase, HandOff, HandOffFails,
        Proceed, RestoreCpu, StopVm, VerifyVm, InterruptInCleanup, InCleanup, Abort
  <2> QED BY <2>1, CompleteWalks DEF InStash, InAttempt
<1>4. CASE PopConflicts \/ FlushRecord
  <2>1. /\ UNCHANGED <<manifests, completed>>
        /\ \/ pc = "pull" /\ pc' = "commit_unpopped"
           \/ pc = "flush" /\ pc' = "after"
    BY <1>4 DEF PopConflicts, FlushRecord
  <2> QED BY <2>1, CompleteWalks DEF InStash, InAttempt
<1>5. CASE \E p \in procs : CommandWrites(p) \/ \E ok \in BOOLEAN : CommandEnds(p, ok)
  <2>1. /\ UNCHANGED <<manifests, stash, at, completed>>
        /\ pc' = pc \/ (pc = "command" /\ pc' \in InAttempt)
    BY <1>5 DEF CommandWrites, CommandEnds, Attached, repository, InAttempt
  <2> QED BY <2>1, CompleteStands
<1>6. CASE \E reachable \in BOOLEAN : ReconcileFindsNothing(reachable)
  <2>1. PICK reachable \in BOOLEAN : ReconcileFindsNothing(reachable)
    BY <1>6
  <2>2. pc = "reconcile" /\ pc' = "phase" /\ completed' = completed
    BY <2>1 DEF ReconcileFindsNothing
  <2>3. CASE mem[at].status \in {"running", "syncing"}
    <3>1. Save(MarkStatus(mem, at, "stale"))
      BY <2>1, <2>3 DEF ReconcileFindsNothing
    <3>2. at \notin completed /\ mem[at].pub # "published"
      BY <2>2, <2>3, UndoneIsIncomplete, UndoneIsUnpublished
    <3> QED BY <2>2, <3>1, <3>2, MarkCompletes, StatusTypes DEF InAttempt
  <2>4. CASE mem[at].status \notin {"running", "syncing"}
    <3>1. UNCHANGED manifests
      BY <2>1, <2>4 DEF ReconcileFindsNothing
    <3> QED BY <2>2, <3>1, CompleteWalks DEF InStash, InAttempt
  <2> QED BY <2>3, <2>4
<1>7. CASE MissingSession
  <2>1. /\ pc = "phase" /\ pc' = "after" /\ completed' = completed
        /\ Save(MarkStatus(mem, at, "failed")) /\ mem[at].status # "done"
    BY <1>7 DEF MissingSession, IsDone
  <2>2. at \notin completed /\ mem[at].pub # "published"
    BY <2>1, UndoneIsIncomplete, UndoneIsUnpublished
  <2> QED BY <2>1, <2>2, MarkCompletes, StatusTypes DEF InAttempt
<1>8. CASE BeginAttempt
  <2> DEFINE n == StartPhase(mem, at)
  <2>1. /\ pc = "phase" /\ pc' \in {"contract", "command"} /\ completed' = completed /\ at' = at
        /\ Save(n) /\ mem[at].status # "done"
    BY <1>8, OldIsUndone DEF BeginAttempt
  <2>2. at \notin completed
    BY <2>1, UndoneIsIncomplete
  <2>3. at \in Keys /\ Differ(mem, n, at)
    <3>1. invocation \in Nat /\ made \in Seq(Result)
      BY DEF CampaignInv, WorldInv
    <3> QED BY <2>1, <3>1, MemFacts, PhaseStarted
  <2> HIDE DEF n
  <2> QED BY <2>1, <2>2, <2>3, CompleteSaves
<1>9. CASE LaunchRemote
  <2> DEFINE n == SetRemoteArtifact(mem, at)
  <2>1. /\ pc = "contract" /\ pc' = "command" /\ completed' = completed /\ at' = at /\ Save(n)
    BY <1>9 DEF LaunchRemote
  <2>2. at \notin completed
    BY <2>1 DEF CompleteInv, InAttempt
  <2>3. at \in Keys /\ Differ(mem, n, at)
    BY MemFacts, ContractSet
  <2> HIDE DEF n
  <2> QED BY <2>1, <2>2, <2>3, CompleteSaves
<1>10. CASE RemoteCompleted \/ SyncFails \/ RecordFailure
  <2>1. /\ pc \in InAttempt /\ completed' = completed
        /\ \E s \in Attempted : Save(MarkStatus(mem, at, s))
        /\ (pc' = "sync" /\ at' = at) \/ pc' \in {"after", "phase", "exit"}
    BY <1>10, NextSeedAt, StatusTypes
    DEF CampaignInv, RemoteCompleted, SyncFails, RecordFailure, Abort, InAttempt
  <2>2. at \notin completed /\ mem[at].pub # "published" /\ pc # "idle"
    BY <2>1 DEF CompleteInv, CampaignInv, PcInv, InAttempt
  <2> QED BY <2>1, <2>2, MarkCompletes DEF InAttempt
<1>11. CASE RecordLocal
  <2>1. /\ pc = "succeeded" /\ completed' = completed /\ at' = at /\ WorldInv
        /\ at \notin completed /\ mem[at].pub # "published"
    BY <1>11 DEF RecordLocal, CompleteInv, CampaignInv, PcInv, InAttempt
  <2>2. CASE FindLatest(at[2]) = 0
    <3>1. Save(MarkStatus(mem, at, "failed")) /\ pc' = "exit"
      BY <1>11, <2>2 DEF RecordLocal, Abort
    <3> QED BY <2>1, <3>1, MarkCompletes, StatusTypes DEF InAttempt
  <2>3. CASE FindLatest(at[2]) # 0
    <3>1. Save(MarkDone(mem, at, FindLatest(at[2]))) /\ pc' = "recorded"
      BY <1>11, <2>3 DEF RecordLocal
    <3>2. FindLatest(at[2]) \in Nat
      BY <2>1, <2>3, LatestIsOne, MadeFacts
    <3> QED BY <2>1, <3>1, <3>2, DoneCompletes
  <2> QED BY <2>2, <2>3
<1>12. CASE SyncRemote
  <2> DEFINE i == ReceiptOrNewer(at, mem[at])
  <2>1. /\ pc = "sync" /\ completed' = completed /\ at' = at /\ WorldInv /\ at \in Keys
        /\ at \notin completed
    BY <1>12, MemFacts DEF SyncRemote, CompleteInv, CampaignInv, InAttempt
  <2>2. \/ i # 0 /\ Save(MarkDone(mem, at, i)) /\ pc' = "recorded"
        \/ pc' = "exit" /\ UNCHANGED manifests
    BY <1>12 DEF SyncRemote, Abort
  <2>3. CASE i # 0 /\ Save(MarkDone(mem, at, i)) /\ pc' = "recorded"
    <3>1. i \in Nat
      BY <2>1, <2>3, ReceiptIsResult, MadeFacts
    <3> HIDE DEF i
    <3> QED BY <2>1, <2>3, <3>1, DoneCompletes
  <2>4. CASE pc' = "exit" /\ UNCHANGED manifests
    BY <2>1, <2>4, CompleteWalks DEF InStash, InAttempt
  <2> QED BY <2>2, <2>3, <2>4
<1>13. CASE ReconcileRecovers
  <2> DEFINE i == ReceiptOrNewer(at, mem[at])
  <2>1. /\ pc = "reconcile" /\ pc' = "publish" /\ completed' = completed \cup {at}
        /\ i # 0 /\ Save(MarkDone(mem, at, i)) /\ WorldInv /\ at \in Keys
    BY <1>13, MemFacts DEF ReconcileRecovers, CampaignInv
  <2>2. i \in Nat
    BY <2>1, ReceiptIsResult, MadeFacts
  <2> HIDE DEF i
  <2> QED BY <2>1, <2>2, DoneCompletes DEF InAttempt
<1>14. CASE LeaveAttempt
  <2>1. /\ pc = "recorded" /\ pc' = "publish" /\ completed' = completed \cup {at}
        /\ UNCHANGED manifests /\ at \in Keys
    BY <1>14, MemFacts DEF LeaveAttempt
  <2>2. mem[at].status = "done" /\ disk[at].status = "done"
    BY <2>1 DEF CampaignInv, PcInv
  <2> QED BY <2>1, <2>2 DEF CompleteInv, Complete, InStash, InAttempt, manifests
<1>15. CASE PublicationBegins \/ \E ok \in BOOLEAN : PushResults(ok)
  <2>1. /\ pc \in {"publish", "push", "push_unpopped"} /\ completed' = completed
        /\ pc' \in {"stash", "after", "flush"}
        /\ \E s \in {"pending", "published", "failed", "disabled"} :
              Save(SetPublication(mem, at, s))
    BY <1>15 DEF PublicationBegins, PushResults
  <2>2. mem[at].status = "done"
    BY <2>1 DEF CampaignInv, PcInv, Publishing
  <2> QED BY <2>1, <2>2, PublicationCompletes DEF InAttempt
<1>16. CASE CommitResults
  <2>1. CASE pc = "commit_unpopped" /\ Staged = {}
    <3>1. /\ Save(SetPublication(mem, at, "no_changes")) /\ pc' = "after" /\ completed' = completed
      BY <1>16, <2>1 DEF CommitResults
    <3>2. mem[at].status = "done"
      BY <2>1 DEF CampaignInv, PcInv, Publishing
    <3> QED BY <2>1, <3>1, <3>2, PublicationCompletes DEF InAttempt
  <2>2. CASE ~(pc = "commit_unpopped" /\ Staged = {})
    <3>1. /\ UNCHANGED <<manifests, completed>>
          /\ \/ pc = "commit" /\ pc' = "push"
             \/ pc = "commit_unpopped" /\ pc' = "push_unpopped"
      BY <1>16, <2>2 DEF CommitResults
    <3> QED BY <3>1, CompleteWalks DEF InStash, InAttempt
  <2> QED BY <2>1, <2>2
<1>17. CASE StashPush
  <2> DEFINE x == [m |-> disk, files |-> files \ head.files]
  <2>1. /\ pc = "stash" /\ pc' = "pull" /\ mem' = mem /\ completed' = completed
        /\ stash' = Append(stash, x)
    BY <1>17 DEF StashPush
  <2>2. Last(stash') = x
    <3>1. stash \in Seq(Snapshot)
      BY DEF CampaignInv, WorldInv
    <3>2. x \in Snapshot
      <4>1. disk \in Manifests /\ files \subseteq Nat
        BY MadeFacts DEF CampaignInv, RecordInv, Copies, WorldInv
      <4> QED BY <4>1 DEF Snapshot
    <3> HIDE DEF x
    <3>3. Len(stash') = Len(stash) + 1 /\ stash'[Len(stash) + 1] = x
      BY <2>1, <3>1, <3>2, Appended
    <3> QED BY <3>3 DEF Last
  <2>3. Last(stash').m = disk
    BY <2>2
  <2> QED BY <2>1, <2>3 DEF CompleteInv, Complete, InStash, InAttempt
<1>18. CASE StashPop
  <2>1. /\ pc = "pull" /\ pc' = "commit" /\ mem' = mem /\ completed' = completed
        /\ disk' = Last(stash).m
    BY <1>18 DEF StashPop, Unstash
  <2> QED BY <2>1 DEF CompleteInv, Complete, InStash, InAttempt
<1>19. CASE Interrupt
  <2>1. pc' = "exit" /\ completed' = completed /\ pc # "idle" /\ pc \notin {"commit_unpopped", "push_unpopped"}
    BY <1>19 DEF Interrupt, Abort
  <2>2. CASE pc \in InAttempt
    <3>1. Save(MarkStatus(mem, at, "interrupted")) /\ at \notin completed /\ mem[at].pub # "published"
      BY <1>19, <2>2 DEF Interrupt, CompleteInv, CampaignInv, PcInv
    <3> QED BY <2>1, <3>1, MarkCompletes, StatusTypes DEF InAttempt
  <2>3. CASE pc = "pull"
    <3>1. disk' = Last(stash).m /\ mem' = mem
      BY <1>19, <2>3 DEF Interrupt, Unstash, InAttempt
    <3> QED BY <2>1, <2>3, <3>1 DEF CompleteInv, Complete, InStash, InAttempt
  <2>4. CASE pc \notin InAttempt /\ pc # "pull"
    <3>1. UNCHANGED manifests
      BY <1>19, <2>4 DEF Interrupt
    <3> QED BY <2>1, <2>4, <3>1, CompleteWalks DEF InStash, InAttempt
  <2> QED BY <2>2, <2>3, <2>4
<1>20. CASE \E survives \in BOOLEAN : Crash(survives)
  <2>1. pc \notin InStash /\ pc' = "idle" /\ disk' = disk /\ completed' = completed
    BY <1>20 DEF Crash
  <2> QED BY <2>1 DEF CompleteInv, Complete, InStash, InAttempt
<1> QED BY <1>1, <1>2, <1>3, <1>4, <1>5, <1>6, <1>7, <1>8, <1>9, <1>10, <1>11, <1>12, <1>13,
           <1>14, <1>15, <1>16, <1>17, <1>18, <1>19, <1>20 DEF Next

\* As long as the runner is not stopped while its results lie in the stash, a phase once
\* completed stays done in the manifest on disk, and no result said to be published is
\* lost.
THEOREM AchievementsAreKept ==
  ASSUME "stop_in_stash" \notin Faults
  PROVE  Spec => []ResultsAreKept
<1>1. CompleteInv => DoneIsKept
  BY DEF CompleteInv, Complete, DoneIsKept
<1>2. CampaignInv /\ CompleteInv /\ [Next]_vars => CompleteInv'
  BY NextComplete
<1>3. Spec => []DoneIsKept
  BY <1>1, <1>2, InitComplete, CampaignInvariant, PTL DEF Spec
<1>4. DoneIsKept /\ PublishedIsKept => ResultsAreKept
  BY DEF ResultsAreKept
<1> QED BY <1>3, <1>4, PublishedStaysFound, PTL

-----------------------------------------------------------------------------
(* The loop of the BO phase.                                                *)

Entry == {e \in [result : Results, score : Scores] : e.score \in ScoresFor(e.result)}
Told == [asked : Scores, ran : Scores, repaired : BOOLEAN]

Shape ==
    /\ log \in Seq(Entry) /\ told \in Seq(Told) /\ worth \in Seq(Scores)
    /\ Len(told) = Len(log) /\ Len(worth) = Len(log)
    /\ phase \in {"bootstrap", "optimize", "done", "raised"} /\ fitted \in BOOLEAN

\* Nothing but 0 is ever the score of a trial without metrics.
RaisedIsWorthless ==
    \A i \in DOMAIN log :
        ~HasMetrics(log[i]) => log[i].score = 0 /\ told[i].ran = 0 /\ worth[i] = 0

Current == \A i \in DOMAIN log : log[i].score = worth[i] /\ told[i].ran = worth[i]

BOInv ==
    /\ Shape /\ RaisedIsWorthless
    /\ phase = "bootstrap" => Current /\ Len(log) <= PilotSize
    /\ phase \in {"optimize", "done"} => Len(log) >= PilotSize
    /\ phase \in {"optimize", "done"} /\ WellCalibrated => fitted /\ Current
-----------------------------------------------------------------------------
(* Sequences.                                                               *)

LEMMA SeqOfFunction ==
  ASSUME NEW S, NEW n \in Nat, NEW f \in [1 .. n -> S]
  PROVE  f \in Seq(S) /\ Len(f) = n
  OBVIOUS

\* A fit scores each trial of a log, those without metrics with 0.
LEMMA RefitType ==
  ASSUME NEW l \in Seq(Entry), NEW w \in Refit(l)
  PROVE  /\ w \in Seq(Scores) /\ Len(w) = Len(l)
         /\ \A i \in DOMAIN l : ~HasMetrics(l[i]) => w[i] = 0
<1>1. DOMAIN l = 1 .. Len(l) /\ Len(l) \in Nat
  OBVIOUS
<1>2. w \in [1 .. Len(l) -> Scores] /\ \A i \in DOMAIN l : w[i] \in ScoresFor(l[i].result)
  BY <1>1 DEF Refit
<1>3. w \in Seq(Scores) /\ Len(w) = Len(l)
  BY <1>1, <1>2, SeqOfFunction
<1> QED BY <1>2, <1>3 DEF HasMetrics, ScoresFor

\* Rescoring and relabelling: trials with metrics get their worth, the others keep 0.
LEMMA RescoredLog ==
  ASSUME NEW l \in Seq(Entry), NEW w \in Refit(l)
  PROVE  /\ Rescored(l, w) \in Seq(Entry) /\ Len(Rescored(l, w)) = Len(l)
         /\ \A i \in DOMAIN l :
               /\ Rescored(l, w)[i].result = l[i].result
               /\ Rescored(l, w)[i].score = IF HasMetrics(l[i]) THEN w[i] ELSE l[i].score
<1>1. DOMAIN l = 1 .. Len(l) /\ Len(l) \in Nat /\ \A i \in DOMAIN l : l[i] \in Entry
  OBVIOUS
<1>2. /\ DOMAIN w = DOMAIN l
      /\ \A i \in DOMAIN l : w[i] \in Scores /\ w[i] \in ScoresFor(l[i].result)
  BY <1>1 DEF Refit
<1>3. Rescored(l, w) \in [1 .. Len(l) -> Entry]
  BY <1>1, <1>2 DEF Rescored, Entry
<1>4. \A i \in DOMAIN l :
          /\ Rescored(l, w)[i].result = l[i].result
          /\ Rescored(l, w)[i].score = IF HasMetrics(l[i]) THEN w[i] ELSE l[i].score
  BY <1>1, <1>2 DEF Rescored, Entry
<1> QED BY <1>1, <1>3, <1>4, SeqOfFunction

LEMMA RelabelledHistory ==
  ASSUME NEW l \in Seq(Entry), NEW w \in Refit(l), NEW t \in Seq(Told), Len(t) = Len(l)
  PROVE  /\ Relabelled(t, l, w) \in Seq(Told) /\ Len(Relabelled(t, l, w)) = Len(l)
         /\ \A i \in DOMAIN l :
               Relabelled(t, l, w)[i].ran = IF HasMetrics(l[i]) THEN w[i] ELSE t[i].ran
<1>1. /\ DOMAIN l = 1 .. Len(l) /\ DOMAIN t = DOMAIN l /\ Len(l) \in Nat
      /\ \A i \in DOMAIN l : t[i] \in Told
  OBVIOUS
<1>2. DOMAIN w = DOMAIN l /\ \A i \in DOMAIN l : w[i] \in Scores
  BY <1>1, RefitType
<1>3. Relabelled(t, l, w) \in [1 .. Len(l) -> Told]
  BY <1>1, <1>2 DEF Relabelled, Told
<1>4. \A i \in DOMAIN l :
          Relabelled(t, l, w)[i].ran = IF HasMetrics(l[i]) THEN w[i] ELSE t[i].ran
  BY <1>1, <1>2 DEF Relabelled, Told
<1> QED BY <1>1, <1>3, <1>4, SeqOfFunction
-----------------------------------------------------------------------------
(* The steps.                                                               *)

LEMMA ScoresType ==
  /\ 0 \in Scores
  /\ \A r \in Results : ScoresFor(r) \subseteq Scores
  /\ \A r \in Results : r = "raised" => ScoresFor(r) = {0}
  BY BOAssumption DEF Scores, ScoresFor, Results

\* A trial told and logged with one score.
TrialLogged(l, t, r, s) ==
    /\ l \in Seq(Entry) /\ t \in Seq(Told)
    /\ Len(l) = Len(log) + 1 /\ Len(t) = Len(l) /\ DOMAIN l = 1 .. Len(log) + 1
    /\ \A i \in DOMAIN log : i \in DOMAIN l /\ l[i] = log[i] /\ t[i] = told[i]
    /\ l[Len(l)] = [result |-> r, score |-> s]
    /\ t[Len(l)].ran = s
    /\ Len(log) \in Nat /\ DOMAIN log = 1 .. Len(log)

LEMMA LoggedTrial ==
  ASSUME Shape, NEW r \in Results, NEW s \in ScoresFor(r), NEW repaired \in BOOLEAN
  PROVE  TrialLogged(Append(log, [result |-> r, score |-> s]),
                     Append(told, [asked |-> s, ran |-> s, repaired |-> repaired]), r, s)
<1> DEFINE l == Append(log, [result |-> r, score |-> s])
           t == Append(told, [asked |-> s, ran |-> s, repaired |-> repaired])
<1>1. /\ [result |-> r, score |-> s] \in Entry
      /\ [asked |-> s, ran |-> s, repaired |-> repaired] \in Told
  BY ScoresType DEF Entry, Told
<1>2. log \in Seq(Entry) /\ told \in Seq(Told) /\ Len(told) = Len(log)
  BY DEF Shape
<1>3. Len(log) \in Nat /\ DOMAIN log = 1 .. Len(log)
  BY <1>2
<1>4. /\ l \in Seq(Entry) /\ Len(l) = Len(log) + 1 /\ DOMAIN l = 1 .. Len(log) + 1
      /\ \A i \in 1 .. Len(log) : l[i] = log[i]
      /\ l[Len(log) + 1] = [result |-> r, score |-> s]
  BY <1>1, <1>2, Appended
<1>5. /\ t \in Seq(Told) /\ Len(t) = Len(log) + 1
      /\ \A i \in 1 .. Len(log) : t[i] = told[i]
      /\ t[Len(log) + 1] = [asked |-> s, ran |-> s, repaired |-> repaired]
  BY <1>1, <1>2, Appended
<1> HIDE DEF l, t
<1>6. TrialLogged(l, t, r, s)
  BY <1>3, <1>4, <1>5 DEF TrialLogged
<1> QED BY <1>6 DEF l, t

\* The pilots are what they are once their results are logged.
LEMMA SamePilots ==
  ASSUME Shape, Len(log) >= PilotSize,
         \A i \in DOMAIN log : log'[i].result = log[i].result
  PROVE  WellCalibrated' = WellCalibrated
<1>1. \A i \in 1 .. PilotSize : i \in DOMAIN log
  BY BOAssumption DEF Shape
<1>2. \A i \in 1 .. PilotSize : HasMetrics(log'[i]) <=> HasMetrics(log[i])
  BY <1>1 DEF HasMetrics
<1>3. {i \in 1 .. PilotSize : HasMetrics(log'[i])} = {i \in 1 .. PilotSize : HasMetrics(log[i])}
  BY <1>2
<1> QED BY <1>3 DEF WellCalibrated

LEMMA InitBO == BOInit => BOInv
<1> SUFFICES ASSUME BOInit PROVE BOInv
  OBVIOUS
<1>1. log = <<>> /\ told = <<>> /\ worth = <<>> /\ phase = "bootstrap" /\ fitted = FALSE
  BY DEF BOInit
<1>2. Shape
  <2>1. Len(<<>>) = 0 /\ <<>> \in Seq(Entry) /\ <<>> \in Seq(Told) /\ <<>> \in Seq(Scores)
    OBVIOUS
  <2> QED BY <1>1, <2>1 DEF Shape
<1>3. DOMAIN log = {} /\ Len(log) = 0
  BY <1>1
<1> QED BY <1>1, <1>2, <1>3, BOAssumption DEF BOInv, RaisedIsWorthless, Current

LEMMA BootstrapBO == BOInv /\ BootstrapStep => BOInv'
<1> SUFFICES ASSUME BOInv, BootstrapStep PROVE BOInv'
  OBVIOUS
<1>0. PICK r \in Results : \E s \in ScoresFor(r) :
         /\ log' = Append(log, [result |-> r, score |-> s])
         /\ told' = Append(told, [asked |-> s, ran |-> s, repaired |-> FALSE])
         /\ worth' = Append(worth, s)
  BY DEF BootstrapStep
<1>1. PICK s \in ScoresFor(r) :
         /\ log' = Append(log, [result |-> r, score |-> s])
         /\ told' = Append(told, [asked |-> s, ran |-> s, repaired |-> FALSE])
         /\ worth' = Append(worth, s)
  BY <1>0
<1>2. /\ phase = "bootstrap" /\ phase' = "bootstrap" /\ Len(log) < PilotSize
      /\ fitted' = fitted
  BY DEF BootstrapStep
<1>3. TrialLogged(log', told', r, s)
  <2>1. Shape /\ FALSE \in BOOLEAN
    BY DEF BOInv
  <2> QED BY <1>1, <2>1, LoggedTrial
<1> USE <1>3 DEF TrialLogged
<1>4. /\ worth' \in Seq(Scores) /\ Len(worth') = Len(log')
      /\ \A i \in DOMAIN log : worth'[i] = worth[i]
      /\ worth'[Len(log')] = s
  BY <1>1, <1>3, ScoresType, Appended DEF BOInv, Shape
<1>5. Shape'
  BY <1>2, <1>3, <1>4 DEF BOInv, Shape
<1>6. RaisedIsWorthless'
  <2> SUFFICES ASSUME NEW i \in DOMAIN log', ~HasMetrics(log'[i])
               PROVE  log'[i].score = 0 /\ told'[i].ran = 0 /\ worth'[i] = 0
    BY DEF RaisedIsWorthless, HasMetrics
  <2>1. CASE i \in DOMAIN log
    BY <1>3, <1>4, <2>1 DEF BOInv, RaisedIsWorthless, HasMetrics
  <2>2. CASE i = Len(log')
    BY <1>3, <1>4, <2>2, ScoresType DEF HasMetrics
  <2> QED BY <1>3, <2>1, <2>2
<1>7. Current'
  BY <1>2, <1>3, <1>4 DEF BOInv, Current
<1>8. Len(log') <= PilotSize
  BY <1>2, <1>3, BOAssumption
<1> QED BY <1>2, <1>5, <1>6, <1>7, <1>8 DEF BOInv

\* The entries whose trials have metrics are rescored, the others are worth 0.
LEMMA RescoredIsCurrent ==
  ASSUME NEW l \in Seq(Entry), NEW t \in Seq(Told), Len(t) = Len(l), NEW w \in Refit(l),
         \A i \in DOMAIN l : ~HasMetrics(l[i]) => l[i].score = 0 /\ t[i].ran = 0,
         log' = Rescored(l, w), told' = Relabelled(t, l, w), worth' = w,
         fitted' \in BOOLEAN, phase' \in {"bootstrap", "optimize", "done", "raised"}
  PROVE  /\ Shape' /\ RaisedIsWorthless' /\ Current' /\ Len(log') = Len(l)
         /\ \A i \in DOMAIN l : log'[i].result = l[i].result
<1>1. /\ log' \in Seq(Entry) /\ Len(log') = Len(l)
      /\ \A i \in DOMAIN l :
            /\ log'[i].result = l[i].result
            /\ log'[i].score = IF HasMetrics(l[i]) THEN w[i] ELSE l[i].score
  BY RescoredLog
<1>2. /\ told' \in Seq(Told) /\ Len(told') = Len(l)
      /\ \A i \in DOMAIN l : told'[i].ran = IF HasMetrics(l[i]) THEN w[i] ELSE t[i].ran
  BY RelabelledHistory
<1>3. /\ w \in Seq(Scores) /\ Len(w) = Len(l)
      /\ \A i \in DOMAIN l : ~HasMetrics(l[i]) => w[i] = 0
  BY RefitType
<1>4. DOMAIN log' = DOMAIN l
  BY <1>1
<1>5. Shape'
  BY <1>1, <1>2, <1>3 DEF Shape
<1>6. Current'
  BY <1>1, <1>2, <1>3, <1>4 DEF Current
<1>7. RaisedIsWorthless'
  BY <1>1, <1>2, <1>3, <1>4 DEF RaisedIsWorthless, HasMetrics
<1> QED BY <1>1, <1>5, <1>6, <1>7

LEMMA CalibrateBO == BOInv /\ CalibrateAndRelabel => BOInv'
<1> SUFFICES ASSUME BOInv, CalibrateAndRelabel PROVE BOInv'
  OBVIOUS
<1>0. /\ Shape /\ RaisedIsWorthless /\ Current
      /\ phase = "bootstrap" /\ Len(log) = PilotSize
  BY DEF BOInv, CalibrateAndRelabel
<1>1. DOMAIN log = 1 .. PilotSize /\ Len(log) \in Nat
  BY <1>0 DEF Shape
<1>2. CASE Successful = {}
  BY <1>0, <1>2 DEF CalibrateAndRelabel, BOInv, Shape, RaisedIsWorthless
<1>3. CASE Successful # {}
  <2>1. /\ log' = Rescored(log, worth') /\ told' = Relabelled(told, log, worth')
        /\ phase' \in {"done", "optimize"}
    BY <1>3 DEF CalibrateAndRelabel
  <2>2. WellCalibrated <=> ~(Cardinality(Successful) < MinMetrics)
    <3>1. Successful = {i \in 1 .. PilotSize : HasMetrics(log[i])}
      BY <1>1 DEF Successful
    <3>2. IsFiniteSet(Successful)
      <4>1. PilotSize \in Int /\ 1 \in Int
        BY BOAssumption
      <4>2. IsFiniteSet(1 .. PilotSize)
        BY <4>1, FS_Interval
      <4> QED BY <3>1, <4>2, FS_Subset
    <3>3. Cardinality(Successful) \in Nat /\ MinMetrics \in Nat
      BY <3>2, FS_CardinalityType, BOAssumption
    <3> QED BY <3>1, <3>3 DEF WellCalibrated
  <2>3. worth' \in Refit(log) /\ fitted' \in BOOLEAN /\ (WellCalibrated => fitted')
    <3>1. CASE Cardinality(Successful) < MinMetrics
      <4>1. worth' = worth /\ fitted' = fitted
        BY <1>3, <3>1 DEF CalibrateAndRelabel
      <4>2. worth \in [DOMAIN log -> Scores]
        BY <1>0, <1>1 DEF Shape
      <4>3. \A i \in DOMAIN log : worth[i] \in ScoresFor(log[i].result)
        BY <1>0, <4>2 DEF Current, RaisedIsWorthless, Shape, Entry
      <4> QED BY <1>0, <2>2, <3>1, <4>1, <4>2, <4>3 DEF Refit, Shape
    <3>2. CASE ~(Cardinality(Successful) < MinMetrics)
      BY <1>3, <3>2 DEF CalibrateAndRelabel
    <3> QED BY <3>1, <3>2
  <2>4. /\ Shape' /\ RaisedIsWorthless' /\ Current' /\ Len(log') = Len(log)
        /\ \A i \in DOMAIN log : log'[i].result = log[i].result
    <3>1. log \in Seq(Entry) /\ told \in Seq(Told) /\ Len(told) = Len(log)
      BY <1>0 DEF Shape
    <3>2. \A i \in DOMAIN log : ~HasMetrics(log[i]) => log[i].score = 0 /\ told[i].ran = 0
      BY <1>0 DEF RaisedIsWorthless
    <3> QED BY <2>1, <2>3, <3>1, <3>2, RescoredIsCurrent
  <2>5. WellCalibrated' = WellCalibrated
    BY <1>0, <2>4, SamePilots, BOAssumption
  <2>6. Len(log') >= PilotSize
    BY <1>0, <2>4, BOAssumption
  <2> QED BY <2>1, <2>3, <2>4, <2>5, <2>6 DEF BOInv
<1> QED BY <1>2, <1>3

LEMMA OptimizeBO == BOInv /\ OptimizeStep => BOInv'
<1> SUFFICES ASSUME BOInv, OptimizeStep PROVE BOInv'
  OBVIOUS
<1>0. /\ Shape /\ RaisedIsWorthless /\ phase = "optimize" /\ Len(log) >= PilotSize
      /\ WellCalibrated => fitted /\ Current
  BY DEF BOInv, OptimizeStep
<1>1. PICK r \in Results, out \in BOOLEAN, repaired \in BOOLEAN : \E s \in ScoresFor(r) :
         /\ TellAndExpand(r, s, out, repaired)
         /\ phase' = PhaseAfter(Last(log').score)
  BY DEF OptimizeStep, Finish
<1>2. PICK s \in ScoresFor(r) :
         /\ TellAndExpand(r, s, out, repaired)
         /\ phase' = PhaseAfter(Last(log').score)
  BY <1>1
<1> DEFINE l == Append(log, [result |-> r, score |-> s])
           t == Append(told, [asked |-> s, ran |-> s, repaired |-> repaired])
<1>3. TrialLogged(l, t, r, s)
  BY <1>0, LoggedTrial
<1>4. \/ /\ Expands(r, out) /\ fitted' = fitted
         /\ \E w \in Refit(l) :
                worth' = w /\ log' = Rescored(l, w) /\ told' = Relabelled(t, l, w)
      \/ ~Expands(r, out) /\ log' = l /\ told' = t /\ Kept(r, out)
  BY <1>2 DEF TellAndExpand
<1>5. phase' \in {"done", "optimize"}
  BY <1>2 DEF PhaseAfter
<1> HIDE DEF l, t
<1>6. \A i \in DOMAIN l : ~HasMetrics(l[i]) => l[i].score = 0 /\ t[i].ran = 0
  <2> SUFFICES ASSUME NEW i \in DOMAIN l, ~HasMetrics(l[i])
               PROVE  l[i].score = 0 /\ t[i].ran = 0
    OBVIOUS
  <2>1. CASE i \in DOMAIN log
    BY <1>0, <1>3, <2>1 DEF TrialLogged, RaisedIsWorthless
  <2>2. CASE i = Len(l)
    BY <1>3, <2>2, ScoresType DEF TrialLogged, HasMetrics
  <2> QED BY <1>3, <2>1, <2>2 DEF TrialLogged
<1>7. CASE Expands(r, out)
  <2>1. PICK w \in Refit(l) : worth' = w /\ log' = Rescored(l, w) /\ told' = Relabelled(t, l, w)
    BY <1>4, <1>7
  <2>2. fitted' = fitted /\ fitted /\ fitted \in BOOLEAN
    BY <1>0, <1>4, <1>7 DEF Expands, Shape
  <2>3. /\ Shape' /\ RaisedIsWorthless' /\ Current' /\ Len(log') = Len(l)
        /\ \A i \in DOMAIN l : log'[i].result = l[i].result
    <3>1. l \in Seq(Entry) /\ t \in Seq(Told) /\ Len(t) = Len(l)
      BY <1>3 DEF TrialLogged
    <3>2. fitted' \in BOOLEAN /\ phase' \in {"bootstrap", "optimize", "done", "raised"}
      BY <1>5, <2>2
    <3> QED BY <1>6, <2>1, <3>1, <3>2, RescoredIsCurrent
  <2>4. Len(log') >= PilotSize
    BY <1>0, <1>3, <2>3, BOAssumption DEF TrialLogged
  <2> QED BY <1>5, <2>2, <2>3, <2>4 DEF BOInv
<1>8. CASE ~Expands(r, out)
  <2>1. log' = l /\ told' = t /\ Kept(r, out)
    BY <1>4, <1>8
  <2>2. Len(log') >= PilotSize /\ Len(log') = Len(log) + 1 /\ Len(log) \in Nat
    BY <1>0, <1>3, <2>1, BOAssumption DEF TrialLogged
  <2>3. WellCalibrated' = WellCalibrated
    <3>1. \A i \in DOMAIN log : log'[i].result = log[i].result
      BY <1>3, <2>1 DEF TrialLogged
    <3> QED BY <1>0, <3>1, SamePilots
  <2>4. CASE FitsOnFirst(r)
    <3>1. worth' \in Refit(l) /\ fitted' = TRUE
      BY <2>1, <2>4 DEF Kept
    <3>2. /\ worth' \in Seq(Scores) /\ Len(worth') = Len(l)
          /\ \A i \in DOMAIN l : ~HasMetrics(l[i]) => worth'[i] = 0
      BY <1>3, <3>1, RefitType DEF TrialLogged
    <3>3. Shape'
      BY <1>3, <1>5, <2>1, <3>1, <3>2 DEF TrialLogged, Shape
    <3>4. RaisedIsWorthless'
      BY <1>6, <2>1, <3>2 DEF RaisedIsWorthless, HasMetrics
    <3>5. ~WellCalibrated
      BY <1>0, <2>4 DEF FitsOnFirst
    <3> QED BY <1>5, <2>2, <2>3, <3>3, <3>4, <3>5 DEF BOInv
  <2>5. CASE ~FitsOnFirst(r)
    <3>1. worth' = Append(worth, s) /\ fitted' = fitted
      <4>1. Last(log') = [result |-> r, score |-> s]
        BY <1>3, <2>1 DEF TrialLogged, Last
      <4> QED BY <2>1, <2>5, <4>1 DEF Kept
    <3>2. /\ worth' \in Seq(Scores) /\ Len(worth') = Len(l)
          /\ \A i \in DOMAIN log : worth'[i] = worth[i]
          /\ worth'[Len(l)] = s
      BY <1>0, <1>3, <3>1, ScoresType, Appended DEF TrialLogged, Shape
    <3>3. Shape'
      BY <1>0, <1>3, <1>5, <2>1, <3>1, <3>2 DEF TrialLogged, Shape
    <3>4. RaisedIsWorthless'
      <4> SUFFICES ASSUME NEW i \in DOMAIN log', ~HasMetrics(log'[i])
                   PROVE  log'[i].score = 0 /\ told'[i].ran = 0 /\ worth'[i] = 0
        BY DEF RaisedIsWorthless, HasMetrics
      <4>1. CASE i \in DOMAIN log
        BY <1>0, <1>3, <1>6, <2>1, <3>2, <4>1 DEF TrialLogged, RaisedIsWorthless
      <4>2. CASE i = Len(l)
        BY <1>3, <1>6, <2>1, <3>2, <4>2 DEF TrialLogged
      <4> QED BY <1>3, <2>1, <4>1, <4>2 DEF TrialLogged
    <3>5. WellCalibrated => fitted' /\ Current'
      <4> SUFFICES ASSUME WellCalibrated PROVE fitted' /\ Current'
        OBVIOUS
      <4>1. fitted' /\ Current
        BY <1>0, <3>1
      <4>2. \A i \in DOMAIN log : log'[i].score = worth'[i] /\ told'[i].ran = worth'[i]
        BY <1>3, <2>1, <3>2, <4>1 DEF TrialLogged, Current
      <4>3. log'[Len(l)].score = worth'[Len(l)] /\ told'[Len(l)].ran = worth'[Len(l)]
        BY <1>3, <2>1, <3>2 DEF TrialLogged
      <4> QED BY <1>3, <2>1, <4>1, <4>2, <4>3 DEF TrialLogged, Current
    <3> QED BY <1>5, <2>2, <2>3, <3>3, <3>4, <3>5 DEF BOInv
  <2> QED BY <2>4, <2>5
<1> QED BY <1>7, <1>8

LEMMA NextBO == BOInv /\ [BONext]_boVars => BOInv'
<1> SUFFICES ASSUME BOInv, [BONext]_boVars PROVE BOInv'
  OBVIOUS
<1>1. CASE AskIsExhausted \/ UNCHANGED boVars
  <2>1. UNCHANGED <<log, told, worth, fitted>> /\ WellCalibrated' = WellCalibrated
    BY <1>1 DEF AskIsExhausted, boVars, WellCalibrated, HasMetrics
  <2>2. Shape' /\ RaisedIsWorthless' /\ (Current' <=> Current)
    BY <1>1, <2>1 DEF AskIsExhausted, boVars, BOInv, Shape, RaisedIsWorthless, HasMetrics, Current
  <2>3. phase' = phase \/ (phase = "optimize" /\ phase' = "done")
    BY <1>1 DEF AskIsExhausted, boVars
  <2> QED BY <2>1, <2>2, <2>3 DEF BOInv
<1> QED BY <1>1, BootstrapBO, CalibrateBO, OptimizeBO DEF BONext

\* With enough pilots, the log of _optimize_step and the costs told to SMAC for the
\* configurations that ran are scores on the present anchors, however often the
\* ranges expand; collect_best compares like with like.
THEOREM ScoresStayCurrent == BOSpec => []ScoresAreCurrent
<1>1. BOInv => ScoresAreCurrent
  BY DEF BOInv, Current, ScoresAreCurrent
<1> QED BY <1>1, InitBO, NextBO, PTL DEF BOSpec
=============================================================================
