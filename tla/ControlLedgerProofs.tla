------------------------- MODULE ControlLedgerProofs -------------------------
(***************************************************************************)
(* That the segmented control ledger is always one unforked chain, for any *)
(* number of processes, operations and faults: TypeOK, ChainIntact and     *)
(* DiskIsLog are consequences of the inductive invariant IInv and Foreign. *)
(* In order: the invariant; every step keeps the state well typed; the     *)
(* steps that leave the set of files alone or write to the active keep it; *)
(* the second commit of a rotation, the swap and repair keep it; what an   *)
(* older binary writes outside the chain stays outside; the theorems.      *)
(***************************************************************************)
EXTENDS ControlLedger, TLAPS

-----------------------------------------------------------------------------
(* The inductive invariant.                                                 *)

(* Where a process may write to the active or to the manifest, where it    *)
(* relies on a walk it has not confirmed, where it relies on a repairing   *)
(* read.                                                                   *)
Writing == {"ready", "linked", "sealed", "copied"}
Rotating == Writing \cup {"listed"}
Walking == {"walked", "opened", "locked"}
Repairing == {"rcopy", "cut", "xopened", "xlocked", "fragged"}

(* LOCK_EX excludes LOCK_EX and LOCK_SH on the same inode. *)
Locks == \A p, q \in Procs :
           p # q /\ pc[p] \in Exclusive \cup {"shared"} /\ pc[q] \in Exclusive => h[p] # h[q]

(* A handle that is locked for appending is bound, and so is the active    *)
(* once a reading command runs.                                            *)
Handles == \A p \in Procs : /\ pc[p] \in {"opened", "locked"} => h[p] # 0
                            /\ pc[p] \in {"ropened", "shared"} => op[p] \in {"read", "repair"}
                            /\ op[p] \in {"read", "repair"} => active # 0

(* A walk verified a manifest that has at most grown since. *)
Walks == \A p \in Procs : pc[p] \in Walking =>
           Len(wk[p]) <= Len(manifest) /\ \A k \in DOMAIN wk[p] : wk[p][k] = manifest[k]

ActiveChain == [base |-> Base(manifest), count |-> Len(files[active]),
                prev |-> HeadOf(manifest, files[active])]

(* A process past lockActive's checks holds the active itself, and what it *)
(* remembers of the set is the set as it is.                               *)
Writers == \A p \in Procs :
  /\ pc[p] \in Rotating => active # 0 /\ h[p] = active
  /\ pc[p] \in Writing => /\ wk[p] = manifest /\ ~Listed(manifest, active)
                          /\ active \notin torn /\ ch[p] = ActiveChain
  /\ pc[p] \in {"ready", "linked"} => Seals(files[active]) = {}
  /\ pc[p] \in {"sealed", "copied"} => files[active] # <<>>
  /\ pc[p] = "copied" => Len(manifest) + 1 \in DOMAIN seg /\ seg[Len(manifest) + 1] = active
  /\ pc[p] = "listed" => Listed(manifest, active)

(* The active is damaged in a way that only repair may touch. *)
Damaged == active \in torn \/ \E k \in Seals(files[active]) : k < Len(files[active])

OneRepair == \A p, q \in Procs : p # q => ~(op[p] \in RepairOps /\ op[q] \in RepairOps)

(* Between its read and its truncation a repair holds no lock for a while; *)
(* what it found stays true because the damage keeps every writer out.     *)
Repairs == \A p \in Procs : pc[p] \in Repairing =>
  /\ op[p] = "repair" /\ ~Listed(manifest, active) /\ Damaged
  /\ ch[p].count <= Len(files[active])
  /\ \A q \in Procs : pc[q] \notin Rotating
  /\ pc[p] = "fragged" => h[p] = active

(* Only the last listed segment may still have the active's name, and the  *)
(* entries' heads grow.                                                    *)
Sets == \A k \in DOMAIN manifest : /\ seg[k] = active => k = Len(manifest)
                                   /\ manifest[k].sha # <<>>
                                   /\ manifest[k].head <= Base(manifest)

(* What an older binary wrote outside the chain is in segment 1 or in an   *)
(* active without a line of the chain, and no process writes behind it.    *)
Foreign ==
  /\ foreign # {} => OlderWriter
  /\ foreign \cap torn = {}
  /\ \A k \in DOMAIN manifest : seg[k] \in foreign => k = 1
  /\ active \in foreign => manifest # <<>> /\ (Listed(manifest, active) \/ files[active] = <<>>)
  /\ \A p \in Procs : pc[p] \in Writing => active \notin foreign

IInv == /\ TypeOK /\ Locks /\ Handles /\ Walks /\ Writers
        /\ OneRepair /\ Repairs /\ Sets /\ ChainIntact /\ DiskIsLog

-----------------------------------------------------------------------------
(* Lemmas about manifests, chains and lines.                                *)

LEMMA LineType ==
  ASSUME TypeOK, NEW p \in Procs, NEW a \in History!Acts, NEW n \in Nat, NEW w \in BOOLEAN
  PROVE  NextLine(p, a, n, w) \in Line
  BY DEF TypeOK, ProcsOK, HistoryOK, Chain, NextLine, Line, History!Line

LEMMA LastElement ==
  ASSUME NEW S, NEW s \in Seq(S), s # <<>>
  PROVE  Len(s) \in Nat /\ Len(s) > 0 /\ Len(s) \in DOMAIN s /\ s[Len(s)] \in S
  OBVIOUS

LEMMA BaseType ==
  ASSUME NEW m \in Seq(ManifestEntry)
  PROVE  Base(m) \in Nat /\ Prev(m) \in Nat
<1>1. CASE m = <<>>
  BY <1>1, Zenon DEF Base, Prev
<1>2. CASE m # <<>>
  <2>1. m[Len(m)] \in ManifestEntry
    BY <1>2, LastElement, Zenon
  <2>2. QED
    BY <1>2, <2>1, Zenon DEF Base, Prev, ManifestEntry
<1>3. QED
  BY <1>1, <1>2, Zenon

LEMMA HeadType ==
  ASSUME NEW m \in Seq(ManifestEntry), NEW ls \in Seq(Line)
  PROVE  HeadOf(m, ls) \in Nat
<1>1. CASE ls = <<>>
  BY <1>1, BaseType, Zenon DEF HeadOf
<1>2. CASE ls # <<>>
  <2>1. ls[Len(ls)] \in Line
    BY <1>2, LastElement, Zenon
  <2>2. QED
    BY <1>2, <2>1, Zenon DEF HeadOf, Line, History!Line
<1>3. QED
  BY <1>1, <1>2, Zenon

LEMMA EntryType ==
  ASSUME NEW m \in Seq(ManifestEntry), NEW ls \in Seq(Line), ls # <<>>
  PROVE  Entry(m, ls) \in ManifestEntry
<1>1. Len(ls) \in Nat /\ ls[Len(ls)] \in Line
  BY LastElement, Zenon
<1>2. ls[Len(ls)].uid \in Nat
  BY <1>1, Zenon DEF Line, History!Line
<1>3. Base(m) + 1 \in Nat /\ Base(m) + Len(ls) \in Nat
  BY <1>1, BaseType
<1>4. QED
  BY <1>2, <1>3, Zenon DEF Entry, ManifestEntry

LEMMA BeforeBase ==
  ASSUME NEW m \in Seq(ManifestEntry), NEW k \in DOMAIN m
  PROVE  Base(Before(m, k)) = (IF k = 1 THEN 0 ELSE m[k - 1].head)
<1>1. CASE k = 1
  BY <1>1 DEF Base, Before
<1>2. CASE k # 1
  BY <1>2 DEF Base, Before
<1>3. QED
  BY <1>1, <1>2, Zenon

LEMMA AppendBase ==
  ASSUME NEW m \in Seq(ManifestEntry), NEW e \in ManifestEntry
  PROVE  /\ Append(m, e) \in Seq(ManifestEntry)
         /\ Base(Append(m, e)) = e.head /\ Prev(Append(m, e)) = e.hash
         /\ \A k \in DOMAIN m : Base(Before(Append(m, e), k)) = Base(Before(m, k))
         /\ Base(Before(Append(m, e), Len(m) + 1)) = Base(m)
<1> DEFINE t == Append(m, e)
<1>1. t \in Seq(ManifestEntry) /\ Len(t) = Len(m) + 1 /\ t[Len(t)] = e /\ t # <<>>
      /\ \A k \in DOMAIN m : t[k] = m[k] /\ k \in DOMAIN t
  OBVIOUS
<1> HIDE DEF t
<1>2. Base(t) = e.head /\ Prev(t) = e.hash
  BY <1>1, Zenon DEF Base, Prev
<1>3. ASSUME NEW k \in DOMAIN m PROVE Base(Before(t, k)) = Base(Before(m, k))
  <2>1. k \in DOMAIN t /\ (k # 1 => k - 1 \in DOMAIN m)
    BY <1>1
  <2>2. k # 1 => t[k - 1] = m[k - 1]
    BY <1>1, <2>1, Zenon
  <2>3. QED
    BY <1>1, <2>1, <2>2, BeforeBase
<1>4. Base(Before(t, Len(m) + 1)) = Base(m)
  <2>1. Len(m) + 1 \in DOMAIN t
    BY <1>1
  <2>2. Base(Before(t, Len(m) + 1)) = IF Len(m) + 1 = 1 THEN 0 ELSE t[Len(m) + 1 - 1].head
    BY <1>1, <2>1, BeforeBase
  <2>3. CASE m = <<>>
    BY <2>2, <2>3 DEF Base
  <2>4. CASE m # <<>>
    BY <1>1, <2>2, <2>4, LastElement DEF Base
  <2>5. QED
    BY <2>3, <2>4, Zenon
<1>5. QED
  BY <1>1, <1>2, <1>3, <1>4, Zenon DEF t

(* What replacing one element does to a sequence. *)
LEMMA ReplaceOne ==
  ASSUME NEW S, NEW s \in Seq(S), NEW i \in 1..Len(s), NEW e \in S
  PROVE  /\ [s EXCEPT ![i] = e] \in Seq(S) /\ Len([s EXCEPT ![i] = e]) = Len(s)
         /\ \A j \in 1..Len(s) : [s EXCEPT ![i] = e][j] = IF j = i THEN e ELSE s[j]
OBVIOUS

(* Sequences with the same elements at the same places are equal. *)
LEMMA SameElements ==
  ASSUME NEW S, NEW s \in Seq(S), NEW t \in Seq(S), Len(s) = Len(t),
         \A k \in 1..Len(s) : s[k] = t[k]
  PROVE  s = t
OBVIOUS

-----------------------------------------------------------------------------
(* Types are preserved.                                                     *)

LEMMA LeaveType ==
  ASSUME TypeOK, NEW p \in Procs, Leave(p), Len(files) <= Len(files'), Len(files') \in Nat
  PROVE  ProcsOK'
<1>1. NoChain \in Chain
  BY Zenon DEF NoChain, Chain
<1>2. pc' \in [Procs -> Steps] /\ op' \in [Procs -> OpKinds \cup RepairOps \cup {"none"}]
  BY Zenon DEF TypeOK, ProcsOK, Leave, Steps
<1>3. try' \in [Procs -> 0..Attempts] /\ snk' \in [Procs -> {"floor", "worm"}]
  BY DEF TypeOK, ProcsOK, Leave, Attempts
<1>4. wk' \in [Procs -> Seq(ManifestEntry)] /\ pre' \in [Procs -> Seq(Line)]
  BY DEF TypeOK, ProcsOK, Leave
<1>5. h' \in [Procs -> 0..Len(files')]
  BY DEF TypeOK, ProcsOK, DiskOK, Leave
<1>6. ch' \in [Procs -> Chain]
  BY <1>1, Zenon DEF TypeOK, ProcsOK, Leave
<1>7. QED
  BY <1>2, <1>3, <1>4, <1>5, <1>6, Zenon DEF ProcsOK

LEMMA RetryType ==
  ASSUME TypeOK, NEW p \in Procs, Retry(p), UNCHANGED files
  PROVE  ProcsOK'
<1>1. CASE try[p] < Attempts
  <2>1. /\ pc' = [pc EXCEPT ![p] = "start"] /\ try' = [try EXCEPT ![p] = @ + 1]
        /\ h' = [h EXCEPT ![p] = 0] /\ wk' = [wk EXCEPT ![p] = <<>>]
        /\ UNCHANGED <<op, ch, snk, pre>>
    BY <1>1, Zenon DEF Retry, Goto
  <2>2. pc' \in [Procs -> Steps] /\ wk' \in [Procs -> Seq(ManifestEntry)]
    BY <2>1 DEF TypeOK, ProcsOK, Steps
  <2>3. try' \in [Procs -> 0..Attempts]
    <3>1. try[p] \in 0..Attempts /\ try[p] + 1 \in 0..Attempts
      BY <1>1 DEF TypeOK, ProcsOK, Attempts
    <3>2. QED
      BY <2>1, <3>1, Zenon DEF TypeOK, ProcsOK
  <2>4. h' \in [Procs -> 0..Len(files')]
    BY <2>1 DEF TypeOK, ProcsOK, DiskOK
  <2>5. QED
    BY <2>1, <2>2, <2>3, <2>4, Zenon DEF TypeOK, ProcsOK
<1>2. CASE ~(try[p] < Attempts)
  BY <1>2, LeaveType DEF Retry, TypeOK, DiskOK
<1>3. QED
  BY <1>1, <1>2, Zenon

LEMMA DiskFrame ==
  ASSUME TypeOK, UNCHANGED disk
  PROVE  DiskOK'
  BY Zenon DEF TypeOK, DiskOK, disk

(* The names other than the active, the manifest and the sink stay. *)
LEMMA NamesFrame ==
  ASSUME TypeOK, UNCHANGED <<seg, manifest, copies, posture>>,
         files' \in Seq(Seq(Line)), Len(files) <= Len(files'), Len(files') \in Nat,
         torn' \cup foreign' \subseteq DOMAIN files', active' \in 0..Len(files')
  PROVE  DiskOK'
<1>1. DOMAIN seg \subseteq Nat \ {0} /\ \A k \in DOMAIN seg : seg[k] \in 1..Len(files)
  BY Zenon DEF TypeOK, DiskOK
<1>2. Len(files) \in Nat
  BY DEF TypeOK, DiskOK
<1>3. \A k \in DOMAIN seg : seg[k] \in 1..Len(files')
  BY <1>1, <1>2
<1>4. QED
  BY <1>1, <1>3, Zenon DEF TypeOK, DiskOK

LEMMA HistoryFrame ==
  ASSUME TypeOK, UNCHANGED <<history, lines>>, faults' \in Nat, nops' \in Nat
  PROVE  HistoryOK'
  BY Zenon DEF TypeOK, HistoryOK, history

(* Steps of a process that leave the disk and the history alone. *)
Local(p) == UNCHANGED <<disk, history, lines>> /\ faults' \in Nat /\ nops' \in Nat

LEMMA LocalSteps ==
  ASSUME TypeOK, NEW p \in Procs
  PROVE  /\ Walk(p) \/ LockExclusive(p) \/ LockShared(p) \/ OpenByName(p) \/ OpenForRepair(p) => Local(p)
         /\ Stale(p) \/ ReadStale(p) \/ Admit(p) \/ RepairRead(p) => Local(p)
         /\ WalkFails(p) \/ Busy(p) \/ Refuse(p) \/ RepairRefuse(p) \/ RotateCopyFails(p) \/ RepairCopyFails(p)
              \/ Crash(p) => Local(p)
         /\ \A o \in Ops : Invoke(p, o) => Local(p)
<1> USE DEF Local, TypeOK, HistoryOK
<1>1. Walk(p) \/ LockExclusive(p) \/ LockShared(p) \/ OpenByName(p) \/ OpenForRepair(p) => Local(p)
  BY Zenon DEF Walk, LockExclusive, LockShared, OpenByName, OpenForRepair
<1>2. Stale(p) \/ ReadStale(p) \/ Admit(p) \/ RepairRead(p) => Local(p)
  BY Zenon DEF Stale, ReadStale, Admit, RepairRead
<1>3. WalkFails(p) \/ Busy(p) \/ Refuse(p) \/ RepairRefuse(p) \/ RotateCopyFails(p) \/ RepairCopyFails(p)
        \/ Crash(p) => Local(p)
  BY DEF WalkFails, Busy, Refuse, RepairRefuse, RotateCopyFails, RepairCopyFails, Crash, Fault
<1>4. \A o \in Ops : Invoke(p, o) => Local(p)
  BY DEF Invoke
<1>5. QED
  BY <1>1, <1>2, <1>3, <1>4, Zenon

(* What a process that reads or repairs the active finds. *)
LEMMA ReaderFacts ==
  ASSUME IInv, NEW p \in Procs, h[p] = active,
         pc[p] = "shared" \/ pc[p] \in Repairing
  PROVE  /\ active \in 1..Len(files) /\ active # 0 /\ h[p] \in 1..Len(files)
         /\ files[active] \in Seq(Line) /\ files[h[p]] \in Seq(Line)
         /\ manifest \in Seq(ManifestEntry)
<1>1. op[p] \in {"read", "repair"}
  BY Zenon DEF IInv, Handles, Repairs
<1>2. active \in 1..Len(files)
  BY <1>1 DEF IInv, Handles, TypeOK, DiskOK
<1>3. QED
  BY <1>2 DEF IInv, TypeOK, DiskOK

LEMMA LocalTypes ==
  ASSUME IInv, NEW p \in Procs,
         Walk(p) \/ LockExclusive(p) \/ LockShared(p) \/ Stale(p) \/ Refuse(p) \/ Admit(p)
           \/ OpenByName(p) \/ ReadStale(p) \/ RepairRead(p) \/ OpenForRepair(p)
           \/ RepairRefuse(p) \/ WalkFails(p) \/ Busy(p) \/ RotateCopyFails(p) \/ RepairCopyFails(p) \/ Crash(p)
           \/ \E o \in Ops : Invoke(p, o)
  PROVE  TypeOK'
<1> TypeOK
  BY Zenon DEF IInv
<1>1. Local(p)
  BY LocalSteps, Zenon
<1>2. DiskOK' /\ HistoryOK'
  BY <1>1, DiskFrame, HistoryFrame, Zenon DEF Local
<1>3. UNCHANGED files /\ Len(files) \in Nat
  BY <1>1 DEF Local, disk, TypeOK, DiskOK
<1>4. CASE WalkFails(p) \/ Busy(p) \/ Refuse(p) \/ RepairRefuse(p) \/ RotateCopyFails(p) \/ RepairCopyFails(p)
           \/ Crash(p)
  <2>1. Leave(p)
    BY <1>4, Zenon DEF WalkFails, Busy, Refuse, RepairRefuse, RotateCopyFails, RepairCopyFails, Crash
  <2>2. QED
    BY <2>1, <1>2, <1>3, LeaveType DEF TypeOK
<1>5. CASE Stale(p) \/ ReadStale(p)
  <2>1. Retry(p)
    BY <1>5, Zenon DEF Stale, ReadStale
  <2>2. QED
    BY <2>1, <1>2, <1>3, RetryType, Zenon DEF TypeOK
<1>6. CASE Walk(p) \/ LockExclusive(p) \/ LockShared(p) \/ OpenByName(p) \/ OpenForRepair(p)
  <2>1. pc' \in [Procs -> Steps]
    BY <1>6, ZenonT(60) DEF Walk, LockExclusive, LockShared, OpenByName, OpenForRepair, Goto, Steps, Exclusive,
                TypeOK, ProcsOK
  <2>2. wk' \in [Procs -> Seq(ManifestEntry)]
    BY <1>6, Zenon DEF Walk, LockExclusive, LockShared, OpenByName, OpenForRepair, TypeOK, ProcsOK, DiskOK
  <2>3. h' \in [Procs -> 0..Len(files')]
    BY <1>6, <1>3, Zenon DEF Walk, LockExclusive, LockShared, OpenByName, OpenForRepair, TypeOK, ProcsOK, DiskOK
  <2>4. UNCHANGED <<op, try, ch, snk, pre>>
    BY <1>6, Zenon DEF Walk, LockExclusive, LockShared, OpenByName, OpenForRepair
  <2>5. QED
    BY <2>1, <2>2, <2>3, <2>4, <1>2, Zenon DEF TypeOK, ProcsOK
<1>7. CASE Admit(p)
  <2>1. pc' \in [Procs -> Steps]
    BY <1>7, Zenon DEF Admit, Goto, Steps, Exclusive, TypeOK, ProcsOK
  <2>2. files[h[p]] \in Seq(Line) /\ wk[p] \in Seq(ManifestEntry)
    <3>1. pc[p] = "locked" /\ h[p] # 0
      BY <1>7, Zenon DEF Admit, IInv, Handles
    <3>2. h[p] \in 0..Len(files) /\ files \in Seq(Seq(Line)) /\ wk[p] \in Seq(ManifestEntry)
      BY Zenon DEF TypeOK, ProcsOK, DiskOK
    <3>3. QED
      BY <3>1, <3>2
  <2>3. [base |-> Base(wk[p]), count |-> Len(files[h[p]]), prev |-> HeadOf(wk[p], files[h[p]])] \in Chain
    <3>1. Base(wk[p]) \in Nat /\ HeadOf(wk[p], files[h[p]]) \in Nat
      BY <2>2, BaseType, HeadType, Zenon
    <3>2. Len(files[h[p]]) \in Nat
      BY <2>2
    <3>3. QED
      BY <3>1, <3>2 DEF Chain
  <2>4. ch' \in [Procs -> Chain]
    BY <1>7, <2>3, Zenon DEF Admit, TypeOK, ProcsOK
  <2>5. UNCHANGED <<op, try, wk, h, snk, pre>>
    BY <1>7, Zenon DEF Admit
  <2>6. QED
    BY <2>1, <2>4, <2>5, <1>2, <1>3, Zenon DEF TypeOK, ProcsOK
<1>8. CASE RepairRead(p)
  <2> DEFINE ls == files[h[p]]
  <2>1. pc[p] = "shared" /\ h[p] = active
    BY <1>8, Zenon DEF RepairRead, SameFile
  <2>2. ls \in Seq(Line) /\ manifest \in Seq(ManifestEntry)
    BY <2>1, ReaderFacts, Zenon
  <2>3. PICK k \in 0..Len(ls) :
        /\ ch' = [ch EXCEPT ![p] = [base |-> Base(manifest), count |-> k,
                                    prev |-> HeadOf(manifest, SubSeq(ls, 1, k))]]
        /\ wk' = [wk EXCEPT ![p] = manifest]
        /\ pre' = [pre EXCEPT ![p] = <<>>] \/ pre' = [pre EXCEPT ![p] = SubSeq(ls, 1, k)]
        /\ pc' = [pc EXCEPT ![p] = "rcopy"] \/ pc' = [pc EXCEPT ![p] = "cut"]
        /\ h' = [h EXCEPT ![p] = 0] /\ UNCHANGED <<op, try, snk>>
    BY <1>8, Zenon DEF RepairRead, Goto
  <2> HIDE DEF ls
  <2>4. k \in 0..Len(ls)
    BY <2>3, Zenon
  <2>5. SubSeq(ls, 1, k) \in Seq(Line)
    BY <2>2, <2>4
  <2>6. [base |-> Base(manifest), count |-> k, prev |-> HeadOf(manifest, SubSeq(ls, 1, k))] \in Chain
    <3>1. Base(manifest) \in Nat
      BY <2>2, BaseType, Zenon
    <3>2. HeadOf(manifest, SubSeq(ls, 1, k)) \in Nat
      BY <2>2, <2>5, HeadType, Zenon
    <3>3. k \in Nat
      BY <2>2, <2>4
    <3>4. QED
      BY <3>1, <3>2, <3>3, Zenon DEF Chain
  <2>7. ch' \in [Procs -> Chain]
    BY <2>3, <2>6, Zenon DEF TypeOK, ProcsOK
  <2>8. pc' \in [Procs -> Steps]
    BY <2>3, Zenon DEF Steps, TypeOK, ProcsOK
  <2>9. wk' \in [Procs -> Seq(ManifestEntry)] /\ pre' \in [Procs -> Seq(Line)]
    <3>1. wk' \in [Procs -> Seq(ManifestEntry)]
      BY <2>2, <2>3, Zenon DEF TypeOK, ProcsOK
    <3>2. pre' \in [Procs -> Seq(Line)]
      <4>1. CASE pre' = [pre EXCEPT ![p] = <<>>]
        BY <4>1 DEF TypeOK, ProcsOK
      <4>2. CASE pre' = [pre EXCEPT ![p] = SubSeq(ls, 1, k)]
        BY <4>2, <2>5, Zenon DEF TypeOK, ProcsOK
      <4>3. QED
        BY <2>3, <4>1, <4>2, Zenon
    <3>3. QED
      BY <3>1, <3>2, Zenon
  <2>10. h' \in [Procs -> 0..Len(files')]
    BY <2>3, <1>3 DEF TypeOK, ProcsOK
  <2>11. QED
    BY <2>3, <2>7, <2>8, <2>9, <2>10, <1>2, Zenon DEF TypeOK, ProcsOK
<1>9. CASE \E o \in Ops : Invoke(p, o)
  <2>1. PICK o \in Ops : Invoke(p, o)
    BY <1>9, Zenon
  <2>2. o \in OpKinds /\ posture \in {"floor", "worm"}
    BY ConstantsAssumption, Zenon DEF TypeOK, DiskOK
  <2>3. pc' \in [Procs -> Steps] /\ op' \in [Procs -> OpKinds \cup RepairOps \cup {"none"}]
    BY <2>1, <2>2, Zenon DEF Invoke, Goto, Steps, TypeOK, ProcsOK
  <2>4. try' \in [Procs -> 0..Attempts] /\ snk' \in [Procs -> {"floor", "worm"}]
    BY <2>1, <2>2 DEF Invoke, Attempts, TypeOK, ProcsOK
  <2>5. UNCHANGED <<wk, h, ch, pre>>
    BY <2>1, Zenon DEF Invoke
  <2>6. QED
    BY <2>3, <2>4, <2>5, <1>2, <1>3, Zenon DEF TypeOK, ProcsOK
<1>10. QED
  BY <1>4, <1>5, <1>6, <1>7, <1>8, <1>9, Zenon

(* A line appended to the file of inode i, and to the chain. *)
LEMMA WriteType ==
  ASSUME TypeOK, NEW i \in 1..Len(files), NEW l \in Line, Write(i, l)
  PROVE  /\ files' \in Seq(Seq(Line)) /\ Len(files') = Len(files) /\ DOMAIN files' = DOMAIN files
         /\ \A j \in 1..Len(files) : files'[j] = IF j = i THEN Append(files[i], l) ELSE files[j]
         /\ Append(files[i], l) \in Seq(Line)
         /\ log' \in Seq(Line) /\ lines' \in Nat /\ lines' = lines + 1
<1>1. files[i] \in Seq(Line)
  BY DEF TypeOK, DiskOK
<1>2. Append(files[i], l) \in Seq(Line)
  BY <1>1
<1>3. files' = [files EXCEPT ![i] = Append(files[i], l)]
  BY Zenon DEF Write
<1>4. /\ files' \in Seq(Seq(Line)) /\ Len(files') = Len(files)
      /\ \A j \in 1..Len(files) : files'[j] = IF j = i THEN Append(files[i], l) ELSE files[j]
  BY <1>2, <1>3, ReplaceOne DEF TypeOK, DiskOK
<1>5. log' \in Seq(Line) /\ lines' \in Nat /\ lines' = lines + 1
  BY DEF Write, TypeOK, HistoryOK
<1>6. DOMAIN files' = DOMAIN files
  BY <1>3, Zenon
<1>7. QED
  BY <1>2, <1>4, <1>5, <1>6, Zenon

(* A fresh empty file. *)
LEMMA NewFileType ==
  ASSUME TypeOK, files' = Append(files, EmptyFile)
  PROVE  /\ files' \in Seq(Seq(Line)) /\ Len(files') = Len(files) + 1
         /\ DOMAIN files \subseteq DOMAIN files' /\ Len(files) + 1 \in 1..Len(files')
         /\ \A j \in 1..Len(files) : files'[j] = files[j]
         /\ files'[Len(files) + 1] = <<>>
<1>1. files \in Seq(Seq(Line)) /\ EmptyFile \in Seq(Line)
  BY DEF TypeOK, DiskOK, EmptyFile
<1>2. QED
  BY <1>1 DEF EmptyFile

LEMMA LinkType ==
  ASSUME TypeOK, NEW n \in Nat \ {0}, active # 0, LinkSegment(n)
  PROVE  /\ DOMAIN seg' = DOMAIN seg \cup {n} /\ DOMAIN seg' \subseteq Nat \ {0}
         /\ seg'[n] = active /\ \A k \in DOMAIN seg : seg'[k] = seg[k]
         /\ \A k \in DOMAIN seg' : seg'[k] \in 1..Len(files)
  BY DEF LinkSegment, TypeOK, DiskOK

LEMMA PutType ==
  ASSUME TypeOK, NEW n \in Nat \ {0}, NEW ls \in Seq(Line), Put(n, ls)
  PROVE  /\ DOMAIN copies' \subseteq Nat \ {0}
         /\ \A k \in DOMAIN copies' : copies'[k] \in Seq(Line)
  BY Zenon DEF Put, TypeOK, DiskOK

(* What a process in the middle of a write or a rotation holds. *)
LEMMA WriterFacts ==
  ASSUME IInv, NEW p \in Procs, pc[p] \in Writing
  PROVE  /\ h[p] = active /\ active \in 1..Len(files) /\ active # 0
         /\ files[active] \in Seq(Line) /\ files[h[p]] \in Seq(Line)
         /\ wk[p] = manifest /\ manifest \in Seq(ManifestEntry)
         /\ ~Listed(manifest, active) /\ active \notin torn /\ ch[p] = ActiveChain
         /\ Ordinal(p) = Len(manifest) + 1 /\ Ordinal(p) \in Nat \ {0}
<1>1. /\ h[p] = active /\ active # 0 /\ wk[p] = manifest
      /\ ~Listed(manifest, active) /\ active \notin torn /\ ch[p] = ActiveChain
  BY Zenon DEF IInv, Writers, Rotating
<1>2. active \in 1..Len(files) /\ manifest \in Seq(ManifestEntry)
  BY <1>1 DEF IInv, TypeOK, DiskOK
<1>3. files[active] \in Seq(Line)
  BY <1>2 DEF IInv, TypeOK, DiskOK
<1>4. QED
  BY <1>1, <1>2, <1>3 DEF Ordinal

(* Steps of a process that change the disk or the history. *)
LEMMA DiskTypes ==
  ASSUME IInv, NEW p \in Procs,
         OpenForAppend(p) \/ AppendEvent(p) \/ AppendTorn(p) \/ SealLink(p) \/ SealAppend(p)
           \/ RotateCopy(p) \/ RotateManifest(p) \/ RotateSwap(p)
  PROVE  TypeOK'
<1>1. TypeOK
  BY Zenon DEF IInv
<1>2. files \in Seq(Seq(Line)) /\ Len(files) \in Nat /\ manifest \in Seq(ManifestEntry)
  BY <1>1 DEF TypeOK, DiskOK
<1>3. CASE OpenForAppend(p)
  <2>1. files' \in Seq(Seq(Line)) /\ DOMAIN files \subseteq DOMAIN files' /\ Len(files) <= Len(files')
        /\ active' \in 0..Len(files') /\ Len(files') \in Nat
    <3>1. CASE UNCHANGED <<files, active>>
      BY <3>1, <1>1, <1>2 DEF TypeOK, DiskOK
    <3>2. CASE files' = Append(files, EmptyFile) /\ active' = Len(files) + 1
      BY <3>2, <1>1, <1>2, NewFileType
    <3>3. QED
      BY <1>3, <3>1, <3>2, Zenon DEF OpenForAppend
  <2>2. UNCHANGED <<torn, foreign, seg, manifest, copies, posture>>
    BY <1>3, Zenon DEF OpenForAppend
  <2>3. DiskOK'
    <3>1. torn' \cup foreign' \subseteq DOMAIN files'
      BY <2>1, <2>2, <1>1, Zenon DEF TypeOK, DiskOK
    <3>2. QED
      BY <2>1, <2>2, <3>1, <1>1, NamesFrame, Zenon
  <2>4. h' \in [Procs -> 0..Len(files')]
    BY <1>3, <2>1, <1>1, <1>2 DEF OpenForAppend, TypeOK, ProcsOK
  <2>5. pc' \in [Procs -> Steps] /\ UNCHANGED <<op, try, wk, ch, snk, pre>>
    BY <1>3, <1>1, Zenon DEF OpenForAppend, Goto, Steps, TypeOK, ProcsOK
  <2>6. ProcsOK'
    BY <2>4, <2>5, <1>1, Zenon DEF TypeOK, ProcsOK
  <2>7. HistoryOK'
    BY <1>3, <1>1, HistoryFrame, Zenon DEF OpenForAppend, TypeOK, HistoryOK
  <2>8. QED
    BY <2>3, <2>6, <2>7, Zenon DEF TypeOK
<1>4. CASE AppendEvent(p)
  <2>1. pc[p] \in Writing /\ Write(h[p], EventLine(p)) /\ Leave(p)
        /\ UNCHANGED <<torn, foreign, active, seg, manifest, copies, posture, aside, heads, nops>>
    BY <1>4, Zenon DEF AppendEvent, Writing
  <2>2. h[p] \in 1..Len(files)
    BY <2>1, WriterFacts, Zenon
  <2>3. EventLine(p) \in Line
    BY <1>1, LineType, Zenon DEF EventLine, History!Acts
  <2>4. /\ files' \in Seq(Seq(Line)) /\ Len(files') = Len(files) /\ DOMAIN files' = DOMAIN files
        /\ log' \in Seq(Line) /\ lines' \in Nat /\ lines' = lines + 1
    BY <1>1, <2>1, <2>2, <2>3, WriteType, Zenon
  <2>5. DiskOK'
    <3>1. torn' \cup foreign' \subseteq DOMAIN files' /\ active' \in 0..Len(files')
      BY <1>1, <2>1, <2>4, Zenon DEF TypeOK, DiskOK
    <3>2. Len(files) <= Len(files') /\ Len(files') \in Nat
      BY <1>2, <2>4
    <3>3. QED
      BY <1>1, <2>1, <2>4, <3>1, <3>2, NamesFrame, Zenon
  <2>6. ProcsOK'
    <3>1. Len(files) <= Len(files') /\ Len(files') \in Nat
      BY <1>2, <2>4
    <3>2. QED
      BY <1>1, <2>1, <3>1, LeaveType, Zenon
  <2>7. EventLine(p).uid = lines + 1
    BY Zenon DEF EventLine, NextLine
  <2>8. faults' \in Nat /\ (acked' = acked \/ acked' = acked \cup {lines + 1})
    <3>1. \/ acked' = acked \cup {EventLine(p).uid} /\ faults' = faults
          \/ acked' = acked /\ faults' = faults + 1
      BY <1>4, Zenon DEF AppendEvent, Fault
    <3>2. faults \in Nat
      BY <1>1, Zenon DEF TypeOK, HistoryOK
    <3>3. faults + 1 \in Nat
      BY <3>2
    <3>4. QED
      BY <2>7, <3>1, <3>2, <3>3, Zenon
  <2>9. acked' \subseteq Nat /\ aside' \subseteq Nat
    BY <1>1, <2>1, <2>4, <2>8, Zenon DEF TypeOK, HistoryOK
  <2>10. HistoryOK'
    BY <1>1, <2>1, <2>4, <2>8, <2>9, Zenon DEF TypeOK, HistoryOK
  <2>11. QED
    BY <2>5, <2>6, <2>10, Zenon DEF TypeOK
<1>5. CASE AppendTorn(p)
  <2>1. pc[p] \in Writing /\ Leave(p) /\ torn' = torn \cup {h[p]} /\ faults' \in Nat
        /\ UNCHANGED <<files, foreign, active, seg, manifest, copies, posture, history, lines, nops>>
    <3>1. faults' = faults + 1
      BY <1>5, Zenon DEF AppendTorn, Fault
    <3>2. faults' \in Nat
      BY <1>1, <3>1 DEF TypeOK, HistoryOK
    <3>3. QED
      BY <1>5, <3>2, Zenon DEF AppendTorn, Writing
  <2>2. h[p] \in 1..Len(files)
    BY <2>1, WriterFacts, Zenon
  <2>3. DiskOK'
    <3>1. torn' \cup foreign' \subseteq DOMAIN files' /\ active' \in 0..Len(files')
      <4>1. files' = files /\ active' = active /\ torn' = torn \cup {h[p]} /\ foreign' = foreign
        BY <2>1, Zenon
      <4>2. torn \cup foreign \subseteq DOMAIN files /\ active \in 0..Len(files)
        BY <1>1, Zenon DEF TypeOK, DiskOK
      <4>3. h[p] \in DOMAIN files
        BY <1>2, <2>2
      <4>4. QED
        BY <4>1, <4>2, <4>3, Zenon
    <3>2. files' \in Seq(Seq(Line)) /\ Len(files') \in Nat /\ Len(files) <= Len(files')
      <4>1. files' = files
        BY <2>1, Zenon
      <4>2. QED
        BY <1>2, <4>1
    <3>3. QED
      BY <1>1, <2>1, <3>1, <3>2, NamesFrame, Zenon
  <2>4. ProcsOK'
    <3>1. files' = files
      BY <2>1, Zenon
    <3>2. Len(files) <= Len(files') /\ Len(files') \in Nat
      BY <1>2, <3>1
    <3>3. QED
      BY <1>1, <2>1, <3>2, LeaveType, Zenon
  <2>5. HistoryOK'
    BY <1>1, <2>1, HistoryFrame, Zenon DEF TypeOK, HistoryOK
  <2>6. QED
    BY <2>3, <2>4, <2>5, Zenon DEF TypeOK
<1>6. CASE SealLink(p)
  <2>1. pc[p] \in Writing /\ LinkSegment(Ordinal(p))
        /\ UNCHANGED <<files, torn, foreign, active, manifest, copies, posture, op, try, wk, h, ch, snk, pre,
                       history, lines, faults, nops>>
    BY <1>6, Zenon DEF SealLink, Writing
  <2>2. active # 0 /\ Ordinal(p) \in Nat \ {0}
    BY <2>1, WriterFacts, Zenon
  <2>3. DOMAIN seg' \subseteq Nat \ {0} /\ \A k \in DOMAIN seg' : seg'[k] \in 1..Len(files)
    BY <1>1, <2>1, <2>2, LinkType, Zenon
  <2>4. DiskOK'
    BY <1>1, <2>1, <2>3, Zenon DEF TypeOK, DiskOK
  <2>5. pc' \in [Procs -> Steps]
    BY <1>1, <1>6, Zenon DEF SealLink, Goto, Steps, Exclusive, TypeOK, ProcsOK
  <2>6. ProcsOK'
    BY <1>1, <2>1, <2>5, Zenon DEF TypeOK, ProcsOK
  <2>7. HistoryOK'
    BY <1>1, <2>1, HistoryFrame, Zenon DEF TypeOK, HistoryOK
  <2>8. QED
    BY <2>4, <2>6, <2>7, Zenon DEF TypeOK
<1>7. CASE SealAppend(p)
  <2>1. pc[p] \in Writing /\ Write(h[p], SealLine(p)) /\ acked' = acked \cup {SealLine(p).uid}
        /\ UNCHANGED <<torn, foreign, active, seg, manifest, copies, posture, op, try, wk, h, snk, pre,
                       aside, heads, faults, nops>>
    BY <1>7, Zenon DEF SealAppend, Writing
  <2>2. h[p] \in 1..Len(files) /\ Ordinal(p) \in Nat
    BY <2>1, WriterFacts, Zenon
  <2>3. SealLine(p) \in Line
    BY <1>1, <2>2, LineType, Zenon DEF SealLine, History!Acts
  <2>4. /\ files' \in Seq(Seq(Line)) /\ Len(files') = Len(files) /\ DOMAIN files' = DOMAIN files
        /\ log' \in Seq(Line) /\ lines' \in Nat /\ lines' = lines + 1
    BY <1>1, <2>1, <2>2, <2>3, WriteType, Zenon
  <2>5. DiskOK'
    <3>1. torn' \cup foreign' \subseteq DOMAIN files' /\ active' \in 0..Len(files')
      BY <1>1, <2>1, <2>4, Zenon DEF TypeOK, DiskOK
    <3>2. Len(files) <= Len(files') /\ Len(files') \in Nat
      BY <1>2, <2>4
    <3>3. QED
      BY <1>1, <2>1, <2>4, <3>1, <3>2, NamesFrame, Zenon
  <2>6. SealLine(p).uid = lines + 1 /\ lines + 1 \in Nat
    <3>1. SealLine(p).uid = lines + 1
      BY Zenon DEF SealLine, NextLine
    <3>2. QED
      BY <2>4, <3>1, Zenon
  <2>7. ch[p] \in Chain
    BY <1>1, Zenon DEF TypeOK, ProcsOK
  <2>8. ch' = [ch EXCEPT ![p] = [base |-> ch[p].base, count |-> ch[p].count + 1, prev |-> lines + 1]]
    BY <1>7, <2>6, Zenon DEF SealAppend
  <2>9. ch' \in [Procs -> Chain]
    <3>1. ch[p].base \in Nat /\ ch[p].count \in Nat
      BY <2>7, Zenon DEF Chain
    <3>2. ch[p].count + 1 \in Nat
      BY <3>1
    <3>3. [base |-> ch[p].base, count |-> ch[p].count + 1, prev |-> lines + 1] \in Chain
      BY <2>6, <3>1, <3>2, Zenon DEF Chain
    <3>4. QED
      BY <1>1, <2>8, <3>3, Zenon DEF TypeOK, ProcsOK
  <2>10. pc' \in [Procs -> Steps]
    BY <1>1, <1>7, Zenon DEF SealAppend, Goto, Steps, Exclusive, TypeOK, ProcsOK
  <2>11. ProcsOK'
    BY <1>1, <2>1, <2>4, <2>9, <2>10, Zenon DEF TypeOK, ProcsOK
  <2>12. acked' \subseteq Nat /\ aside' \subseteq Nat
    BY <1>1, <2>1, <2>4, <2>6, Zenon DEF TypeOK, HistoryOK
  <2>13. HistoryOK'
    BY <1>1, <2>1, <2>4, <2>12, Zenon DEF TypeOK, HistoryOK
  <2>14. QED
    BY <2>5, <2>11, <2>13, Zenon DEF TypeOK
<1>8. CASE RotateCopy(p)
  <2>1. pc[p] \in Writing /\ LinkSegment(Ordinal(p))
        /\ (Put(Ordinal(p), SealedLines(p)) \/ UNCHANGED copies)
        /\ UNCHANGED <<files, torn, foreign, active, manifest, posture, op, try, wk, h, ch, snk, pre,
                       history, lines, faults, nops>>
    BY <1>8, Zenon DEF RotateCopy, Writing
  <2>2. active # 0 /\ Ordinal(p) \in Nat \ {0} /\ SealedLines(p) \in Seq(Line)
    BY <2>1, WriterFacts, Zenon DEF SealedLines
  <2>3. DOMAIN seg' \subseteq Nat \ {0} /\ \A k \in DOMAIN seg' : seg'[k] \in 1..Len(files)
    BY <1>1, <2>1, <2>2, LinkType, Zenon
  <2>4. DOMAIN copies' \subseteq Nat \ {0} /\ \A k \in DOMAIN copies' : copies'[k] \in Seq(Line)
    <3>1. CASE Put(Ordinal(p), SealedLines(p))
      BY <1>1, <2>2, <3>1, PutType, Zenon
    <3>2. CASE UNCHANGED copies
      BY <1>1, <3>2, Zenon DEF TypeOK, DiskOK
    <3>3. QED
      BY <2>1, <3>1, <3>2, Zenon
  <2>5. DiskOK'
    BY <1>1, <2>1, <2>3, <2>4, Zenon DEF TypeOK, DiskOK
  <2>6. pc' \in [Procs -> Steps]
    BY <1>1, <1>8, Zenon DEF RotateCopy, Goto, Steps, Exclusive, TypeOK, ProcsOK
  <2>7. ProcsOK'
    BY <1>1, <2>1, <2>6, Zenon DEF TypeOK, ProcsOK
  <2>8. HistoryOK'
    BY <1>1, <2>1, HistoryFrame, Zenon DEF TypeOK, HistoryOK
  <2>9. QED
    BY <2>5, <2>7, <2>8, Zenon DEF TypeOK
<1>9. CASE RotateManifest(p)
  <2>1. pc[p] \in Writing /\ pc[p] = "copied" /\ manifest' = Append(wk[p], Entry(wk[p], SealedLines(p)))
        /\ UNCHANGED <<files, torn, foreign, active, seg, copies, posture, op, try, wk, h, ch, snk, pre,
                       history, lines, faults, nops>>
    BY <1>9, Zenon DEF RotateManifest, Writing
  <2>2. SealedLines(p) \in Seq(Line) /\ SealedLines(p) # <<>> /\ wk[p] \in Seq(ManifestEntry)
    BY <2>1, WriterFacts, Zenon DEF SealedLines, IInv, Writers
  <2>3. manifest' \in Seq(ManifestEntry)
    BY <2>1, <2>2, EntryType, AppendBase, Zenon
  <2>4. DiskOK'
    BY <1>1, <2>1, <2>3, Zenon DEF TypeOK, DiskOK
  <2>5. pc' \in [Procs -> Steps]
    BY <1>1, <1>9, Zenon DEF RotateManifest, Goto, Steps, Exclusive, TypeOK, ProcsOK
  <2>6. ProcsOK'
    BY <1>1, <2>1, <2>5, Zenon DEF TypeOK, ProcsOK
  <2>7. HistoryOK'
    BY <1>1, <2>1, HistoryFrame, Zenon DEF TypeOK, HistoryOK
  <2>8. QED
    BY <2>4, <2>6, <2>7, Zenon DEF TypeOK
<1>10. CASE RotateSwap(p)
  <2>1. files' = Append(files, EmptyFile) /\ active' = Len(files) + 1
        /\ UNCHANGED <<torn, foreign, seg, manifest, copies, posture, history, lines, faults, nops>>
    BY <1>10, Zenon DEF RotateSwap
  <2>2. /\ files' \in Seq(Seq(Line)) /\ Len(files') = Len(files) + 1
        /\ DOMAIN files \subseteq DOMAIN files' /\ Len(files) + 1 \in 1..Len(files')
    BY <1>1, <2>1, NewFileType, Zenon
  <2>3. DiskOK'
    <3>1. torn' \cup foreign' \subseteq DOMAIN files'
      BY <1>1, <2>1, <2>2, Zenon DEF TypeOK, DiskOK
    <3>2. /\ active' \in 0..Len(files')
          /\ Len(files) <= Len(files') /\ Len(files') \in Nat
      BY <1>2, <2>1, <2>2
    <3>3. QED
      BY <1>1, <2>1, <2>2, <3>1, <3>2, NamesFrame, Zenon
  <2>4. ProcsOK'
    <3>1. CASE op[p] = "repairComplete"
      <4>1. /\ pc' = [pc EXCEPT ![p] = "start"] /\ op' = [op EXCEPT ![p] = "repairAppend"]
            /\ try' = [try EXCEPT ![p] = 1] /\ h' = [h EXCEPT ![p] = 0]
            /\ wk' = [wk EXCEPT ![p] = <<>>] /\ ch' = [ch EXCEPT ![p] = NoChain]
            /\ UNCHANGED <<snk, pre>>
        BY <1>10, <3>1, Zenon DEF RotateSwap, Goto
      <4>2. pc' \in [Procs -> Steps] /\ op' \in [Procs -> OpKinds \cup RepairOps \cup {"none"}]
        BY <1>1, <4>1, Zenon DEF Steps, RepairOps, TypeOK, ProcsOK
      <4>3. try' \in [Procs -> 0..Attempts] /\ h' \in [Procs -> 0..Len(files')]
        BY <1>1, <1>2, <2>2, <4>1 DEF Attempts, TypeOK, ProcsOK
      <4>4. wk' \in [Procs -> Seq(ManifestEntry)]
        BY <1>1, <4>1 DEF TypeOK, ProcsOK
      <4>5. ch' \in [Procs -> Chain]
        BY <1>1, <4>1, Zenon DEF NoChain, Chain, TypeOK, ProcsOK
      <4>6. QED
        BY <1>1, <4>1, <4>2, <4>3, <4>4, <4>5, Zenon DEF TypeOK, ProcsOK
    <3>2. CASE op[p] # "repairComplete"
      <4>1. Leave(p)
        BY <1>10, <3>2, Zenon DEF RotateSwap
      <4>2. QED
        BY <1>1, <1>2, <2>2, <4>1, LeaveType
    <3>3. QED
      BY <3>1, <3>2, Zenon
  <2>5. HistoryOK'
    BY <1>1, <2>1, HistoryFrame, Zenon DEF TypeOK, HistoryOK
  <2>6. QED
    BY <2>3, <2>4, <2>5, Zenon DEF TypeOK
<1>11. QED
  BY <1>3, <1>4, <1>5, <1>6, <1>7, <1>8, <1>9, <1>10, Zenon

(* What a command that reads, and a repair, holds once it confirmed the    *)
(* name.                                                                   *)
LEMMA RepairTypes ==
  ASSUME IInv, NEW p \in Procs,
         ReadDone(p) \/ RepairCopy(p) \/ WriteTornFragment(p) \/ Truncate(p)
  PROVE  TypeOK'
<1>1. TypeOK
  BY Zenon DEF IInv
<1>2. files \in Seq(Seq(Line)) /\ Len(files) \in Nat /\ manifest \in Seq(ManifestEntry)
  BY <1>1 DEF TypeOK, DiskOK
<1>3. CASE ReadDone(p)
  <2>1. UNCHANGED <<disk, log, acked, aside, lines, faults, nops>> /\ Leave(p)
        /\ (heads' = heads \/ heads' = heads \cup {ReadHead(p)})
    BY <1>3, Zenon DEF ReadDone
  <2>2. DiskOK' /\ UNCHANGED files
    BY <1>1, <2>1, DiskFrame, Zenon DEF disk
  <2>3. ProcsOK'
    BY <1>1, <1>2, <2>1, <2>2, LeaveType
  <2>4. ReadHead(p).seq \in Nat /\ ReadHead(p).uid \in Nat
    <3> DEFINE ls == IF ReadVerdict(p) = "listed" THEN <<>> ELSE files[h[p]]
    <3>1. pc[p] = "shared" /\ h[p] = active
      BY <1>3, Zenon DEF ReadDone, SameFile
    <3>2. ls \in Seq(Line)
      <4>1. files[h[p]] \in Seq(Line)
        BY <1>1, <3>1, ReaderFacts, Zenon
      <4>2. <<>> \in Seq(Line)
        OBVIOUS
      <4>3. QED
        BY <4>1, <4>2, Zenon
    <3>3. ReadHead(p) = [seq |-> Base(manifest) + Len(ls), uid |-> HeadOf(manifest, ls)]
      BY Zenon DEF ReadHead
    <3> HIDE DEF ls
    <3>4. Base(manifest) + Len(ls) \in Nat /\ HeadOf(manifest, ls) \in Nat
      BY <1>2, <3>2, BaseType, HeadType
    <3>5. QED
      BY <3>3, <3>4
  <2>5. HistoryOK'
    BY <1>1, <2>1, <2>4, Zenon DEF TypeOK, HistoryOK
  <2>6. QED
    BY <2>2, <2>3, <2>5, Zenon DEF TypeOK
<1>4. CASE RepairCopy(p)
  <2>1. Put(Ordinal(p), pre[p])
        /\ UNCHANGED <<files, torn, foreign, active, seg, manifest, posture, op, try, wk, h, ch, snk, pre,
                       history, lines, faults, nops>>
    BY <1>4, Zenon DEF RepairCopy
  <2>2. Ordinal(p) \in Nat \ {0} /\ pre[p] \in Seq(Line)
    BY <1>1 DEF Ordinal, TypeOK, ProcsOK
  <2>3. DOMAIN copies' \subseteq Nat \ {0} /\ \A k \in DOMAIN copies' : copies'[k] \in Seq(Line)
    BY <1>1, <2>1, <2>2, PutType, Zenon
  <2>4. DiskOK'
    BY <1>1, <2>1, <2>3, Zenon DEF TypeOK, DiskOK
  <2>5. pc' \in [Procs -> Steps]
    BY <1>1, <1>4, Zenon DEF RepairCopy, Goto, Steps, TypeOK, ProcsOK
  <2>6. ProcsOK'
    BY <1>1, <2>1, <2>5, Zenon DEF TypeOK, ProcsOK
  <2>7. HistoryOK'
    BY <1>1, <2>1, HistoryFrame, Zenon DEF TypeOK, HistoryOK
  <2>8. QED
    BY <2>4, <2>6, <2>7, Zenon DEF TypeOK
<1>5. CASE WriteTornFragment(p)
  <2>1. aside' = aside \cup FragmentUids(p)
        /\ UNCHANGED <<disk, op, try, wk, h, ch, snk, pre, log, acked, heads, lines, faults, nops>>
    BY <1>5, Zenon DEF WriteTornFragment
  <2>2. DiskOK' /\ UNCHANGED files
    BY <1>1, <2>1, DiskFrame, Zenon DEF disk
  <2>3. pc' \in [Procs -> Steps]
    BY <1>1, <1>5, Zenon DEF WriteTornFragment, Goto, Steps, Exclusive, TypeOK, ProcsOK
  <2>4. ProcsOK'
    BY <1>1, <2>1, <2>2, <2>3, Zenon DEF TypeOK, ProcsOK
  <2>5. FragmentUids(p) \subseteq Nat
    <3>1. h[p] = active /\ pc[p] \in Repairing
      BY <1>5, Zenon DEF WriteTornFragment, PrefixStands, SameFile, Repairing
    <3>2. files[h[p]] \in Seq(Line) /\ ch[p].count + 1 \in Nat \ {0}
      BY <1>1, <3>1, ReaderFacts DEF TypeOK, ProcsOK, Chain
    <3>3. CutOff(p) \in Seq(Line)
      BY <3>2 DEF CutOff
    <3>4. \A k \in DOMAIN CutOff(p) : CutOff(p)[k] \in Line
      BY <3>3
    <3>5. \A k \in DOMAIN CutOff(p) : CutOff(p)[k].uid \in Nat
      BY <3>4, Zenon DEF Line, History!Line
    <3>6. QED
      BY <3>5, Zenon DEF FragmentUids, History!Uids
  <2>6. HistoryOK'
    BY <1>1, <2>1, <2>5, Zenon DEF TypeOK, HistoryOK
  <2>7. QED
    BY <2>2, <2>4, <2>6, Zenon DEF TypeOK
<1>6. CASE Truncate(p)
  <2>1. /\ files' = [files EXCEPT ![h[p]] = SubSeq(files[h[p]], 1, ch[p].count)]
        /\ torn' = torn \ {h[p]}
        /\ log' = SubSeq(log, 1, Len(log) - Len(CutOff(p)))
        /\ UNCHANGED <<foreign, active, seg, manifest, copies, posture, snk, pre,
                       acked, aside, heads, lines, faults, nops>>
    BY <1>6, Zenon DEF Truncate
  <2>2. pc[p] \in Repairing /\ h[p] = active
    BY <1>6, Zenon DEF Truncate, Repairing, IInv, Repairs
  <2>3. h[p] \in 1..Len(files) /\ files[h[p]] \in Seq(Line) /\ ch[p].count \in Nat
        /\ ch[p].count <= Len(files[h[p]])
    BY <1>1, <2>2, ReaderFacts, Zenon DEF IInv, Repairs, TypeOK, ProcsOK, Chain
  <2>4. SubSeq(files[h[p]], 1, ch[p].count) \in Seq(Line)
    BY <2>3
  <2>5. files' \in Seq(Seq(Line)) /\ Len(files') = Len(files)
    <3> DEFINE cut == SubSeq(files[h[p]], 1, ch[p].count)
    <3>1. files' = [files EXCEPT ![h[p]] = cut] /\ cut \in Seq(Line)
      BY <2>1, <2>4, Zenon
    <3> HIDE DEF cut
    <3>2. /\ [files EXCEPT ![h[p]] = cut] \in Seq(Seq(Line))
          /\ Len([files EXCEPT ![h[p]] = cut]) = Len(files)
      BY <1>2, <2>3, <3>1
    <3>3. QED
      BY <3>1, <3>2, Zenon
  <2>6. CutOff(p) \in Seq(Line)
    BY <2>3 DEF CutOff
  <2>7. log' \in Seq(Line)
    <3>1. log \in Seq(Line) /\ Len(CutOff(p)) \in Nat
      BY <1>1, <2>6 DEF TypeOK, HistoryOK
    <3>2. QED
      BY <2>1, <3>1
  <2>8. DiskOK'
    <3>1. torn' \cup foreign' \subseteq DOMAIN files' /\ active' \in 0..Len(files')
      BY <1>1, <2>1, <2>5, Zenon DEF TypeOK, DiskOK
    <3>2. QED
      BY <1>1, <1>2, <2>1, <2>5, <3>1, NamesFrame
  <2>9. /\ pc' = [pc EXCEPT ![p] = "start"] /\ try' = [try EXCEPT ![p] = 1]
        /\ (op' = [op EXCEPT ![p] = "repairAppend"] \/ op' = [op EXCEPT ![p] = "repairComplete"])
        /\ h' = [h EXCEPT ![p] = 0] /\ wk' = [wk EXCEPT ![p] = <<>>] /\ ch' = [ch EXCEPT ![p] = NoChain]
    BY <1>6, Zenon DEF Truncate, Goto
  <2>10. pc' \in [Procs -> Steps] /\ op' \in [Procs -> OpKinds \cup RepairOps \cup {"none"}]
    BY <1>1, <2>9, Zenon DEF Steps, RepairOps, TypeOK, ProcsOK
  <2>11. try' \in [Procs -> 0..Attempts] /\ h' \in [Procs -> 0..Len(files')]
    BY <1>1, <1>2, <2>5, <2>9 DEF Attempts, TypeOK, ProcsOK
  <2>12. wk' \in [Procs -> Seq(ManifestEntry)]
    BY <1>1, <2>9 DEF TypeOK, ProcsOK
  <2>13. ch' \in [Procs -> Chain]
    BY <1>1, <2>9, Zenon DEF NoChain, Chain, TypeOK, ProcsOK
  <2>14. ProcsOK'
    BY <1>1, <2>1, <2>10, <2>11, <2>12, <2>13, Zenon DEF TypeOK, ProcsOK
  <2>15. HistoryOK'
    BY <1>1, <2>1, <2>7, Zenon DEF TypeOK, HistoryOK
  <2>16. QED
    BY <2>8, <2>14, <2>15, Zenon DEF TypeOK
<1>7. QED
  BY <1>3, <1>4, <1>5, <1>6, Zenon

OlderLine(ls) == [seq |-> Len(ls) + 1, prev |-> HeadOf(manifest, ls), uid |-> lines + 1,
                  act |-> "older", seg |-> 0, worm |-> FALSE]

LEMMA EnvironmentTypes ==
  ASSUME IInv, SetPosture \/ OlderAppend \/ MoveAside \/ RestoreSegment
  PROVE  TypeOK'
<1>1. TypeOK
  BY Zenon DEF IInv
<1>2. files \in Seq(Seq(Line)) /\ Len(files) \in Nat /\ manifest \in Seq(ManifestEntry)
  BY <1>1 DEF TypeOK, DiskOK
<1>3. CASE SetPosture
  <2>1. posture' \in Postures
        /\ UNCHANGED <<files, torn, foreign, active, seg, manifest, copies, procs, history, lines, faults, nops>>
    BY <1>3, Zenon DEF SetPosture
  <2>2. DiskOK'
    BY <1>1, <2>1, Zenon DEF TypeOK, DiskOK
  <2>3. ProcsOK'
    BY <1>1, <2>1, Zenon DEF TypeOK, ProcsOK, procs
  <2>4. HistoryOK'
    BY <1>1, <2>1, HistoryFrame, Zenon DEF TypeOK, HistoryOK
  <2>5. QED
    BY <2>2, <2>3, <2>4, Zenon DEF TypeOK
<1>4. CASE OlderAppend
  <2>1. active # 0 /\ UNCHANGED <<active, seg, manifest, copies, posture, procs, acked, aside, heads>>
        /\ nops' = nops + 1
    BY <1>4, Zenon DEF OlderAppend
  <2>2. active \in 1..Len(files)
    BY <1>1, <2>1 DEF TypeOK, DiskOK
  <2>3. files[active] \in Seq(Line)
    BY <1>2, <2>2
  <2>4. UNCHANGED procs /\ nops' \in Nat
    BY <1>1, <2>1 DEF TypeOK, HistoryOK
  <2>5. CASE Write(active, OlderLine(files[active])) /\ UNCHANGED <<torn, foreign, faults>>
    <3>1. Len(files[active]) + 1 \in Nat /\ HeadOf(manifest, files[active]) \in Nat /\ lines + 1 \in Nat
      BY <1>1, <1>2, <2>3, HeadType DEF TypeOK, HistoryOK
    <3>2. OlderLine(files[active]) \in Line
      BY <3>1, Zenon DEF OlderLine, Line, History!Line, History!Acts
    <3>3. /\ files' \in Seq(Seq(Line)) /\ Len(files') = Len(files) /\ DOMAIN files' = DOMAIN files
          /\ log' \in Seq(Line) /\ lines' \in Nat
      BY <1>1, <2>2, <2>5, <3>2, WriteType, Zenon
    <3>4. torn' \cup foreign' \subseteq DOMAIN files' /\ active' \in 0..Len(files')
      BY <1>1, <2>1, <2>5, <3>3, Zenon DEF TypeOK, DiskOK
    <3>5. DiskOK'
      BY <1>1, <1>2, <2>1, <3>3, <3>4, NamesFrame
    <3>6. ProcsOK'
      BY <1>1, <2>4, <3>3, Zenon DEF TypeOK, ProcsOK, procs
    <3>7. HistoryOK'
      BY <1>1, <2>1, <2>4, <2>5, <3>3, Zenon DEF TypeOK, HistoryOK
    <3>8. QED
      BY <3>5, <3>6, <3>7, Zenon DEF TypeOK
  <2>6. CASE /\ UNCHANGED <<files, log, lines>>
             /\ \/ faults' = faults + 1 /\ torn' = torn \cup {active} /\ foreign' = foreign
                \/ faults' = faults /\ torn' = torn /\ foreign' = foreign \cup {active}
    <3>1. torn' \cup foreign' \subseteq DOMAIN files' /\ active' \in 0..Len(files')
      BY <1>1, <1>2, <2>1, <2>2, <2>6 DEF TypeOK, DiskOK
    <3>2. DiskOK'
      BY <1>1, <1>2, <2>1, <2>6, <3>1, NamesFrame
    <3>3. ProcsOK'
      BY <1>1, <2>4, <2>6, Zenon DEF TypeOK, ProcsOK, procs
    <3>4. HistoryOK'
      BY <1>1, <2>1, <2>4, <2>6 DEF TypeOK, HistoryOK
    <3>5. QED
      BY <3>2, <3>3, <3>4, Zenon DEF TypeOK
  <2>7. QED
    BY <1>4, <2>5, <2>6, Zenon DEF OlderAppend, OlderLine, Fault
<1>5. CASE MoveAside \/ RestoreSegment
  <2>1. /\ UNCHANGED <<torn, seg, manifest, copies, posture, procs, history, lines, faults, nops>>
        /\ foreign' \subseteq foreign
        /\ \/ files' = Append(files, EmptyFile) /\ active' = Len(files) + 1
           \/ UNCHANGED <<files, active>>
    BY <1>5, Zenon DEF MoveAside, RestoreSegment
  <2>2. files' \in Seq(Seq(Line)) /\ DOMAIN files \subseteq DOMAIN files' /\ Len(files) <= Len(files')
        /\ active' \in 0..Len(files') /\ Len(files') \in Nat
    <3>1. CASE UNCHANGED <<files, active>>
      BY <3>1, <1>1, <1>2 DEF TypeOK, DiskOK
    <3>2. CASE files' = Append(files, EmptyFile) /\ active' = Len(files) + 1
      BY <3>2, <1>1, <1>2, NewFileType
    <3>3. QED
      BY <2>1, <3>1, <3>2, Zenon
  <2>3. torn' \cup foreign' \subseteq DOMAIN files'
    BY <1>1, <2>1, <2>2, Zenon DEF TypeOK, DiskOK
  <2>4. DiskOK'
    BY <1>1, <2>1, <2>2, <2>3, NamesFrame, Zenon
  <2>5. h' \in [Procs -> 0..Len(files')]
    BY <1>1, <1>2, <2>1, <2>2 DEF TypeOK, ProcsOK, procs
  <2>6. ProcsOK'
    BY <1>1, <2>1, <2>5, Zenon DEF TypeOK, ProcsOK, procs
  <2>7. HistoryOK'
    BY <1>1, <2>1, HistoryFrame, Zenon DEF TypeOK, HistoryOK
  <2>8. QED
    BY <2>4, <2>6, <2>7, Zenon DEF TypeOK
<1>6. QED
  BY <1>3, <1>4, <1>5, Zenon

(* Every step keeps the types. *)
LEMMA TypeStep ==
  ASSUME IInv, [Next]_vars
  PROVE  TypeOK'
<1>1. CASE UNCHANGED vars
  <2>1. UNCHANGED <<disk, procs, history, lines, faults, nops>>
    BY <1>1, Zenon DEF vars
  <2>2. DiskOK' /\ HistoryOK'
    BY <2>1, DiskFrame, HistoryFrame, Zenon DEF IInv, TypeOK, HistoryOK
  <2>3. ProcsOK'
    BY <2>1, Zenon DEF IInv, TypeOK, ProcsOK, procs, disk
  <2>4. QED
    BY <2>2, <2>3, Zenon DEF TypeOK
<1>2. CASE SetPosture \/ OlderAppend \/ MoveAside \/ RestoreSegment
  BY <1>2, EnvironmentTypes, Zenon
<1>3. ASSUME NEW p \in Procs, (\E o \in Ops : Invoke(p, o)) \/ Work(p) \/ Fails(p)
      PROVE  TypeOK'
  BY <1>3, LocalTypes, DiskTypes, RepairTypes, Zenon
     DEF Work, Fails, LockActive, SealActive, Rotate, Read, Repair, MoveTailAside
<1>4. QED
  BY <1>1, <1>2, <1>3, Zenon DEF Next

-----------------------------------------------------------------------------
(* Frames.                                                                  *)

Core == <<files, torn, active, seg, manifest, log>>

(* A step of p leaves what the other processes hold alone. *)
Others(p) == \A q \in Procs : q # p =>
  pc'[q] = pc[q] /\ op'[q] = op[q] /\ wk'[q] = wk[q] /\ h'[q] = h[q] /\ ch'[q] = ch[q]

LEMMA OthersStep ==
  ASSUME IInv, NEW p \in Procs, (\E o \in Ops : Invoke(p, o)) \/ Work(p) \/ Fails(p)
  PROVE  Others(p)
<1> USE DEF Others, Goto, Leave
<1>1. pc \in [Procs -> Steps] /\ op \in [Procs -> OpKinds \cup RepairOps \cup {"none"}]
      /\ wk \in [Procs -> Seq(ManifestEntry)] /\ h \in [Procs -> 0..Len(files)] /\ ch \in [Procs -> Chain]
  BY Zenon DEF IInv, TypeOK, ProcsOK
<1>2. CASE \E o \in Ops : Invoke(p, o)
  BY <1>1, <1>2, Zenon DEF Invoke
<1>3. CASE LockActive(p)
  BY <1>1, <1>3, Zenon DEF LockActive, Walk, WalkFails, OpenForAppend, LockExclusive, Stale, Retry, Refuse, Admit
<1>4. CASE AppendEvent(p)
  BY <1>1, <1>4, Zenon DEF AppendEvent
<1>5. CASE SealActive(p) \/ Rotate(p)
  BY <1>1, <1>5, Zenon DEF SealActive, Rotate, SealLink, SealAppend, RotateCopy, RotateManifest, RotateSwap
<1>6. CASE Read(p)
  BY <1>1, <1>6, Zenon DEF Read, OpenByName, LockShared, ReadStale, Retry, ReadDone
<1>7. CASE Repair(p)
  BY <1>1, <1>7, Zenon DEF Repair, RepairRead, RepairCopy, OpenForRepair, MoveTailAside, WriteTornFragment, RepairRefuse, Truncate
<1>8. CASE Fails(p)
  BY <1>1, <1>8, Zenon DEF Fails, Busy, AppendTorn, RotateCopyFails, RepairCopyFails, Crash
<1>9. QED
  BY <1>2, <1>3, <1>4, <1>5, <1>6, <1>7, <1>8, Zenon DEF Work

LEMMA CoreFrame ==
  ASSUME IInv, UNCHANGED Core
  PROVE  /\ Listed(manifest, active)' = Listed(manifest, active)
         /\ ActiveChain' = ActiveChain
         /\ Damaged' = Damaged
         /\ Sets' /\ ChainIntact' /\ DiskIsLog'
<1>1. UNCHANGED <<files, torn, active, seg, manifest, log>>
  BY Zenon DEF Core
<1>2. Listed(manifest, active)' = Listed(manifest, active)
  BY <1>1, Zenon DEF Listed
<1>3. ActiveChain' = ActiveChain /\ Damaged' = Damaged
  BY <1>1, Zenon DEF ActiveChain, Damaged
<1>4. Sets'
  BY <1>1, Zenon DEF IInv, Sets
<1>5. ChainIntact'
  BY <1>1, Zenon DEF IInv, ChainIntact
<1>6. DiskIsLog'
  BY <1>1, <1>2, Zenon DEF IInv, DiskIsLog, Stores
<1>7. QED
  BY <1>2, <1>3, <1>4, <1>5, <1>6, Zenon

(* A lock is taken when no other process holds it, and kept. *)
LEMMA LocksStep ==
  ASSUME IInv, NEW p \in Procs, Others(p), pc' \in [Procs -> Steps],
         \/ pc'[p] \notin Exclusive \cup {"shared"}
         \/ pc[p] \in Exclusive /\ h'[p] = h[p] /\ pc'[p] # "shared"
         \/ pc'[p] = "shared" /\ h'[p] = h[p] /\ ~\E q \in Procs : HoldsEx(q, h[p])
         \/ h'[p] = h[p] /\ ~\E q \in Procs : HoldsEx(q, h[p]) \/ HoldsSh(q, h[p])
  PROVE  Locks'
<1> USE DEF Others, HoldsEx, HoldsSh
<1>1. Locks /\ "shared" \notin Exclusive
  BY Zenon DEF IInv, Exclusive
<1>2. ASSUME NEW q \in Procs, NEW r \in Procs, q # r,
             pc'[q] \in Exclusive \cup {"shared"}, pc'[r] \in Exclusive
      PROVE  h'[q] # h'[r]
  <2>1. CASE q # p /\ r # p
    BY <1>1, <1>2, <2>1 DEF Locks
  <2>2. CASE q = p
    BY <1>1, <1>2, <2>2, Zenon DEF Locks
  <2>3. CASE r = p
    BY <1>1, <1>2, <2>3, Zenon DEF Locks
  <2>4. QED
    BY <2>1, <2>2, <2>3, Zenon
<1>3. QED
  BY <1>2, Zenon DEF Locks

LEMMA OneRepairStep ==
  ASSUME IInv, NEW p \in Procs, Others(p),
         op'[p] \in RepairOps => op[p] \in RepairOps \/ NoOtherRepair
  PROVE  OneRepair'
  BY Zenon DEF IInv, OneRepair, Others, NoOtherRepair

LEMMA HandlesStep ==
  ASSUME IInv, NEW p \in Procs, Others(p), active # 0 => active' # 0,
         pc'[p] \in {"opened", "locked"} => h'[p] # 0,
         pc'[p] \in {"ropened", "shared"} => op'[p] \in {"read", "repair"},
         op'[p] \in {"read", "repair"} => active' # 0
  PROVE  Handles'
  BY Zenon DEF IInv, Handles, Others

LEMMA WalksStep ==
  ASSUME IInv, NEW p \in Procs, Others(p),
         Len(manifest') \in Nat, Len(manifest) <= Len(manifest'),
         \A k \in DOMAIN manifest : manifest'[k] = manifest[k],
         pc'[p] \in Walking => Len(wk'[p]) <= Len(manifest')
                               /\ \A k \in DOMAIN wk'[p] : wk'[p][k] = manifest'[k]
  PROVE  Walks'
<1>1. manifest \in Seq(ManifestEntry) /\ wk \in [Procs -> Seq(ManifestEntry)]
  BY Zenon DEF IInv, TypeOK, DiskOK, ProcsOK
<1>2. ASSUME NEW q \in Procs, q # p, pc'[q] \in Walking
      PROVE  Len(wk'[q]) <= Len(manifest') /\ \A k \in DOMAIN wk'[q] : wk'[q][k] = manifest'[k]
  <2>1. wk'[q] = wk[q] /\ wk[q] \in Seq(ManifestEntry)
        /\ Len(wk[q]) <= Len(manifest) /\ \A k \in DOMAIN wk[q] : wk[q][k] = manifest[k]
    BY <1>1, <1>2, Zenon DEF IInv, Walks, Others
  <2>2. Len(wk[q]) <= Len(manifest')
    BY <1>1, <2>1
  <2>3. \A k \in DOMAIN wk[q] : k \in DOMAIN manifest
    BY <1>1, <2>1
  <2>4. QED
    BY <2>1, <2>2, <2>3, Zenon
<1>3. QED
  BY <1>2, Zenon DEF Walks

(* A process that writes or rotates is the only one that does, and no      *)
(* repair is under way.                                                    *)
LEMMA Alone ==
  ASSUME IInv, NEW p \in Procs, pc[p] \in Rotating
  PROVE  /\ \A q \in Procs : q # p => pc[q] \notin Rotating
         /\ \A q \in Procs : pc[q] \notin Repairing
<1>1. Rotating \subseteq Exclusive /\ Rotating \cap Repairing = {}
  BY Zenon DEF Rotating, Writing, Exclusive, Repairing
<1>2. QED
  BY <1>1, Zenon DEF IInv, Locks, Writers, Repairs

LEMMA WritersFrame ==
  ASSUME IInv, NEW p \in Procs, Others(p), UNCHANGED Core, pc'[p] \notin Rotating
  PROVE  Writers'
<1>1. UNCHANGED <<files, torn, active, seg, manifest>>
  BY Zenon DEF Core
<1>2. Listed(manifest, active)' = Listed(manifest, active) /\ ActiveChain' = ActiveChain
  BY CoreFrame, Zenon
<1>3. {"ready", "linked", "sealed", "copied", "listed"} \subseteq Rotating /\ Writing \subseteq Rotating
  BY Zenon DEF Rotating, Writing
<1>4. ASSUME NEW q \in Procs, q # p
      PROVE  pc'[q] = pc[q] /\ h'[q] = h[q] /\ wk'[q] = wk[q] /\ ch'[q] = ch[q]
  BY <1>4, Zenon DEF Others
<1>5. QED
  BY <1>1, <1>2, <1>3, <1>4, SMTT(30) DEF IInv, Writers

LEMMA RepairsFrame ==
  ASSUME IInv, NEW p \in Procs, Others(p), UNCHANGED Core,
         pc'[p] \in Rotating => \A q \in Procs : pc[q] \notin Repairing,
         pc'[p] \in Repairing =>
           /\ op'[p] = "repair" /\ ~Listed(manifest, active) /\ Damaged
           /\ ch'[p].count <= Len(files[active])
           /\ \A q \in Procs : q # p => pc[q] \notin Rotating
           /\ pc'[p] = "fragged" => h'[p] = active
  PROVE  Repairs'
<1>1. UNCHANGED <<files, active>>
  BY Zenon DEF Core
<1>2. Listed(manifest, active)' = Listed(manifest, active) /\ Damaged' = Damaged
  BY CoreFrame, Zenon
<1>3. Rotating \cap Repairing = {}
  BY Zenon DEF Rotating, Writing, Repairing
<1>4. ASSUME NEW q \in Procs, q # p
      PROVE  pc'[q] = pc[q] /\ h'[q] = h[q] /\ op'[q] = op[q] /\ ch'[q] = ch[q]
  BY <1>4, Zenon DEF Others
<1>5. QED
  BY <1>1, <1>2, <1>3, <1>4, Zenon DEF IInv, Repairs

(* No process but p matters to Writers and Repairs. *)
LEMMA AloneStep ==
  ASSUME IInv, NEW p \in Procs, Others(p), pc'[p] \notin Repairing,
         \A q \in Procs : q # p => pc[q] \notin Rotating /\ pc[q] \notin Repairing
  PROVE  Repairs' /\ (pc'[p] \notin Rotating => Writers')
<1>1. {"ready", "linked", "sealed", "copied", "listed"} \subseteq Rotating /\ Writing \subseteq Rotating
  BY Zenon DEF Rotating, Writing
<1>2. ASSUME NEW q \in Procs
      PROVE  pc'[q] \notin Repairing /\ (pc'[p] \notin Rotating => pc'[q] \notin Rotating)
  BY <1>2, Zenon DEF Others
<1>3. Repairs'
  BY <1>2, Zenon DEF Repairs
<1>4. pc'[p] \notin Rotating => Writers'
  BY <1>1, <1>2, Zenon DEF Writers
<1>5. QED
  BY <1>3, <1>4, Zenon

-----------------------------------------------------------------------------
(* Steps that leave the set of files alone.                                 *)

(* A command starts, starts over, ends or dies. *)
LEMMA QuietStep ==
  ASSUME IInv, TypeOK', NEW p \in Procs, Others(p), UNCHANGED Core,
         pc'[p] \in {"idle", "start"},
         op'[p] \in RepairOps => op[p] \in RepairOps \/ NoOtherRepair,
         op'[p] \in {"read", "repair"} => active # 0
  PROVE  IInv'
<1>1. pc' \in [Procs -> Steps] /\ UNCHANGED <<active, manifest>>
  BY Zenon DEF TypeOK, ProcsOK, Core
<1>2. pc'[p] \notin Exclusive \cup {"shared", "opened", "locked", "ropened"} \cup Rotating \cup Repairing \cup Walking
  BY Zenon DEF Exclusive, Rotating, Writing, Repairing, Walking
<1>3. Locks' /\ OneRepair'
  BY <1>1, <1>2, LocksStep, OneRepairStep, Zenon
<1>4. Handles'
  BY <1>1, <1>2, HandlesStep, Zenon
<1>5. Walks'
  <2>1. manifest \in Seq(ManifestEntry) /\ manifest' = manifest
    BY <1>1, Zenon DEF IInv, TypeOK, DiskOK
  <2>2. Len(manifest') \in Nat /\ Len(manifest) <= Len(manifest')
    BY <2>1
  <2>3. QED
    BY <1>2, <2>1, <2>2, WalksStep, Zenon
<1>6. Writers' /\ Repairs'
  BY <1>2, WritersFrame, RepairsFrame, Zenon
<1>7. Sets' /\ ChainIntact' /\ DiskIsLog'
  BY CoreFrame, Zenon
<1>8. QED
  BY <1>3, <1>4, <1>5, <1>6, <1>7, Zenon DEF IInv

LEMMA QuietSteps ==
  ASSUME IInv, TypeOK', NEW p \in Procs, Others(p),
         \/ WalkFails(p) \/ Busy(p) \/ Refuse(p) \/ RepairRefuse(p) \/ RotateCopyFails(p) \/ RepairCopyFails(p)
         \/ Crash(p) \/ ReadDone(p) \/ Stale(p) \/ ReadStale(p) \/ \E o \in Ops : Invoke(p, o)
  PROVE  IInv'
<1>1. pc \in [Procs -> Steps] /\ op \in [Procs -> OpKinds \cup RepairOps \cup {"none"}]
  BY Zenon DEF IInv, TypeOK, ProcsOK
<1>2. UNCHANGED Core
  BY Zenon DEF Core, disk, history, WalkFails, Busy, Refuse, RepairRefuse, RotateCopyFails, RepairCopyFails, Crash,
         ReadDone, Stale, ReadStale, Invoke
<1>3. CASE Leave(p)
  <2>1. pc'[p] = "idle" /\ op'[p] = "none"
    BY <1>1, <1>3, Zenon DEF Leave
  <2>2. "none" \notin RepairOps
    BY Zenon DEF RepairOps
  <2>3. QED
    BY <1>2, <2>1, <2>2, QuietStep, Zenon
<1>4. CASE Retry(p) /\ try[p] < Attempts
  <2>1. pc'[p] = "start" /\ op'[p] = op[p]
    BY <1>1, <1>4, Zenon DEF Retry, Goto
  <2>2. op[p] \in {"read", "repair"} => active # 0
    BY Zenon DEF IInv, Handles
  <2>3. QED
    BY <1>2, <2>1, <2>2, QuietStep, Zenon
<1>5. CASE \E o \in Ops : Invoke(p, o)
  <2>1. PICK o \in Ops : Invoke(p, o)
    BY <1>5, Zenon
  <2>2. o \in OpKinds
    BY ConstantsAssumption, Zenon
  <2>3. pc'[p] = "start" /\ op'[p] = o /\ (o = "repair" => NoOtherRepair)
        /\ (o \in {"read", "repair"} => active # 0)
    BY <1>1, <2>1, Zenon DEF Invoke, Goto
  <2>4. o \in RepairOps => o = "repair"
    BY <2>2, Zenon DEF RepairOps, OpKinds
  <2>5. QED
    BY <1>2, <2>3, <2>4, QuietStep, Zenon
<1>6. QED
  BY <1>3, <1>4, <1>5, Zenon DEF WalkFails, Busy, Refuse, RepairRefuse, RotateCopyFails, RepairCopyFails, Crash,
         ReadDone, Stale, ReadStale, Retry

(* A command walks, opens or locks. *)
LEMMA LockSteps ==
  ASSUME IInv, TypeOK', NEW p \in Procs, Others(p),
         Walk(p) \/ LockExclusive(p) \/ LockShared(p) \/ OpenByName(p)
  PROVE  IInv'
<1>1. pc \in [Procs -> Steps] /\ pc' \in [Procs -> Steps] /\ wk \in [Procs -> Seq(ManifestEntry)]
      /\ h \in [Procs -> 0..Len(files)] /\ manifest \in Seq(ManifestEntry)
  BY Zenon DEF IInv, TypeOK, ProcsOK, DiskOK
<1>2. UNCHANGED Core /\ UNCHANGED <<op, ch, active, manifest>>
  BY Zenon DEF Core, disk, history, Walk, LockExclusive, LockShared, OpenByName
<1>3. /\ Walk(p) => pc[p] = "start" /\ pc'[p] = "walked" /\ wk'[p] = manifest /\ h'[p] = h[p]
      /\ LockExclusive(p) => pc[p] \in {"opened", "xopened"} /\ wk'[p] = wk[p] /\ h'[p] = h[p]
                             /\ pc'[p] = (IF pc[p] = "opened" THEN "locked" ELSE "xlocked")
      /\ LockShared(p) => pc[p] = "ropened" /\ pc'[p] = "shared" /\ wk'[p] = wk[p] /\ h'[p] = h[p]
      /\ OpenByName(p) => pc'[p] = "ropened" /\ op[p] \in {"read", "repair"}
  BY <1>1, Zenon DEF Walk, LockExclusive, LockShared, OpenByName, Goto
<1>4. Locks'
  <2>1. LockExclusive(p) => ~\E q \in Procs : HoldsEx(q, h[p]) \/ HoldsSh(q, h[p])
    BY Zenon DEF LockExclusive
  <2>2. LockShared(p) => ~\E q \in Procs : HoldsEx(q, h[p])
    BY Zenon DEF LockShared
  <2>3. "walked" \notin Exclusive \cup {"shared"} /\ "ropened" \notin Exclusive \cup {"shared"}
    BY Zenon DEF Exclusive
  <2>4. QED
    BY <1>1, <1>3, <2>1, <2>2, <2>3, LocksStep, Zenon
<1>5. OneRepair'
  BY <1>2, OneRepairStep, Zenon
<1>6. Handles'
  <2>1. (pc[p] \in {"opened", "locked"} => h[p] # 0) /\ (op[p] \in {"read", "repair"} => active # 0)
        /\ (pc[p] \in {"ropened", "shared"} => op[p] \in {"read", "repair"})
    BY Zenon DEF IInv, Handles
  <2>2. pc'[p] \in {"opened", "locked"} => h'[p] # 0
    BY <1>3, <2>1, Zenon
  <2>3. pc'[p] \in {"ropened", "shared"} => op[p] \in {"read", "repair"}
    BY <1>3, <2>1, Zenon
  <2>4. QED
    BY <1>2, <2>1, <2>2, <2>3, HandlesStep, Zenon
<1>7. Walks'
  <2>1. pc[p] \in Walking => Len(wk[p]) <= Len(manifest) /\ \A k \in DOMAIN wk[p] : wk[p][k] = manifest[k]
    BY Zenon DEF IInv, Walks
  <2>2. pc'[p] \in Walking => wk'[p] = manifest \/ (pc[p] \in Walking /\ wk'[p] = wk[p])
    BY <1>3, Zenon DEF Walking
  <2>3. QED
    BY <1>1, <1>2, <2>1, <2>2, WalksStep
<1>8. pc'[p] \notin Rotating /\ (pc'[p] \in Repairing => pc'[p] = "xlocked" /\ pc[p] = "xopened")
  BY <1>3, Zenon DEF Rotating, Writing, Repairing
<1>9. Writers'
  BY <1>2, <1>8, WritersFrame, Zenon
<1>10. Repairs'
  <2>1. pc[p] = "xopened" =>
           /\ op[p] = "repair" /\ ~Listed(manifest, active) /\ Damaged
           /\ ch[p].count <= Len(files[active])
           /\ \A q \in Procs : pc[q] \notin Rotating
    BY Zenon DEF IInv, Repairs, Repairing
  <2>2. QED
    BY <1>2, <1>8, <2>1, RepairsFrame, Zenon
<1>11. Sets' /\ ChainIntact' /\ DiskIsLog'
  BY <1>2, CoreFrame, Zenon
<1>12. QED
  BY <1>4, <1>5, <1>6, <1>7, <1>9, <1>10, <1>11, Zenon DEF IInv

(* What a verdict says of the active. *)
LEMMA VerdictFacts ==
  ASSUME NEW v, v = Verdict(manifest, active)
  PROVE  /\ v = "listed" => Listed(manifest, active)
         /\ v \in {"open", "sealed"} => ~Listed(manifest, active) /\ ~Damaged /\ active \notin torn \cup foreign
         /\ v = "open" => Seals(files[active]) = {}
         /\ v = "sealed" => Seals(files[active]) # {}
         /\ v \in Repairable => ~Listed(manifest, active) /\ Damaged
<1>1. v \in {"open", "sealed", "sealNotLast"} => v = FinishActive(manifest, files[active])
  BY Zenon DEF Verdict
<1>2. /\ v = "open" => Seals(files[active]) = {}
      /\ v = "sealed" => Seals(files[active]) # {}
      /\ v \in {"open", "sealed"} => ~\E k \in Seals(files[active]) : k < Len(files[active])
      /\ v = "sealNotLast" => \E k \in Seals(files[active]) : k < Len(files[active])
  BY <1>1, Zenon DEF FinishActive
<1>3. v \in {"open", "sealed", "sealNotLast", "torn"} => ~Listed(manifest, active)
  BY Zenon DEF Verdict
<1>4. v \in {"open", "sealed"} => active \notin torn \cup foreign
  BY Zenon DEF Verdict
<1>5. v = "torn" => active \in torn
  BY Zenon DEF Verdict, FinishActive
<1>6. v = "listed" => Listed(manifest, active)
  BY Zenon DEF Verdict, FinishActive
<1>7. QED
  BY <1>2, <1>3, <1>4, <1>5, <1>6, Zenon DEF Damaged, Repairable

(* A confirmed walk verified the manifest as it is. *)
LEMMA ConfirmedWalk ==
  ASSUME IInv, NEW p \in Procs, pc[p] = "locked", Confirmed(p)
  PROVE  wk[p] = manifest /\ h[p] = active /\ active # 0
<1>1. wk[p] \in Seq(ManifestEntry) /\ manifest \in Seq(ManifestEntry)
  BY Zenon DEF IInv, TypeOK, ProcsOK, DiskOK
<1>2. Len(wk[p]) = Len(manifest) /\ \A k \in 1..Len(wk[p]) : wk[p][k] = manifest[k]
  BY <1>1 DEF IInv, Walks, Walking, Confirmed, ManifestEqual
<1>3. QED
  BY <1>1, <1>2, SameElements, Zenon DEF Confirmed, SameFile, IInv, Handles

LEMMA AdmitStep ==
  ASSUME IInv, TypeOK', NEW p \in Procs, Others(p), Admit(p)
  PROVE  IInv'
<1> DEFINE v == Verdict(manifest, active)
<1>1. pc \in [Procs -> Steps] /\ pc' \in [Procs -> Steps] /\ manifest \in Seq(ManifestEntry)
      /\ ch \in [Procs -> Chain] /\ files \in Seq(Seq(Line)) /\ active \in 0..Len(files)
  BY Zenon DEF IInv, TypeOK, ProcsOK, DiskOK
<1>2. wk[p] = manifest /\ h[p] = active /\ active # 0 /\ pc[p] = "locked"
  BY ConfirmedWalk, Zenon DEF Admit
<1>3. UNCHANGED Core /\ UNCHANGED <<op, wk, h, active, manifest, files, torn>>
  BY Zenon DEF Core, disk, history, Admit
<1>4. ch'[p] = ActiveChain
  BY <1>1, <1>2, Zenon DEF Admit, ActiveChain
<1>5. v \in {"open", "sealed", "listed"}
  BY <1>2, Zenon DEF Admit, Acceptable, ActiveVerdict
<1>6. pc'[p] = CASE v = "open" -> "ready" [] v = "sealed" -> "sealed" [] OTHER -> "listed"
  BY <1>1, <1>2, Zenon DEF Admit, ActiveVerdict, Goto
<1>7. /\ v = "listed" => Listed(manifest, active)
      /\ v \in {"open", "sealed"} => ~Listed(manifest, active) /\ ~Damaged /\ active \notin torn
      /\ v = "open" => Seals(files[active]) = {}
      /\ v = "sealed" => Seals(files[active]) # {}
  BY VerdictFacts, Zenon
<1> HIDE DEF v
<1>8. \/ v = "open" /\ pc'[p] = "ready"
      \/ v = "sealed" /\ pc'[p] = "sealed"
      \/ v = "listed" /\ pc'[p] = "listed"
  BY <1>5, <1>6, Zenon
<1>9. \A q \in Procs : pc[q] \notin Repairing
  BY <1>5, <1>7, Zenon DEF IInv, Repairs
<1>10. \A q \in Procs : q # p => pc[q] \notin Rotating
  <2>1. Rotating \subseteq Exclusive /\ "locked" \in Exclusive
    BY Zenon DEF Rotating, Writing, Exclusive
  <2>2. QED
    BY <1>2, <2>1, Zenon DEF IInv, Locks, Writers
<1>11. Locks' /\ OneRepair'
  <2>1. pc[p] \in Exclusive /\ pc'[p] # "shared"
    BY <1>2, <1>8, Zenon DEF Exclusive
  <2>2. QED
    BY <1>1, <1>3, <2>1, LocksStep, OneRepairStep, Zenon
<1>12. Handles'
  BY <1>3, <1>8, HandlesStep, Zenon DEF IInv, Handles
<1>13. Walks'
  BY <1>1, <1>3, <1>8, WalksStep DEF Walking
<1>14. Repairs'
  BY <1>3, <1>8, <1>9, RepairsFrame, Zenon DEF Repairing
<1>15. Writers'
  <2>1. Listed(manifest, active)' = Listed(manifest, active) /\ ActiveChain' = ActiveChain
    BY <1>3, CoreFrame, Zenon
  <2>2. \A q \in Procs : q # p => pc'[q] \notin Rotating
    BY <1>10, Zenon DEF Others
  <2>3. v = "sealed" => files[active] # <<>>
    BY <1>7 DEF Seals
  <2>4. QED
    BY <1>2, <1>3, <1>4, <1>7, <1>8, <2>1, <2>2, <2>3, Zenon DEF Writers, Rotating, Writing
<1>16. Sets' /\ ChainIntact' /\ DiskIsLog'
  BY <1>3, CoreFrame, Zenon
<1>17. QED
  BY <1>11, <1>12, <1>13, <1>14, <1>15, <1>16, Zenon DEF IInv

(* A repair reads, makes its copy, opens again and writes its fragment. *)
LEMMA RepairSteps ==
  ASSUME IInv, TypeOK', NEW p \in Procs, Others(p),
         RepairRead(p) \/ RepairCopy(p) \/ OpenForRepair(p) \/ WriteTornFragment(p)
  PROVE  IInv'
<1>1. pc \in [Procs -> Steps] /\ pc' \in [Procs -> Steps] /\ manifest \in Seq(ManifestEntry)
      /\ h \in [Procs -> 0..Len(files)] /\ ch \in [Procs -> Chain]
  BY Zenon DEF IInv, TypeOK, ProcsOK, DiskOK
<1>2. UNCHANGED Core /\ UNCHANGED <<op, active, manifest, files>>
  BY Zenon DEF Core, disk, history, RepairRead, RepairCopy, OpenForRepair, WriteTornFragment
<1>3. /\ RepairRead(p) => pc[p] = "shared" /\ pc'[p] \in {"rcopy", "cut"}
      /\ RepairCopy(p) => pc[p] = "rcopy" /\ pc'[p] = "cut" /\ UNCHANGED <<h, ch>>
      /\ OpenForRepair(p) => pc[p] = "cut" /\ pc'[p] = "xopened" /\ UNCHANGED ch
      /\ WriteTornFragment(p) => pc[p] = "xlocked" /\ pc'[p] = "fragged" /\ UNCHANGED <<h, ch>> /\ h[p] = active
  BY <1>1, Zenon DEF RepairRead, RepairCopy, OpenForRepair, WriteTornFragment, PrefixStands, SameFile, Goto
<1>4. Locks' /\ OneRepair'
  <2>1. "rcopy" \notin Exclusive /\ "cut" \notin Exclusive /\ "xopened" \notin Exclusive /\ "xlocked" \in Exclusive
    BY Zenon DEF Exclusive
  <2>2. QED
    BY <1>1, <1>2, <1>3, <2>1, LocksStep, OneRepairStep, Zenon
<1>5. Handles'
  BY <1>2, <1>3, HandlesStep, Zenon DEF IInv, Handles
<1>6. Walks'
  <2>1. manifest' = manifest
    BY <1>2, Zenon
  <2>2. Len(manifest') \in Nat /\ Len(manifest) <= Len(manifest')
    BY <1>1, <2>1
  <2>3. pc'[p] \notin Walking
    BY <1>3, Zenon DEF Walking
  <2>4. QED
    BY <2>1, <2>2, <2>3, WalksStep, Zenon
<1>7. pc'[p] \notin Rotating
  BY <1>3, Zenon DEF Rotating, Writing
<1>8. Writers'
  BY <1>2, <1>7, WritersFrame, Zenon
<1>9. Repairs'
  <2>1. CASE RepairRead(p)
    <3>1. pc[p] = "shared" /\ h[p] = active /\ op[p] = "repair" /\ Verdict(manifest, active) \in Repairable
          /\ ch'[p].count \in 0..Len(files[active])
      <4>1. pc[p] = "shared" /\ h[p] = active /\ op[p] = "repair" /\ Verdict(manifest, active) \in Repairable
        BY <2>1, Zenon DEF RepairRead, SameFile, ReadVerdict
      <4>2. PICK k \in 0..Len(files[h[p]]) :
              ch' = [ch EXCEPT ![p] = [base |-> Base(manifest), count |-> k,
                                       prev |-> HeadOf(manifest, SubSeq(files[h[p]], 1, k))]]
        BY <2>1, Zenon DEF RepairRead
      <4>3. ch'[p] = [base |-> Base(manifest), count |-> k,
                      prev |-> HeadOf(manifest, SubSeq(files[h[p]], 1, k))]
        BY <1>1, <4>2, Zenon
      <4>4. ch'[p].count = k
        <5>1. [base |-> Base(manifest), count |-> k,
               prev |-> HeadOf(manifest, SubSeq(files[h[p]], 1, k))].count = k
          BY Zenon
        <5>2. QED
          BY <4>3, <5>1, Zenon
      <4>5. QED
        BY <4>1, <4>2, <4>4, Zenon
    <3>2. ~Listed(manifest, active) /\ Damaged
      BY <3>1, VerdictFacts, Zenon
    <3>3. files[active] \in Seq(Line)
      BY <3>1, ReaderFacts, Zenon
    <3>4. ch'[p].count <= Len(files[active])
      BY <3>1, <3>3
    <3>5. \A q \in Procs : q # p => pc[q] \notin Rotating
      <4>1. Rotating \subseteq Exclusive
        BY Zenon DEF Rotating, Writing, Exclusive
      <4>2. QED
        BY <3>1, <4>1, Zenon DEF IInv, Locks, Writers
    <3>6. QED
      BY <1>2, <1>3, <1>7, <2>1, <3>1, <3>2, <3>4, <3>5, RepairsFrame, Zenon
  <2>2. CASE RepairCopy(p) \/ OpenForRepair(p) \/ WriteTornFragment(p)
    <3>1. pc[p] \in Repairing
      BY <1>3, <2>2, Zenon DEF Repairing
    <3>2. /\ op[p] = "repair" /\ ~Listed(manifest, active) /\ Damaged
          /\ ch[p].count <= Len(files[active])
          /\ \A q \in Procs : pc[q] \notin Rotating
      BY <3>1, Zenon DEF IInv, Repairs
    <3>3. ch'[p] = ch[p] /\ op'[p] = op[p] /\ (pc'[p] = "fragged" => h'[p] = active)
      BY <1>2, <1>3, <2>2, Zenon
    <3>4. QED
      BY <1>2, <1>7, <3>2, <3>3, RepairsFrame, Zenon
  <2>3. QED
    BY <2>1, <2>2, Zenon
<1>10. Sets' /\ ChainIntact' /\ DiskIsLog'
  BY <1>2, CoreFrame, Zenon
<1>11. QED
  BY <1>4, <1>5, <1>6, <1>8, <1>9, <1>10, Zenon DEF IInv

-----------------------------------------------------------------------------
(* Steps that write.                                                        *)

LEMMA NotListed ==
  ASSUME IInv, ~Listed(manifest, active)
  PROVE  \A k \in DOMAIN manifest : seg[k] # active
  BY Zenon DEF IInv, Sets, DiskIsLog, Listed, TypeOK, DiskOK

(* What the manifest says of its last segment. *)
LEMMA LastSegment ==
  ASSUME IInv, manifest # <<>>
  PROVE  /\ Base(manifest) \in DOMAIN log /\ Prev(manifest) = log[Base(manifest)].uid
         /\ log[Base(manifest)] = manifest[Len(manifest)].sha[Len(manifest[Len(manifest)].sha)]
<1> DEFINE n == Len(manifest)
           sha == manifest[n].sha
           b == Base(Before(manifest, n))
<1>1. manifest \in Seq(ManifestEntry) /\ log \in Seq(Line)
  BY Zenon DEF IInv, TypeOK, DiskOK, HistoryOK
<1>2. n \in DOMAIN manifest /\ manifest[n] \in ManifestEntry
  BY <1>1, LastElement, Zenon
<1>3. sha \in Seq(Line) /\ sha # <<>>
  BY <1>2, Zenon DEF ManifestEntry, IInv, Sets
<1>4. manifest[n] = Entry(Before(manifest, n), sha) /\ Stores(sha, b)
  BY <1>2, Zenon DEF IInv, DiskIsLog
<1>5. Before(manifest, n) \in Seq(ManifestEntry)
  BY <1>1, <1>2 DEF Before
<1>6. b \in Nat
  BY <1>5, BaseType, Zenon
<1>7. Base(manifest) = b + Len(sha) /\ Prev(manifest) = sha[Len(sha)].uid
  <2>1. /\ Entry(Before(manifest, n), sha).head = b + Len(sha)
        /\ Entry(Before(manifest, n), sha).hash = sha[Len(sha)].uid
    BY Zenon DEF Entry
  <2>2. Base(manifest) = manifest[n].head /\ Prev(manifest) = manifest[n].hash
    BY Zenon DEF Base, Prev
  <2>3. QED
    BY <1>4, <2>1, <2>2, Zenon
<1> HIDE DEF n, sha, b
<1>8. Len(sha) \in DOMAIN sha /\ Len(sha) \in Nat /\ Len(sha) > 0
  BY <1>3, LastElement, Zenon
<1>9. sha[Len(sha)] = log[b + Len(sha)] /\ b + Len(sha) <= Len(log)
  BY <1>4, <1>8, Zenon DEF Stores
<1>10. b + Len(sha) \in DOMAIN log
  BY <1>1, <1>6, <1>8, <1>9
<1>11. QED
  BY <1>7, <1>9, <1>10, Zenon DEF n, sha

(* The head that a writer of the active goes on from is the chain's. *)
LEMMA HeadIsLast ==
  ASSUME IInv, active # 0, ~Listed(manifest, active)
  PROVE  HeadOf(manifest, files[active]) = IF log = <<>> THEN 0 ELSE log[Len(log)].uid
<1> DEFINE ls == files[active]
<1>1. manifest \in Seq(ManifestEntry) /\ log \in Seq(Line) /\ active \in 1..Len(files)
  BY DEF IInv, TypeOK, DiskOK, HistoryOK
<1>2. ls \in Seq(Line)
  BY <1>1 DEF IInv, TypeOK, DiskOK
<1>3. Stores(ls, Base(manifest)) /\ Len(log) = Base(manifest) + Len(ls) /\ Base(manifest) \in Nat
  BY <1>1, BaseType, Zenon DEF IInv, DiskIsLog
<1> HIDE DEF ls
<1>4. CASE ls # <<>>
  <2>1. Len(ls) \in DOMAIN ls /\ Len(ls) \in Nat /\ Len(ls) > 0
    BY <1>2, <1>4, LastElement, Zenon
  <2>2. ls[Len(ls)] = log[Len(log)]
    BY <1>3, <2>1, Zenon DEF Stores
  <2>3. log # <<>>
    BY <1>1, <1>3, <2>1
  <2>4. QED
    BY <1>4, <2>2, <2>3, Zenon DEF HeadOf, ls
<1>5. CASE ls = <<>> /\ manifest = <<>>
  <2>1. Len(log) = 0
    BY <1>3, <1>5 DEF Base
  <2>2. log = <<>>
    BY <1>1, <2>1
  <2>3. QED
    BY <1>5, <2>2, Zenon DEF HeadOf, Prev, ls
<1>6. CASE ls = <<>> /\ manifest # <<>>
  <2>1. Base(manifest) \in DOMAIN log /\ Prev(manifest) = log[Base(manifest)].uid
    BY <1>6, LastSegment, Zenon
  <2>2. Len(log) = Base(manifest)
    BY <1>3, <1>6
  <2>3. log # <<>>
    BY <1>1, <2>1
  <2>4. QED
    BY <1>6, <2>1, <2>2, <2>3, Zenon DEF HeadOf, ls
<1>7. QED
  BY <1>4, <1>5, <1>6, Zenon

(* A line that continues the active continues the chain. *)
LEMMA WriteActive ==
  ASSUME IInv, active # 0, ~Listed(manifest, active), NEW l \in Line, Write(active, l),
         l.seq = Base(manifest) + Len(files[active]) + 1, l.prev = HeadOf(manifest, files[active]),
         UNCHANGED <<torn, active, seg, manifest>>
  PROVE  /\ Sets' /\ ChainIntact' /\ DiskIsLog' /\ ~Listed(manifest, active)'
         /\ files'[active] = Append(files[active], l)
<1>1. manifest \in Seq(ManifestEntry) /\ log \in Seq(Line) /\ active \in 1..Len(files) /\ TypeOK
  BY DEF IInv, TypeOK, DiskOK, HistoryOK
<1>2. files[active] \in Seq(Line) /\ Base(manifest) \in Nat
  BY <1>1, BaseType DEF TypeOK, DiskOK
<1>3. Stores(files[active], Base(manifest)) /\ Len(log) = Base(manifest) + Len(files[active])
  BY Zenon DEF IInv, DiskIsLog
<1>4. /\ \A j \in 1..Len(files) : files'[j] = IF j = active THEN Append(files[active], l) ELSE files[j]
      /\ log' \in Seq(Line)
  BY <1>1, WriteType, Zenon
<1>5. log' = Append(log, l) /\ Len(log') = Len(log) + 1 /\ log'[Len(log) + 1] = l
      /\ \A j \in 1..Len(log) : log'[j] = log[j]
  BY <1>1 DEF Write
<1>6. ~Listed(manifest, active)'
  BY Zenon DEF Listed
<1>7. Sets'
  BY Zenon DEF IInv, Sets
<1>8. ChainIntact'
  <2>1. l.prev = IF log = <<>> THEN 0 ELSE log[Len(log)].uid
    BY HeadIsLast, Zenon
  <2>2. ASSUME NEW k \in DOMAIN log'
        PROVE  log'[k].seq = k /\ log'[k].prev = (IF k = 1 THEN 0 ELSE log'[k - 1].uid)
    <3>1. k \in 1..Len(log) \/ k = Len(log) + 1
      BY <1>1, <1>4, <1>5
    <3>2. CASE k \in 1..Len(log)
      <4>1. log[k].seq = k /\ log[k].prev = (IF k = 1 THEN 0 ELSE log[k - 1].uid)
        BY <1>1, <3>2 DEF IInv, ChainIntact
      <4>2. log'[k] = log[k] /\ (k # 1 => log'[k - 1] = log[k - 1])
        BY <1>1, <1>5, <3>2
      <4>3. QED
        BY <4>1, <4>2, Zenon
    <3>3. CASE k = Len(log) + 1
      <4>1. log'[k] = l /\ l.seq = k
        BY <1>2, <1>3, <1>5, <3>3, Zenon
      <4>2. CASE log = <<>>
        BY <2>1, <3>3, <4>1, <4>2
      <4>3. CASE log # <<>>
        <5>1. Len(log) \in 1..Len(log) /\ k - 1 = Len(log) /\ k # 1
          BY <1>1, <3>3, <4>3
        <5>2. QED
          BY <1>5, <2>1, <4>1, <4>3, <5>1, Zenon
      <4>4. QED
        BY <4>2, <4>3, Zenon
    <3>4. QED
      BY <3>1, <3>2, <3>3, Zenon
  <2>3. QED
    BY <2>2, Zenon DEF ChainIntact
<1>9. ASSUME NEW ls \in Seq(Line), NEW b \in Nat, Stores(ls, b)
      PROVE  b + Len(ls) <= Len(log') /\ \A j \in DOMAIN ls : ls[j] = log'[b + j]
  <2>1. b + Len(ls) <= Len(log) /\ \A j \in DOMAIN ls : ls[j] = log[b + j]
    BY <1>9, Zenon DEF Stores
  <2>2. \A j \in DOMAIN ls : b + j \in 1..Len(log)
    BY <1>1, <2>1
  <2>3. QED
    BY <1>1, <1>5, <2>1, <2>2
<1>10. ASSUME NEW k \in DOMAIN manifest
       PROVE  /\ k \in DOMAIN seg' /\ files'[seg'[k]] = manifest'[k].sha /\ seg'[k] \notin torn'
              /\ manifest'[k] = Entry(Before(manifest', k), manifest'[k].sha)
              /\ Stores(manifest[k].sha, Base(Before(manifest, k)))'
  <2>1. /\ k \in DOMAIN seg /\ files[seg[k]] = manifest[k].sha /\ seg[k] \notin torn
        /\ manifest[k] = Entry(Before(manifest, k), manifest[k].sha)
        /\ Stores(manifest[k].sha, Base(Before(manifest, k)))
    BY <1>10, Zenon DEF IInv, DiskIsLog
  <2>2. seg[k] # active /\ seg[k] \in 1..Len(files)
    BY <1>1, <1>10, <2>1, NotListed, Zenon DEF TypeOK, DiskOK
  <2>3. manifest[k].sha \in Seq(Line) /\ Before(manifest, k) \in Seq(ManifestEntry)
    <3>1. manifest[k] \in ManifestEntry
      BY <1>1, <1>10
    <3>2. manifest[k].sha \in Seq(Line)
      BY <3>1, Zenon DEF ManifestEntry
    <3>3. Before(manifest, k) \in Seq(ManifestEntry)
      BY <1>1, <1>10 DEF Before
    <3>4. QED
      BY <3>2, <3>3, Zenon
  <2>4. Base(Before(manifest, k)) \in Nat
    BY <2>3, BaseType, Zenon
  <2>5. Stores(manifest[k].sha, Base(Before(manifest, k)))'
    BY <1>9, <2>1, <2>3, <2>4, Zenon DEF Stores
  <2>6. QED
    BY <1>4, <2>1, <2>2, <2>5, Zenon
<1>11. files'[active] = Append(files[active], l)
  BY <1>1, <1>4, Zenon
<1>12. Stores(files[active], Base(manifest))' /\ Len(log') = Base(manifest') + Len(files'[active'])
  <2>1. Len(Append(files[active], l)) = Len(files[active]) + 1 /\ Len(files[active]) \in Nat
    BY <1>2
  <2>2. ASSUME NEW j \in DOMAIN Append(files[active], l)
        PROVE  Append(files[active], l)[j] = log'[Base(manifest) + j]
    <3>1. j \in 1..(Len(files[active]) + 1)
      BY <1>2, <2>1, <2>2
    <3>2. CASE j = Len(files[active]) + 1
      BY <1>2, <1>3, <1>5, <3>2
    <3>3. CASE j # Len(files[active]) + 1
      <4>1. j \in DOMAIN files[active] /\ Append(files[active], l)[j] = files[active][j]
        BY <1>2, <3>1, <3>3
      <4>2. files[active][j] = log[Base(manifest) + j] /\ Base(manifest) + j \in 1..Len(log)
        BY <1>2, <1>3, <4>1 DEF Stores
      <4>3. QED
        BY <1>5, <4>1, <4>2, Zenon
    <3>4. QED
      BY <3>2, <3>3, Zenon
  <2>3. files'[active'] = Append(files[active], l) /\ Base(manifest') = Base(manifest)
    BY <1>11, Zenon
  <2>4. Len(log') = Base(manifest) + Len(Append(files[active], l))
    BY <1>2, <1>3, <1>5, <2>1
  <2>5. Stores(files[active], Base(manifest))'
    BY <1>2, <2>1, <2>2, <2>3, <2>4 DEF Stores
  <2>6. QED
    BY <2>3, <2>4, <2>5, Zenon
<1>13. DiskIsLog'
  BY <1>6, <1>10, <1>12, Zenon DEF DiskIsLog
<1>14. QED
  BY <1>6, <1>7, <1>8, <1>11, <1>13, Zenon

(* What a step of a process at work on the active keeps: it holds the lock *)
(* on, or gives it up, and no other process depends on the active.         *)
LEMMA WorkStep ==
  ASSUME IInv, TypeOK', NEW p \in Procs, Others(p), pc[p] \in Rotating,
         pc'[p] \in {"idle", "start"} \/ (pc'[p] \in Rotating /\ h'[p] = h[p]),
         op'[p] \in RepairOps => op[p] \in RepairOps,
         op'[p] \in {"read", "repair"} => op[p] \in {"read", "repair"},
         active' # 0, Len(manifest) <= Len(manifest'),
         \A k \in DOMAIN manifest : manifest'[k] = manifest[k]
  PROVE  Locks' /\ OneRepair' /\ Handles' /\ Walks' /\ Repairs' /\ (pc'[p] \notin Rotating => Writers')
<1>1. pc' \in [Procs -> Steps] /\ Len(manifest') \in Nat
  <2>1. pc' \in [Procs -> Steps] /\ manifest' \in Seq(ManifestEntry)
    BY Zenon DEF TypeOK, ProcsOK, DiskOK
  <2>2. QED
    BY <2>1
<1>2. /\ Rotating \subseteq Exclusive /\ "shared" \notin Rotating /\ Rotating \cap Walking = {}
      /\ Rotating \cap Repairing = {} /\ Rotating \cap {"opened", "locked", "ropened"} = {}
      /\ {"idle", "start"} \cap (Exclusive \cup Walking \cup Repairing) = {}
  BY Zenon DEF Rotating, Writing, Exclusive, Walking, Repairing
<1>3. Locks'
  BY <1>1, <1>2, LocksStep, Zenon
<1>4. OneRepair'
  BY OneRepairStep, Zenon
<1>5. Handles'
  BY <1>2, HandlesStep, Zenon
<1>6. Walks'
  BY <1>1, <1>2, WalksStep, Zenon
<1>7. \A q \in Procs : q # p => pc[q] \notin Rotating /\ pc[q] \notin Repairing
  BY Alone, Zenon
<1>8. Repairs' /\ (pc'[p] \notin Rotating => Writers')
  BY <1>2, <1>7, AloneStep, Zenon
<1>9. QED
  BY <1>3, <1>4, <1>5, <1>6, <1>8, Zenon

(* The fields of the chain that continues the active, and of a manifest's  *)
(* entry.                                                                  *)
LEMMA ActiveFields ==
  /\ ActiveChain.base = Base(manifest) /\ ActiveChain.count = Len(files[active])
  /\ ActiveChain.prev = HeadOf(manifest, files[active])
BY Zenon DEF ActiveChain

LEMMA EntryFields ==
  ASSUME NEW m, NEW ls
  PROVE  Entry(m, ls).head = Base(m) + Len(ls)
BY Zenon DEF Entry

LEMMA AppendStep ==
  ASSUME IInv, TypeOK', NEW p \in Procs, Others(p), AppendEvent(p) \/ AppendTorn(p)
  PROVE  IInv'
<1>1. pc[p] \in Writing /\ pc[p] \in Rotating
  BY Zenon DEF AppendEvent, AppendTorn, Writing, Rotating
<1>2. Leave(p) /\ UNCHANGED <<active, seg, manifest>>
  BY Zenon DEF AppendEvent, AppendTorn
<1>3. pc'[p] = "idle" /\ op'[p] = "none"
  BY <1>2, Zenon DEF Leave, IInv, TypeOK, ProcsOK
<1>4. h[p] = active /\ active # 0 /\ ~Listed(manifest, active) /\ ch[p] = ActiveChain /\ TypeOK
  BY <1>1, WriterFacts, Zenon DEF IInv
<1>5. Locks' /\ OneRepair' /\ Handles' /\ Walks' /\ Repairs' /\ Writers'
  <2>1. "none" \notin RepairOps /\ "idle" \notin Rotating
    BY Zenon DEF RepairOps, Rotating, Writing
  <2>2. Len(manifest) <= Len(manifest')
    <3>1. manifest \in Seq(ManifestEntry) /\ manifest' = manifest
      BY <1>2, <1>4, Zenon DEF TypeOK, DiskOK
    <3>2. QED
      BY <3>1
  <2>3. QED
    BY <1>1, <1>2, <1>3, <1>4, <2>1, <2>2, WorkStep, Zenon
<1>6. CASE AppendEvent(p)
  <2>1. Write(active, EventLine(p)) /\ UNCHANGED torn
    BY <1>4, <1>6, Zenon DEF AppendEvent
  <2>2. EventLine(p) \in Line
    BY <1>4, LineType, Zenon DEF EventLine, History!Acts
  <2>3. EventLine(p).seq = Base(manifest) + Len(files[active]) + 1
        /\ EventLine(p).prev = HeadOf(manifest, files[active])
    <3>1. EventLine(p).seq = ch[p].base + ch[p].count + 1 /\ EventLine(p).prev = ch[p].prev
      BY Zenon DEF EventLine, NextLine
    <3>2. ch[p].base = Base(manifest) /\ ch[p].count = Len(files[active])
          /\ ch[p].prev = HeadOf(manifest, files[active])
      BY <1>4, ActiveFields, Zenon
    <3>3. QED
      BY <3>1, <3>2, Zenon
  <2>4. Sets' /\ ChainIntact' /\ DiskIsLog'
    BY <1>2, <1>4, <2>1, <2>2, <2>3, WriteActive, Zenon
  <2>5. QED
    BY <1>5, <2>4, Zenon DEF IInv
<1>7. CASE AppendTorn(p)
  <2>1. torn' = torn \cup {active} /\ UNCHANGED <<files, active, seg, manifest, log>>
    BY <1>4, <1>7, Zenon DEF AppendTorn, history
  <2>2. Sets' /\ ChainIntact'
    BY <2>1, Zenon DEF IInv, Sets, ChainIntact
  <2>3. \A k \in DOMAIN manifest : seg[k] # active
    BY <1>4, NotListed, Zenon
  <2>4. DiskIsLog'
    BY <2>1, <2>3, Zenon DEF IInv, DiskIsLog, Listed, Stores
  <2>5. QED
    BY <1>5, <2>2, <2>4, Zenon DEF IInv
<1>8. QED
  BY <1>6, <1>7, Zenon

(* A link of the active beside the listed segments. *)
LEMMA LinkStep ==
  ASSUME IInv, active # 0, LinkSegment(Len(manifest) + 1), ~Listed(manifest, active),
         UNCHANGED <<files, torn, active, manifest, log>>
  PROVE  /\ Sets' /\ ChainIntact' /\ DiskIsLog' /\ ~Listed(manifest, active)'
         /\ Len(manifest) + 1 \in DOMAIN seg' /\ seg'[Len(manifest) + 1] = active
<1>1. TypeOK /\ manifest \in Seq(ManifestEntry) /\ Len(manifest) + 1 \in Nat \ {0}
  BY DEF IInv, TypeOK, DiskOK
<1>2. /\ DOMAIN seg' = DOMAIN seg \cup {Len(manifest) + 1} /\ seg'[Len(manifest) + 1] = active
      /\ \A k \in DOMAIN seg : seg'[k] = seg[k]
  BY <1>1, LinkType, Zenon
<1>3. \A k \in DOMAIN manifest : k \in DOMAIN seg /\ seg'[k] = seg[k]
  BY <1>2, Zenon DEF IInv, DiskIsLog
<1>4. ~Listed(manifest, active)'
  <2>1. manifest # <<>> => Len(manifest) \in DOMAIN manifest
    BY <1>1
  <2>2. QED
    BY <1>2, <1>3, <2>1, Zenon DEF Listed
<1>5. Sets'
  BY <1>3, Zenon DEF IInv, Sets
<1>6. ChainIntact'
  BY Zenon DEF IInv, ChainIntact
<1>7. DiskIsLog'
  <2>1. \A k \in DOMAIN manifest :
          /\ k \in DOMAIN seg' /\ files'[seg'[k]] = manifest'[k].sha /\ seg'[k] \notin torn'
          /\ manifest'[k] = Entry(Before(manifest', k), manifest'[k].sha)
          /\ Stores(manifest[k].sha, Base(Before(manifest, k)))'
    BY <1>2, <1>3, Zenon DEF IInv, DiskIsLog, Stores
  <2>2. Stores(files[active], Base(manifest))' /\ Len(log') = Base(manifest') + Len(files'[active'])
    BY Zenon DEF IInv, DiskIsLog, Stores
  <2>3. QED
    BY <1>4, <2>1, <2>2, Zenon DEF DiskIsLog
<1>8. QED
  BY <1>2, <1>4, <1>5, <1>6, <1>7, Zenon

LEMMA SealStep ==
  ASSUME IInv, TypeOK', NEW p \in Procs, Others(p), SealLink(p) \/ SealAppend(p) \/ RotateCopy(p)
  PROVE  IInv'
<1>1. pc[p] \in Writing /\ pc[p] \in Rotating
  BY Zenon DEF SealLink, SealAppend, RotateCopy, Writing, Rotating
<1>2. pc \in [Procs -> Steps] /\ ch \in [Procs -> Chain] /\ manifest \in Seq(ManifestEntry)
  BY Zenon DEF IInv, TypeOK, ProcsOK, DiskOK
<1>3. /\ h[p] = active /\ active # 0 /\ ~Listed(manifest, active) /\ ch[p] = ActiveChain /\ TypeOK
      /\ active \notin torn /\ wk[p] = manifest /\ Ordinal(p) = Len(manifest) + 1 /\ Ordinal(p) \in Nat
      /\ files[active] \in Seq(Line) /\ active \in 1..Len(files)
  BY <1>1, WriterFacts, Zenon DEF IInv
<1>4. UNCHANGED <<op, wk, h, active, manifest, torn>>
  BY Zenon DEF SealLink, SealAppend, RotateCopy
<1>5. /\ SealLink(p) => pc'[p] = "linked" /\ pc[p] = "ready"
      /\ SealAppend(p) => pc'[p] = "sealed" /\ pc[p] = "linked"
      /\ RotateCopy(p) => pc'[p] = "copied" /\ pc[p] = "sealed"
  BY <1>2, Zenon DEF SealLink, SealAppend, RotateCopy, Goto
<1>6. pc'[p] \in Rotating /\ pc'[p] \in Writing
  BY <1>5, Zenon DEF Rotating, Writing
<1>7. Locks' /\ OneRepair' /\ Handles' /\ Walks' /\ Repairs'
  <2>1. Len(manifest) <= Len(manifest')
    BY <1>2, <1>4
  <2>2. QED
    BY <1>1, <1>3, <1>4, <1>6, <2>1, WorkStep, Zenon
<1>8. \A q \in Procs : q # p => pc'[q] \notin Rotating
  BY <1>1, Alone, Zenon DEF Others
<1>9. CASE SealLink(p) \/ RotateCopy(p)
  <2>1. LinkSegment(Len(manifest) + 1) /\ UNCHANGED <<files, torn, active, manifest, log, ch>>
    BY <1>3, <1>9, Zenon DEF SealLink, RotateCopy, history
  <2>2. /\ Sets' /\ ChainIntact' /\ DiskIsLog' /\ ~Listed(manifest, active)'
        /\ Len(manifest) + 1 \in DOMAIN seg' /\ seg'[Len(manifest) + 1] = active
    BY <1>3, <2>1, LinkStep, Zenon
  <2>3. ActiveChain' = ActiveChain
    BY <2>1, Zenon DEF ActiveChain
  <2>4. /\ pc[p] = "ready" => Seals(files[active]) = {}
        /\ pc[p] = "sealed" => files[active] # <<>>
    BY Zenon DEF IInv, Writers
  <2>5. Writers'
    <3>1. pc'[p] \notin {"ready", "sealed", "listed"}
      BY <1>5, <1>9, Zenon
    <3>2. {"ready", "linked", "sealed", "copied", "listed"} \subseteq Rotating /\ Writing \subseteq Rotating
      BY Zenon DEF Rotating, Writing
    <3>3. pc'[p] = "linked" => Seals(files[active]) = {}
      BY <1>5, <1>9, <2>4, Zenon
    <3>4. pc'[p] = "copied" => files[active] # <<>>
      BY <1>5, <1>9, <2>4, Zenon
    <3>5. QED
      BY <1>3, <1>4, <1>8, <2>1, <2>2, <2>3, <3>1, <3>2, <3>3, <3>4, Zenon DEF Writers
  <2>6. QED
    BY <1>7, <2>2, <2>5, Zenon DEF IInv
<1>10. CASE SealAppend(p)
  <2>1. Write(active, SealLine(p)) /\ UNCHANGED <<torn, active, seg, manifest>>
    BY <1>3, <1>10, Zenon DEF SealAppend
  <2>2. SealLine(p) \in Line
    BY <1>3, LineType, Zenon DEF SealLine, History!Acts
  <2>9. ch[p].base = Base(manifest) /\ ch[p].count = Len(files[active])
        /\ ch[p].prev = HeadOf(manifest, files[active])
    BY <1>3, ActiveFields, Zenon
  <2>3. SealLine(p).seq = Base(manifest) + Len(files[active]) + 1
        /\ SealLine(p).prev = HeadOf(manifest, files[active])
    <3>2. SealLine(p).seq = ch[p].base + ch[p].count + 1 /\ SealLine(p).prev = ch[p].prev
      BY Zenon DEF SealLine, NextLine
    <3>3. QED
      BY <2>9, <3>2, Zenon
  <2>4. /\ Sets' /\ ChainIntact' /\ DiskIsLog' /\ ~Listed(manifest, active)'
        /\ files'[active] = Append(files[active], SealLine(p))
    BY <1>3, <2>1, <2>2, <2>3, WriteActive, Zenon
  <2>5. ch'[p] = ActiveChain'
    <3>1. ch'[p] = [base |-> ch[p].base, count |-> ch[p].count + 1, prev |-> SealLine(p).uid]
      BY <1>2, <1>10, Zenon DEF SealAppend
    <3>2. ch'[p] = [base |-> Base(manifest), count |-> Len(files[active]) + 1, prev |-> SealLine(p).uid]
      BY <2>9, <3>1, Zenon
    <3>3. LET t == Append(files[active], SealLine(p))
          IN  t # <<>> /\ Len(t) = Len(files[active]) + 1 /\ t[Len(t)] = SealLine(p)
      BY <1>3, <2>2
    <3>4. HeadOf(manifest, Append(files[active], SealLine(p))) = SealLine(p).uid
      BY <3>3, Zenon DEF HeadOf
    <3>5. ActiveChain' = [base |-> Base(manifest), count |-> Len(Append(files[active], SealLine(p))),
                          prev |-> HeadOf(manifest, Append(files[active], SealLine(p)))]
      BY <2>1, <2>4, Zenon DEF ActiveChain
    <3>6. QED
      BY <3>2, <3>3, <3>4, <3>5, Zenon
  <2>6. files'[active'] # <<>>
    BY <1>3, <2>1, <2>2, <2>4
  <2>7. Writers'
    <3>1. pc'[p] = "sealed"
      BY <1>5, <1>10, Zenon
    <3>2. {"ready", "linked", "sealed", "copied", "listed"} \subseteq Rotating /\ Writing \subseteq Rotating
      BY Zenon DEF Rotating, Writing
    <3>3. QED
      BY <1>3, <1>4, <1>8, <2>4, <2>5, <2>6, <3>1, <3>2, Zenon DEF Writers
  <2>8. QED
    BY <1>7, <2>4, <2>7, Zenon DEF IInv
<1>11. QED
  BY <1>9, <1>10, Zenon

-----------------------------------------------------------------------------
(* The second commit of a rotation, and the swap.                           *)

LEMMA ManifestStep ==
  ASSUME IInv, TypeOK', NEW p \in Procs, Others(p), RotateManifest(p)
  PROVE  IInv'
<1> DEFINE ls == files[active]
           e == Entry(manifest, ls)
           n == Len(manifest)
<1>1. pc[p] = "copied" /\ pc[p] \in Writing /\ pc[p] \in Rotating
  BY Zenon DEF RotateManifest, Writing, Rotating
<1>2. /\ h[p] = active /\ active # 0 /\ ~Listed(manifest, active) /\ active \notin torn
      /\ wk[p] = manifest /\ manifest \in Seq(ManifestEntry) /\ ls \in Seq(Line)
  BY <1>1, WriterFacts, Zenon
<1>3. ls # <<>> /\ n + 1 \in DOMAIN seg /\ seg[n + 1] = active
  BY <1>1, Zenon DEF IInv, Writers
<1>4. manifest' = Append(manifest, e) /\ UNCHANGED <<files, torn, active, seg, log, op, h>>
  BY <1>2, Zenon DEF RotateManifest, SealedLines, history
<1>5. Stores(ls, Base(manifest)) /\ Len(log) = Base(manifest) + Len(ls) /\ Base(manifest) \in Nat
  BY <1>2, BaseType, Zenon DEF IInv, DiskIsLog
<1>6. e \in ManifestEntry
  BY <1>2, <1>3, EntryType, Zenon
<1>7. e.head = Base(manifest) + Len(ls) /\ e.sha = ls
  BY Zenon DEF Entry
<1>8. \A b : Base(b) = Base(manifest) => Entry(b, ls) = e
  BY Zenon DEF Entry
<1> HIDE DEF ls, e
<1>9. /\ Len(manifest') = n + 1 /\ n \in Nat /\ manifest' # <<>> /\ manifest'[n + 1] = e
      /\ DOMAIN manifest' = 1..(n + 1) /\ DOMAIN manifest = 1..n
      /\ \A k \in DOMAIN manifest : manifest'[k] = manifest[k]
  BY <1>2, <1>4, <1>6
<1>10. /\ Base(manifest') = e.head
       /\ \A k \in DOMAIN manifest : Base(Before(manifest', k)) = Base(Before(manifest, k))
       /\ Base(Before(manifest', n + 1)) = Base(manifest)
  BY <1>2, <1>4, <1>6, AppendBase
<1> HIDE DEF n
<1>11. \A k \in DOMAIN manifest : seg[k] # active
  BY <1>2, NotListed, Zenon
<1>12. Listed(manifest, active)'
  BY <1>3, <1>4, <1>9, Zenon DEF Listed
<1>13. pc'[p] = "listed"
  BY Zenon DEF RotateManifest, Goto, IInv, TypeOK, ProcsOK
<1>14. Locks' /\ OneRepair' /\ Handles' /\ Walks' /\ Repairs'
  <2>1. pc'[p] \in Rotating
    BY <1>13, Zenon DEF Rotating
  <2>2. Len(manifest) <= Len(manifest')
    BY <1>9 DEF n
  <2>3. QED
    BY <1>1, <1>2, <1>4, <1>9, <2>1, <2>2, WorkStep, Zenon
<1>15. Writers'
  <2>1. \A q \in Procs : q # p => pc'[q] \notin Rotating
    BY <1>1, Alone, Zenon DEF Others
  <2>2. {"ready", "linked", "sealed", "copied", "listed"} \subseteq Rotating /\ Writing \subseteq Rotating
        /\ "listed" \notin Writing
    BY Zenon DEF Rotating, Writing
  <2>3. QED
    BY <1>2, <1>4, <1>12, <1>13, <2>1, <2>2, Zenon DEF Writers
<1>16. Sets'
  <2>1. ASSUME NEW k \in DOMAIN manifest'
        PROVE  /\ seg[k] = active => k = n + 1
               /\ manifest'[k].sha # <<>> /\ manifest'[k].head <= Base(manifest')
    <3>1. CASE k = n + 1
      BY <1>3, <1>5, <1>7, <1>9, <1>10, <3>1 DEF ls
    <3>2. CASE k # n + 1
      <4>1. k \in DOMAIN manifest
        BY <1>9, <3>2
      <4>2. manifest[k].sha # <<>> /\ manifest[k].head <= Base(manifest) /\ manifest[k] \in ManifestEntry
        BY <1>2, <4>1 DEF IInv, Sets
      <4>3. Base(manifest) <= Base(manifest') /\ Base(manifest') \in Nat
        <5>1. Base(manifest') = Base(manifest) + Len(ls)
          BY <1>7, <1>10, Zenon
        <5>2. Len(ls) \in Nat /\ Base(manifest) \in Nat
          BY <1>2, <1>5
        <5>3. QED
          BY <5>1, <5>2
      <4>4. manifest[k].head <= Base(manifest')
        BY <1>5, <4>2, <4>3 DEF ManifestEntry
      <4>5. QED
        BY <1>9, <1>11, <4>1, <4>2, <4>4, Zenon
    <3>3. QED
      BY <3>1, <3>2, Zenon
  <2>2. QED
    BY <1>4, <1>9, <2>1, Zenon DEF Sets
<1>17. ChainIntact'
  BY <1>4, Zenon DEF IInv, ChainIntact
<1>18. ASSUME NEW k \in DOMAIN manifest'
       PROVE  /\ k \in DOMAIN seg
              /\ files[seg[k]] = manifest'[k].sha /\ seg[k] \notin torn
              /\ manifest'[k] = Entry(Before(manifest', k), manifest'[k].sha)
              /\ Stores(manifest'[k].sha, Base(Before(manifest', k)))
  <2>1. CASE k = n + 1
    <3>1. k \in DOMAIN seg /\ seg[k] = active /\ manifest'[k] = e
      BY <1>3, <1>9, <2>1, Zenon DEF n
    <3>2. Base(Before(manifest', k)) = Base(manifest)
      BY <1>10, <2>1, Zenon
    <3>3. Entry(Before(manifest', k), ls) = e
      BY <1>8, <3>2, Zenon
    <3>4. QED
      BY <1>2, <1>5, <1>7, <3>1, <3>2, <3>3, Zenon DEF ls
  <2>2. CASE k # n + 1
    <3>1. k \in DOMAIN manifest /\ manifest'[k] = manifest[k]
      BY <1>9, <2>2
    <3>2. /\ k \in DOMAIN seg /\ files[seg[k]] = manifest[k].sha /\ seg[k] \notin torn
          /\ manifest[k] = Entry(Before(manifest, k), manifest[k].sha)
          /\ Stores(manifest[k].sha, Base(Before(manifest, k)))
      BY <3>1, Zenon DEF IInv, DiskIsLog
    <3>3. Base(Before(manifest', k)) = Base(Before(manifest, k))
      BY <1>10, <3>1, Zenon
    <3>4. Entry(Before(manifest', k), manifest[k].sha) = Entry(Before(manifest, k), manifest[k].sha)
      BY <3>3, Zenon DEF Entry
    <3>5. QED
      BY <3>1, <3>2, <3>3, <3>4, Zenon
  <2>3. QED
    BY <2>1, <2>2, Zenon
<1>19. DiskIsLog'
  <2>1. Len(log') = Base(manifest')
    BY <1>4, <1>5, <1>7, <1>10, Zenon
  <2>2. QED
    BY <1>4, <1>12, <1>18, <2>1, Zenon DEF DiskIsLog, Stores
<1>20. QED
  BY <1>14, <1>15, <1>16, <1>17, <1>19, Zenon DEF IInv

(* The active name is bound to a fresh, empty file behind the last listed  *)
(* segment, or in the place of a file without a line of the chain.         *)
LEMMA FreshActive ==
  ASSUME IInv, files' = Append(files, EmptyFile), active' = Len(files) + 1,
         active = 0 \/ Listed(manifest, active) \/ files[active] = <<>>, UNCHANGED <<torn, seg, manifest, log>>
  PROVE  Sets' /\ ChainIntact' /\ DiskIsLog' /\ active' # 0
<1>1. TypeOK /\ manifest \in Seq(ManifestEntry) /\ Len(files) \in Nat
  BY DEF IInv, TypeOK, DiskOK
<1>2. /\ \A j \in 1..Len(files) : files'[j] = files[j]
      /\ files'[Len(files) + 1] = <<>>
  BY <1>1, NewFileType, Zenon
<1>3. \A k \in DOMAIN manifest : k \in DOMAIN seg /\ seg[k] \in 1..Len(files) /\ seg[k] # active'
  <2>1. \A k \in DOMAIN manifest : k \in DOMAIN seg /\ seg[k] \in 1..Len(files)
    BY Zenon DEF IInv, DiskIsLog, TypeOK, DiskOK
  <2>2. active' \notin 1..Len(files)
    BY <1>1
  <2>3. QED
    BY <2>1, <2>2, Zenon
<1>4. Sets'
  BY <1>3, Zenon DEF IInv, Sets
<1>5. ChainIntact'
  BY Zenon DEF IInv, ChainIntact
<1>6. ~Listed(manifest, active)'
  <2>1. manifest # <<>> => Len(manifest) \in DOMAIN manifest
    BY <1>1
  <2>2. QED
    BY <1>3, <2>1, Zenon DEF Listed
<1>7. Len(log) = Base(manifest) /\ Base(manifest) \in Nat
  <2>1. Base(manifest) \in Nat
    BY <1>1, BaseType, Zenon
  <2>2. Len(log) = Base(manifest) \/ (files[active] = <<>> /\ Len(log) = Base(manifest) + Len(files[active]))
    BY Zenon DEF IInv, DiskIsLog
  <2>3. QED
    BY <2>1, <2>2
<1>8. Stores(files[active], Base(manifest))' /\ Len(log') = Base(manifest') + Len(files'[active'])
  BY <1>2, <1>7 DEF Stores
<1>9. \A k \in DOMAIN manifest' :
        /\ k \in DOMAIN seg'
        /\ files'[seg'[k]] = manifest'[k].sha /\ seg'[k] \notin torn'
        /\ manifest'[k] = Entry(Before(manifest', k), manifest'[k].sha)
        /\ Stores(manifest[k].sha, Base(Before(manifest, k)))'
  BY <1>2, <1>3, Zenon DEF IInv, DiskIsLog, Stores
<1>10. active' # 0
  BY <1>1
<1>11. DiskIsLog'
  BY <1>6, <1>8, <1>9, <1>10, Zenon DEF DiskIsLog
<1>12. QED
  BY <1>4, <1>5, <1>10, <1>11, Zenon

LEMMA SwapStep ==
  ASSUME IInv, TypeOK', NEW p \in Procs, Others(p), RotateSwap(p)
  PROVE  IInv'
<1>1. pc[p] = "listed" /\ pc[p] \in Rotating
  BY Zenon DEF RotateSwap, Rotating
<1>2. Listed(manifest, active)
  BY <1>1, Zenon DEF IInv, Writers
<1>3. files' = Append(files, EmptyFile) /\ active' = Len(files) + 1 /\ UNCHANGED <<torn, seg, manifest, log>>
  BY Zenon DEF RotateSwap, history
<1>4. Sets' /\ ChainIntact' /\ DiskIsLog' /\ active' # 0
  BY <1>2, <1>3, FreshActive, Zenon
<1>5. pc'[p] \in {"idle", "start"} /\ (op'[p] = "none" \/ (op'[p] = "repairAppend" /\ op[p] = "repairComplete"))
  <2>1. pc \in [Procs -> Steps] /\ op \in [Procs -> OpKinds \cup RepairOps \cup {"none"}]
    BY Zenon DEF IInv, TypeOK, ProcsOK
  <2>2. QED
    BY <2>1, Zenon DEF RotateSwap, Leave, Goto
<1>6. Locks' /\ OneRepair' /\ Handles' /\ Walks' /\ Repairs' /\ Writers'
  <2>1. op'[p] \notin {"read", "repair"} /\ (op'[p] \in RepairOps => op[p] \in RepairOps)
    BY <1>5, Zenon DEF RepairOps
  <2>2. pc'[p] \notin Rotating
    BY <1>5, Zenon DEF Rotating, Writing
  <2>3. manifest \in Seq(ManifestEntry) /\ manifest' = manifest
    BY <1>3, Zenon DEF IInv, TypeOK, DiskOK
  <2>4. Len(manifest) <= Len(manifest')
    BY <2>3
  <2>5. QED
    BY <1>1, <1>3, <1>4, <1>5, <2>1, <2>2, <2>4, WorkStep, Zenon
<1>7. QED
  BY <1>4, <1>6, Zenon DEF IInv

LEMMA OpenStep ==
  ASSUME IInv, TypeOK', NEW p \in Procs, Others(p), OpenForAppend(p)
  PROVE  IInv'
<1>1. pc \in [Procs -> Steps] /\ h \in [Procs -> 0..Len(files)] /\ pc' \in [Procs -> Steps]
      /\ manifest \in Seq(ManifestEntry)
  BY Zenon DEF IInv, TypeOK, ProcsOK, DiskOK
<1>2. pc[p] = "walked" /\ pc'[p] = "opened" /\ h'[p] = active'
      /\ UNCHANGED <<torn, seg, manifest, log, op, wk, ch>>
  BY <1>1, Zenon DEF OpenForAppend, Goto, history
<1>3. active' # 0
  <2>1. Len(files) \in Nat
    BY DEF IInv, TypeOK, DiskOK
  <2>2. Len(files) + 1 # 0
    BY <2>1
  <2>3. QED
    BY <2>2, Zenon DEF OpenForAppend
<1>4. Locks' /\ OneRepair'
  <2>1. pc'[p] \notin Exclusive \cup {"shared"}
    BY <1>2, Zenon DEF Exclusive
  <2>2. QED
    BY <1>1, <1>2, <2>1, LocksStep, OneRepairStep, Zenon
<1>5. Handles'
  BY <1>2, <1>3, HandlesStep, Zenon
<1>6. Walks'
  <2>1. Len(wk[p]) <= Len(manifest) /\ \A k \in DOMAIN wk[p] : wk[p][k] = manifest[k]
    BY <1>2, Zenon DEF IInv, Walks, Walking
  <2>2. QED
    BY <1>1, <1>2, <2>1, WalksStep
<1>7. pc'[p] \notin Rotating /\ pc'[p] \notin Repairing
  BY <1>2, Zenon DEF Rotating, Writing, Repairing
<1>8. CASE active # 0
  <2>1. UNCHANGED Core
    BY <1>2, <1>8, Zenon DEF OpenForAppend, Core
  <2>2. Writers' /\ Repairs' /\ Sets' /\ ChainIntact' /\ DiskIsLog'
    BY <1>7, <2>1, WritersFrame, RepairsFrame, CoreFrame, Zenon
  <2>3. QED
    BY <1>4, <1>5, <1>6, <2>2, Zenon DEF IInv
<1>9. CASE active = 0
  <2>1. files' = Append(files, EmptyFile) /\ active' = Len(files) + 1
    BY <1>9, Zenon DEF OpenForAppend
  <2>2. Sets' /\ ChainIntact' /\ DiskIsLog'
    BY <1>2, <1>9, <2>1, FreshActive, Zenon
  <2>3. \A q \in Procs : pc[q] \notin Rotating /\ pc[q] \notin Repairing
    BY <1>9, Zenon DEF IInv, Writers, Repairs, Handles
  <2>4. Writers' /\ Repairs'
    BY <1>7, <2>3, AloneStep, Zenon
  <2>5. QED
    BY <1>4, <1>5, <1>6, <2>2, <2>4, Zenon DEF IInv
<1>10. QED
  BY <1>8, <1>9, Zenon

-----------------------------------------------------------------------------
(* The truncation of a repair.                                              *)

LEMMA TruncateStep ==
  ASSUME IInv, TypeOK', NEW p \in Procs, Others(p), Truncate(p)
  PROVE  IInv'
<1> DEFINE ls == files[active]
           c == ch[p].count
           b == Base(manifest)
<1>1. pc[p] = "fragged" /\ pc[p] \in Repairing
  BY Zenon DEF Truncate, Repairing
<1>2. /\ op[p] = "repair" /\ ~Listed(manifest, active) /\ c <= Len(ls) /\ h[p] = active
      /\ \A q \in Procs : pc[q] \notin Rotating
  BY <1>1, Zenon DEF IInv, Repairs
<1>3. /\ active \in 1..Len(files) /\ active # 0 /\ ls \in Seq(Line) /\ manifest \in Seq(ManifestEntry)
      /\ files \in Seq(Seq(Line)) /\ log \in Seq(Line) /\ c \in Nat /\ Len(ls) \in Nat
  <2>1. /\ active \in 1..Len(files) /\ active # 0 /\ ls \in Seq(Line) /\ manifest \in Seq(ManifestEntry)
    BY <1>1, <1>2, ReaderFacts, Zenon
  <2>2. files \in Seq(Seq(Line)) /\ log \in Seq(Line)
    BY Zenon DEF IInv, TypeOK, DiskOK, HistoryOK
  <2>3. ch[p] \in Chain
    BY Zenon DEF IInv, TypeOK, ProcsOK
  <2>4. c \in Nat
    BY <2>3, Zenon DEF Chain
  <2>5. QED
    BY <2>1, <2>2, <2>4
<1>4. /\ files' = [files EXCEPT ![active] = SubSeq(ls, 1, c)] /\ torn' = torn \ {active}
      /\ log' = SubSeq(log, 1, Len(log) - Len(CutOff(p)))
      /\ UNCHANGED <<active, seg, manifest>>
  BY <1>2, Zenon DEF Truncate
<1>5. pc'[p] = "start" /\ op'[p] \in {"repairAppend", "repairComplete"}
  <2>1. pc \in [Procs -> Steps] /\ op \in [Procs -> OpKinds \cup RepairOps \cup {"none"}]
    BY Zenon DEF IInv, TypeOK, ProcsOK
  <2>2. QED
    BY <2>1, Zenon DEF Truncate, Goto
<1>6. Stores(ls, b) /\ Len(log) = b + Len(ls) /\ b \in Nat
  BY <1>2, <1>3, BaseType, Zenon DEF IInv, DiskIsLog
<1>7. Len(CutOff(p)) = Len(ls) - c
  BY <1>2, <1>3 DEF CutOff
<1> HIDE DEF ls, c, b
<1>8. Len(log) - Len(CutOff(p)) = b + c /\ b + c \in 0..Len(log)
  BY <1>2, <1>3, <1>6, <1>7
<1>9. Len(log') = b + c /\ \A j \in 1..(b + c) : log'[j] = log[j]
  <2>1. log' = SubSeq(log, 1, b + c) /\ log \in Seq(Line)
    BY <1>3, <1>4, <1>8, Zenon
  <2>2. b + c \in 0..Len(log)
    BY <1>8, Zenon
  <2>3. QED
    BY <2>1, <2>2
<1>10. log' \in Seq(Line)
  BY Zenon DEF TypeOK, HistoryOK
<1>11. \A k \in DOMAIN manifest : seg[k] # active
  BY <1>2, NotListed, Zenon
<1>12. \A j \in 1..Len(files) : files'[j] = IF j = active THEN SubSeq(ls, 1, c) ELSE files[j]
  BY <1>3, <1>4
<1>13. Locks' /\ OneRepair'
  <2>1. pc'[p] \notin Exclusive \cup {"shared"} /\ pc' \in [Procs -> Steps]
    BY <1>5, Zenon DEF Exclusive, TypeOK, ProcsOK
  <2>2. op[p] \in RepairOps
    BY <1>2, Zenon DEF RepairOps
  <2>3. QED
    BY <2>1, <2>2, LocksStep, OneRepairStep, Zenon
<1>14. Handles'
  BY <1>3, <1>4, <1>5, HandlesStep, Zenon
<1>15. Walks'
  <2>1. pc'[p] \notin Walking
    BY <1>5, Zenon DEF Walking
  <2>2. QED
    BY <1>3, <1>4, <2>1, WalksStep
<1>16. Repairs' /\ Writers'
  <2>1. \A q \in Procs : q # p => pc[q] \notin Repairing
    BY <1>2, Zenon DEF IInv, OneRepair, Repairs, RepairOps
  <2>2. pc'[p] \notin Rotating /\ pc'[p] \notin Repairing
    BY <1>5, Zenon DEF Rotating, Writing, Repairing
  <2>3. QED
    BY <1>2, <2>1, <2>2, AloneStep, Zenon
<1>17. Sets'
  BY <1>4, Zenon DEF IInv, Sets
<1>18. ChainIntact'
  <2>1. ASSUME NEW k \in DOMAIN log'
        PROVE  log'[k].seq = k /\ log'[k].prev = (IF k = 1 THEN 0 ELSE log'[k - 1].uid)
    <3>1. k \in 1..(b + c) /\ k \in DOMAIN log
      BY <1>3, <1>8, <1>9, <1>10
    <3>2. log'[k] = log[k] /\ (k # 1 => log'[k - 1] = log[k - 1])
      BY <1>3, <1>6, <1>9, <3>1
    <3>3. QED
      BY <3>1, <3>2, Zenon DEF IInv, ChainIntact
  <2>2. QED
    BY <2>1, Zenon DEF ChainIntact
<1>19. ~Listed(manifest, active)'
  BY <1>2, <1>4, Zenon DEF Listed
<1>20. ASSUME NEW k \in DOMAIN manifest
       PROVE  /\ k \in DOMAIN seg' /\ files'[seg'[k]] = manifest'[k].sha /\ seg'[k] \notin torn'
              /\ manifest'[k] = Entry(Before(manifest', k), manifest'[k].sha)
              /\ Stores(manifest[k].sha, Base(Before(manifest, k)))'
  <2> DEFINE sha == manifest[k].sha
             a == Base(Before(manifest, k))
  <2>1. /\ k \in DOMAIN seg /\ files[seg[k]] = sha /\ seg[k] \notin torn
        /\ manifest[k] = Entry(Before(manifest, k), sha) /\ Stores(sha, a)
    BY <1>20, Zenon DEF IInv, DiskIsLog
  <2>2. seg[k] # active /\ seg[k] \in 1..Len(files)
    BY <1>11, <1>20, <2>1, Zenon DEF IInv, TypeOK, DiskOK
  <2>3. manifest[k] \in ManifestEntry /\ Before(manifest, k) \in Seq(ManifestEntry)
    BY <1>3, <1>20 DEF Before
  <2>4. sha \in Seq(Line) /\ a \in Nat
    BY <2>3, BaseType, Zenon DEF ManifestEntry
  <2>5. manifest[k].head = a + Len(sha) /\ manifest[k].head <= b
    <3>1. manifest[k].head = a + Len(sha)
      BY <2>1, EntryFields, Zenon
    <3>2. manifest[k].head <= b
      BY <1>20, Zenon DEF IInv, Sets, b
    <3>3. QED
      BY <3>1, <3>2, Zenon
  <2> HIDE DEF sha, a
  <2>6. a + Len(sha) <= b + c /\ \A j \in DOMAIN sha : a + j \in 1..(b + c)
    <3>1. Len(sha) \in Nat /\ DOMAIN sha = 1..Len(sha) /\ a \in Nat
      BY <2>4
    <3>2. b \in Nat /\ c \in Nat
      BY <1>3, <1>6
    <3>3. a + Len(sha) <= b
      BY <2>5, Zenon
    <3>4. QED
      BY <3>1, <3>2, <3>3
  <2>7. a + Len(sha) <= Len(log') /\ \A j \in DOMAIN sha : sha[j] = log'[a + j]
    BY <1>9, <2>1, <2>6, Zenon DEF Stores
  <2>8. Stores(manifest[k].sha, Base(Before(manifest, k)))'
    BY <1>4, <2>7, Zenon DEF Stores, sha, a
  <2>9. QED
    BY <1>4, <1>12, <2>1, <2>2, <2>8, Zenon DEF sha
<1>21. Stores(files[active], Base(manifest))' /\ Len(log') = Base(manifest') + Len(files'[active'])
  <2> DEFINE t == SubSeq(ls, 1, c)
  <2>1. Len(t) = c /\ DOMAIN t = 1..c /\ \A j \in 1..c : t[j] = ls[j] /\ j \in DOMAIN ls
    BY <1>2, <1>3, SMTT(60) DEF c, ls
  <2> HIDE DEF t
  <2>2. files'[active'] = t /\ Base(manifest') = b
    BY <1>3, <1>4, <1>12, Zenon DEF b, t
  <2>3. \A j \in 1..c : t[j] = log'[b + j]
    <3>1. \A j \in 1..c : t[j] = log[b + j]
      BY <1>6, <2>1, Zenon DEF Stores
    <3>2. \A j \in 1..c : b + j \in 1..(b + c)
      BY <1>3, <1>6
    <3>3. QED
      BY <1>9, <3>1, <3>2, Zenon
  <2>4. b + Len(t) = Len(log') /\ Len(log') \in Nat
    BY <1>3, <1>6, <1>9, <2>1
  <2>5. Stores(files[active], Base(manifest))'
    BY <2>1, <2>2, <2>3, <2>4 DEF Stores
  <2>6. QED
    BY <2>2, <2>4, <2>5, Zenon
<1>22. DiskIsLog'
  BY <1>3, <1>4, <1>19, <1>20, <1>21, Zenon DEF DiskIsLog
<1>23. QED
  BY <1>13, <1>14, <1>15, <1>16, <1>17, <1>18, <1>22, Zenon DEF IInv

-----------------------------------------------------------------------------
(* The environment.                                                         *)

(* A listed segment is not empty. *)
LEMMA EmptyNotListed ==
  ASSUME IInv, active # 0, files[active] = <<>>
  PROVE  \A k \in DOMAIN manifest : seg[k] # active
<1>1. \A k \in DOMAIN manifest : files[seg[k]] = manifest[k].sha /\ manifest[k].sha # <<>>
  BY Zenon DEF IInv, DiskIsLog, Sets
<1>2. QED
  BY <1>1, Zenon

LEMMA StillStep ==
  ASSUME IInv, TypeOK', UNCHANGED <<Core, procs>>
  PROVE  IInv'
<1>1. UNCHANGED <<files, torn, active, seg, manifest, log, pc, op, wk, h, ch>>
  BY Zenon DEF Core, procs
<1>2. /\ Listed(manifest, active)' = Listed(manifest, active) /\ ActiveChain' = ActiveChain
      /\ Damaged' = Damaged /\ Sets' /\ ChainIntact' /\ DiskIsLog'
  BY <1>1, CoreFrame, Zenon DEF Core
<1>3. Locks' /\ OneRepair' /\ Handles' /\ Walks'
  BY <1>1, Zenon DEF IInv, Locks, OneRepair, Handles, Walks
<1>4. Writers'
  BY <1>1, <1>2, Zenon DEF IInv, Writers
<1>5. Repairs'
  BY <1>1, <1>2, Zenon DEF IInv, Repairs
<1>6. QED
  BY <1>2, <1>3, <1>4, <1>5, Zenon DEF IInv

(* An older binary only adds to a damage that keeps this one's writers     *)
(* out, tears a file that is still empty, or writes outside the chain.     *)
LEMMA OlderStep ==
  ASSUME IInv, TypeOK', OlderAppend
  PROVE  IInv'
<1> DEFINE ls == files[active]
           sealed == manifest = <<>> /\ Seals(ls) # {}
<1> SUFFICES ASSUME ~UNCHANGED Core
             PROVE  IInv'
  BY StillStep, Zenon DEF OlderAppend, Core
<1>1. /\ active # 0 /\ UNCHANGED <<active, seg, manifest, procs>>
      /\ ~\E q \in Procs : HoldsEx(q, active) \/ HoldsSh(q, active)
      /\ \/ sealed /\ Write(active, OlderLine(ls)) /\ UNCHANGED torn
         \/ (sealed \/ ls = <<>>) /\ torn' = torn \cup {active} /\ UNCHANGED <<files, log>>
  BY Zenon DEF OlderAppend, OlderLine, Core
<1>2. UNCHANGED <<pc, op, wk, h, ch>>
  BY <1>1, Zenon DEF procs
<1>3. ls \in Seq(Line) /\ active \in 1..Len(files)
  BY <1>1 DEF IInv, TypeOK, DiskOK
<1>4. ~Listed(manifest, active) /\ ~Listed(manifest, active)'
  <2>1. CASE sealed
    BY <1>1, <2>1, Zenon DEF Listed
  <2>2. CASE ls = <<>>
    <3>1. manifest # <<>> => Len(manifest) \in DOMAIN manifest
      BY DEF IInv, TypeOK, DiskOK
    <3>2. QED
      BY <1>1, <2>2, <3>1, EmptyNotListed, Zenon DEF Listed
  <2>3. QED
    BY <1>1, <2>1, <2>2, Zenon
<1>5. \A q \in Procs : pc[q] \notin Rotating
  <2>1. Rotating \subseteq Exclusive
    BY Zenon DEF Rotating, Writing, Exclusive
  <2>2. QED
    BY <1>1, <2>1, Zenon DEF HoldsEx, IInv, Writers
<1>6. Locks' /\ OneRepair' /\ Handles' /\ Walks'
  BY <1>1, <1>2, Zenon DEF IInv, Locks, OneRepair, Handles, Walks
<1>7. Writers'
  <2>1. {"ready", "linked", "sealed", "copied", "listed"} \subseteq Rotating /\ Writing \subseteq Rotating
    BY Zenon DEF Rotating, Writing
  <2>2. QED
    BY <1>2, <1>5, <2>1, Zenon DEF Writers
<1>8. /\ Sets' /\ ChainIntact' /\ DiskIsLog' /\ Damaged'
      /\ Len(ls) \in Nat /\ Len(ls') \in Nat /\ Len(ls) <= Len(ls')
  <2>1. CASE sealed /\ Write(active, OlderLine(ls)) /\ UNCHANGED torn
    <3>1. Len(ls) + 1 \in Nat /\ HeadOf(manifest, ls) \in Nat /\ lines + 1 \in Nat
      <4>1. manifest \in Seq(ManifestEntry) /\ lines \in Nat
        BY Zenon DEF IInv, TypeOK, DiskOK, HistoryOK
      <4>2. HeadOf(manifest, ls) \in Nat
        BY <1>3, <4>1, HeadType, Zenon
      <4>3. QED
        BY <1>3, <4>1, <4>2
    <3>2. OlderLine(ls) \in Line
      BY <3>1, Zenon DEF OlderLine, Line, History!Line, History!Acts
    <3>3. OlderLine(ls).seq = Base(manifest) + Len(ls) + 1 /\ OlderLine(ls).prev = HeadOf(manifest, ls)
      <4>1. Base(manifest) = 0 /\ Len(ls) \in Nat
        BY <1>3, <2>1 DEF Base
      <4>2. OlderLine(ls).seq = Len(ls) + 1 /\ OlderLine(ls).prev = HeadOf(manifest, ls)
        BY Zenon DEF OlderLine
      <4>3. QED
        BY <4>1, <4>2
    <3>4. /\ Sets' /\ ChainIntact' /\ DiskIsLog'
          /\ files'[active] = Append(ls, OlderLine(ls))
      BY <1>1, <1>4, <2>1, <3>2, <3>3, WriteActive, Zenon
    <3>5. Len(Append(ls, OlderLine(ls))) = Len(ls) + 1 /\ Len(ls) \in Nat
          /\ DOMAIN Append(ls, OlderLine(ls)) = 1..(Len(ls) + 1)
          /\ \A k \in DOMAIN ls : k \in 1..Len(ls) /\ Append(ls, OlderLine(ls))[k] = ls[k]
      BY <1>3, <3>2
    <3>6. PICK k \in Seals(ls) : TRUE
      BY <2>1, Zenon
    <3>7. k \in DOMAIN ls /\ ls[k].act = "seal"
      BY <3>6, Zenon DEF Seals
    <3>8. k \in Seals(Append(ls, OlderLine(ls))) /\ k < Len(ls) + 1
      BY <3>5, <3>7 DEF Seals
    <3>9. files'[active'] = Append(ls, OlderLine(ls))
      BY <1>1, <3>4, Zenon
    <3>10. Damaged'
      BY <3>5, <3>8, <3>9, Zenon DEF Damaged
    <3>11. QED
      BY <3>4, <3>5, <3>9, <3>10
  <2>2. CASE torn' = torn \cup {active} /\ UNCHANGED <<files, log>>
    <3>1. Sets' /\ ChainIntact'
      BY <1>1, <2>2, Zenon DEF IInv, Sets, ChainIntact
    <3>2. \A k \in DOMAIN manifest : seg[k] # active
      BY <1>4, NotListed, Zenon
    <3>3. DiskIsLog'
      <4>1. /\ UNCHANGED <<files, log, manifest, seg, active>> /\ torn' = torn \cup {active}
            /\ DiskIsLog
        BY <1>1, <2>2, Zenon DEF IInv
      <4>2. QED
        BY <3>2, <4>1, Zenon DEF DiskIsLog, Listed, Stores
    <3>4. Damaged' /\ Len(ls) \in Nat /\ ls' = ls
      BY <1>1, <1>3, <2>2 DEF Damaged
    <3>5. Len(ls) <= Len(ls')
      BY <3>4
    <3>6. QED
      BY <3>1, <3>3, <3>4, <3>5
  <2>3. QED
    BY <1>1, <2>1, <2>2, Zenon
<1>9. Repairs'
  <2>1. ASSUME NEW q \in Procs, pc[q] \in Repairing
        PROVE  ch[q].count <= Len(ls')
    <3>1. ch[q].count <= Len(ls) /\ ch[q] \in Chain
      BY <2>1, Zenon DEF IInv, Repairs, TypeOK, ProcsOK
    <3>2. QED
      BY <1>8, <3>1 DEF Chain
  <2>2. QED
    BY <1>1, <1>2, <1>4, <1>5, <1>8, <2>1, Zenon DEF IInv, Repairs
<1>10. QED
  BY <1>6, <1>7, <1>8, <1>9, Zenon DEF IInv

(* The file an older binary began is moved aside: no process relies on it. *)
LEMMA MoveStep ==
  ASSUME IInv, Foreign, TypeOK', MoveAside
  PROVE  IInv'
<1>1. /\ active \in foreign /\ ~Listed(manifest, active)
      /\ files' = Append(files, EmptyFile) /\ active' = Len(files) + 1
      /\ UNCHANGED <<torn, seg, manifest, log, pc, op, wk, h, ch>>
  BY Zenon DEF MoveAside, procs, history
<1>2. files[active] = <<>> /\ active \notin torn
  BY <1>1, Zenon DEF Foreign
<1>3. Sets' /\ ChainIntact' /\ DiskIsLog' /\ active' # 0
  BY <1>1, <1>2, FreshActive, Zenon
<1>4. \A q \in Procs : pc[q] \notin Rotating
  BY <1>1, Zenon DEF Foreign, Rotating, IInv, Writers
<1>5. \A q \in Procs : pc[q] \notin Repairing
  <2>1. Seals(files[active]) = {}
    BY <1>2 DEF Seals
  <2>2. ~Damaged
    BY <1>2, <2>1, Zenon DEF Damaged
  <2>3. QED
    BY <2>2, Zenon DEF IInv, Repairs
<1>6. Locks' /\ OneRepair' /\ Handles' /\ Walks'
  BY <1>1, <1>3, Zenon DEF IInv, Locks, OneRepair, Handles, Walks
<1>7. Writers' /\ Repairs'
  <2>1. {"ready", "linked", "sealed", "copied", "listed"} \subseteq Rotating /\ Writing \subseteq Rotating
    BY Zenon DEF Rotating, Writing
  <2>2. QED
    BY <1>1, <1>4, <1>5, <2>1, Zenon DEF Writers, Repairs
<1>8. QED
  BY <1>3, <1>6, <1>7, Zenon DEF IInv

-----------------------------------------------------------------------------
(* What an older binary wrote outside the chain.                            *)

LEMMA ForeignKept ==
  ASSUME Foreign, foreign' \subseteq foreign, foreign' \cap torn' = {},
         \A k \in DOMAIN manifest' : seg'[k] \in foreign' => k = 1,
         \/ active' \notin foreign'
         \/ /\ UNCHANGED <<files, active, seg, manifest>>
            /\ \A q \in Procs : pc'[q] \in Writing => pc[q] \in Writing
  PROVE  Foreign'
<1>1. (foreign' # {} => OlderWriter) /\ foreign' \cap torn' = {}
  BY Zenon DEF Foreign
<1>2. active' \in foreign' => manifest' # <<>> /\ (Listed(manifest, active)' \/ files'[active'] = <<>>)
  BY Zenon DEF Foreign, Listed
<1>3. \A q \in Procs : pc'[q] \in Writing => active' \notin foreign'
  BY Zenon DEF Foreign
<1>4. QED
  BY <1>1, <1>2, <1>3, Zenon DEF Foreign

(* No step changes the files, or a process comes to write. *)
LEMMA ForeignFrame ==
  ASSUME Foreign, UNCHANGED <<files, torn, foreign, active, seg, manifest>>,
         \A q \in Procs : pc'[q] \in Writing => pc[q] \in Writing \/ active \notin foreign
  PROVE  Foreign'
<1>1. CASE active \notin foreign
  BY <1>1, ForeignKept, Zenon DEF Foreign
<1>2. CASE active \in foreign
  BY <1>2, ForeignKept, Zenon DEF Foreign
<1>3. QED
  BY <1>1, <1>2, Zenon

(* A step writes to an active that no older binary wrote to. *)
LEMMA ForeignWrite ==
  ASSUME Foreign, active \notin foreign, torn' \subseteq torn \cup {active},
         UNCHANGED <<foreign, active, manifest>>, \A k \in DOMAIN manifest : seg'[k] = seg[k]
  PROVE  Foreign'
  BY ForeignKept, Zenon DEF Foreign

(* The active name is bound to a new file. *)
LEMMA ForeignFresh ==
  ASSUME IInv, Foreign, active' = Len(files) + 1, UNCHANGED <<torn, foreign, seg, manifest>>
  PROVE  Foreign'
<1>1. foreign \subseteq DOMAIN files /\ files \in Seq(Seq(Line))
  BY Zenon DEF IInv, TypeOK, DiskOK
<1>2. active' \notin foreign
  BY <1>1
<1>3. QED
  BY <1>2, ForeignKept, Zenon DEF Foreign

(* A repair never meets lines of no chain: what it read is damage of its   *)
(* own kinds.                                                              *)
LEMMA RepairNotForeign ==
  ASSUME IInv, Foreign, NEW p \in Procs, pc[p] \in Repairing
  PROVE  active \notin foreign
<1>1. ~Listed(manifest, active) /\ Damaged
  BY Zenon DEF IInv, Repairs
<1>2. Seals(<<>>) = {}
  BY DEF Seals
<1>3. QED
  BY <1>1, <1>2, Zenon DEF Foreign, Damaged

LEMMA ForeignOlder ==
  ASSUME IInv, Foreign, OlderAppend
  PROVE  Foreign'
<1>1. /\ OlderWriter /\ active # 0 /\ active \notin torn \cup foreign
      /\ UNCHANGED <<active, seg, manifest, pc>>
      /\ ~\E q \in Procs : HoldsEx(q, active) \/ HoldsSh(q, active)
  BY Zenon DEF OlderAppend, procs
<1>2. CASE foreign' = foreign /\ (torn' = torn \/ torn' = torn \cup {active})
  <2>1. torn' \subseteq torn \cup {active}
    BY <1>2, Zenon
  <2>2. QED
    BY <1>1, <1>2, <2>1, ForeignWrite, Zenon
<1>3. CASE /\ manifest # <<>> /\ (files[active] = <<>> \/ (Len(manifest) = 1 /\ Listed(manifest, active)))
           /\ foreign' = foreign \cup {active} /\ UNCHANGED <<files, torn>>
  <2>1. \A k \in DOMAIN manifest : seg[k] = active => k = 1
    <3>1. CASE files[active] = <<>>
      BY <1>1, <3>1, EmptyNotListed, Zenon
    <3>2. CASE Len(manifest) = 1
      <4>1. manifest \in Seq(ManifestEntry)
        BY Zenon DEF IInv, TypeOK, DiskOK
      <4>2. QED
        BY <3>2, <4>1
    <3>3. QED
      BY <1>3, <3>1, <3>2, Zenon
  <2>2. \A k \in DOMAIN manifest' : seg'[k] \in foreign' => k = 1
    BY <1>1, <1>3, <2>1, Zenon DEF Foreign
  <2>3. \A q \in Procs : pc[q] \notin Writing
    <3>1. Writing \subseteq Exclusive /\ Writing \subseteq Rotating
      BY Zenon DEF Rotating, Writing, Exclusive
    <3>2. QED
      BY <1>1, <3>1, Zenon DEF HoldsEx, IInv, Writers
  <2>4. foreign' \cap torn' = {} /\ (foreign' # {} => OlderWriter)
    <3>1. foreign \cap torn = {} /\ active \notin torn /\ foreign' = foreign \cup {active} /\ torn' = torn
      BY <1>1, <1>3, Zenon DEF Foreign
    <3>2. \A i \in foreign : i \notin torn
      BY <3>1, Zenon
    <3>3. \A i \in foreign' : i \notin torn'
      BY <3>1, <3>2, Zenon
    <3>4. foreign' \cap torn' = {}
      BY <3>3, Zenon
    <3>5. QED
      BY <1>1, <3>4, Zenon
  <2>5. active' \in foreign' => manifest' # <<>> /\ (Listed(manifest, active)' \/ files'[active'] = <<>>)
    BY <1>1, <1>3, Zenon DEF Listed
  <2>6. QED
    BY <1>1, <2>2, <2>3, <2>4, <2>5, Zenon DEF Foreign
<1>4. QED
  BY <1>2, <1>3, Zenon DEF OlderAppend, Listed

LEMMA InitForeign == Init => Foreign
<1> SUFFICES ASSUME Init
             PROVE  Foreign
  BY Zenon
<1>1. manifest = <<>> /\ foreign = {} /\ torn = {}
  BY Zenon DEF Init
<1>2. DOMAIN manifest = {}
  BY <1>1
<1>3. QED
  BY <1>1, <1>2, Zenon DEF Foreign

LEMMA ForeignStep ==
  ASSUME IInv, Foreign, [Next]_vars
  PROVE  Foreign'
<1> DEFINE Still == UNCHANGED <<files, torn, foreign, active, seg, manifest>>
<1>1. CASE UNCHANGED vars \/ SetPosture
  BY <1>1, ForeignFrame, Zenon DEF vars, disk, procs, SetPosture
<1>2. CASE OlderAppend
  BY <1>2, ForeignOlder, Zenon
<1>3. CASE MoveAside
  BY <1>3, ForeignFresh, Zenon DEF MoveAside
<1>4. CASE RestoreSegment
  BY <1>4, ForeignKept, Zenon DEF RestoreSegment, Foreign, procs
<1>5. ASSUME NEW p \in Procs, (\E o \in Ops : Invoke(p, o)) \/ Work(p) \/ Fails(p)
      PROVE  Foreign'
  <2>1. /\ Others(p) /\ pc \in [Procs -> Steps] /\ op \in [Procs -> OpKinds \cup RepairOps \cup {"none"}]
        /\ pc[p] \in Writing => active \notin foreign /\ h[p] = active
    BY <1>5, OthersStep, Zenon DEF IInv, TypeOK, ProcsOK, Foreign, Writers, Rotating
  <2>2. CASE Still /\ (pc'[p] \in Writing => pc[p] \in Writing \/ active \notin foreign)
    BY <2>1, <2>2, ForeignFrame, Zenon DEF Others
  <2>3. CASE Still /\ Leave(p)
    BY <2>1, <2>2, <2>3, Zenon DEF Leave, Writing
  <2>4. CASE (\E o \in Ops : Invoke(p, o)) \/ Fails(p)
    <3>1. CASE AppendTorn(p)
      BY <2>1, <3>1, ForeignWrite, Zenon DEF AppendTorn, Writing
    <3>2. CASE \E o \in Ops : Invoke(p, o)
      BY <2>1, <2>2, <3>2, Zenon DEF Invoke, Goto, Writing, disk
    <3>3. QED
      BY <2>3, <2>4, <3>1, <3>2, Zenon DEF Fails, Busy, RotateCopyFails, RepairCopyFails, Crash, disk
  <2>5. CASE LockActive(p)
    <3>1. CASE Admit(p)
      <4>1. h[p] = active /\ wk[p] = manifest
        BY <3>1, ConfirmedWalk, Zenon DEF Admit
      <4>2. pc'[p] \in Writing => Verdict(manifest, active) \in {"open", "sealed"}
        BY <2>1, <3>1, <4>1, Zenon DEF Admit, Acceptable, ActiveVerdict, Goto, Writing
      <4>3. QED
        BY <2>2, <3>1, <4>2, VerdictFacts, Zenon DEF Admit, disk
    <3>2. CASE OpenForAppend(p)
      <4>1. CASE active' = active
        BY <2>1, <2>2, <3>2, <4>1, ForeignFresh, Zenon DEF OpenForAppend, Goto, Writing
      <4>2. QED
        BY <3>2, <4>1, ForeignFresh, Zenon DEF OpenForAppend
    <3>3. CASE Walk(p) \/ LockExclusive(p) \/ (Stale(p) /\ try[p] < Attempts)
      BY <2>1, <2>2, <3>3, Zenon DEF Walk, LockExclusive, Stale, Retry, Goto, Writing, disk
    <3>4. QED
      BY <2>3, <2>5, <3>1, <3>2, <3>3, Zenon DEF LockActive, WalkFails, Refuse, Stale, Retry, disk
  <2>6. CASE AppendEvent(p)
    BY <2>1, <2>6, ForeignWrite, Zenon DEF AppendEvent, Writing
  <2>7. CASE SealAppend(p)
    BY <2>1, <2>7, ForeignWrite, Zenon DEF SealAppend, Writing
  <2>8. CASE SealLink(p) \/ RotateCopy(p)
    <3>1. pc[p] \in Writing /\ LinkSegment(Len(manifest) + 1)
      BY <2>8, Zenon DEF SealLink, RotateCopy, Writing, IInv, Writers, Ordinal
    <3>2. \A k \in DOMAIN manifest : seg'[k] = seg[k]
      <4>1. manifest \in Seq(ManifestEntry) /\ \A k \in DOMAIN manifest : k \in DOMAIN seg
        BY Zenon DEF IInv, TypeOK, DiskOK, DiskIsLog
      <4>2. \A k \in DOMAIN manifest : k # Len(manifest) + 1
        BY <4>1
      <4>3. QED
        BY <3>1, <4>1, <4>2 DEF LinkSegment
    <3>3. QED
      BY <2>1, <2>8, <3>1, <3>2, ForeignWrite, Zenon DEF SealLink, RotateCopy
  <2>9. CASE RotateManifest(p)
    <3>1. pc[p] = "copied" /\ UNCHANGED <<files, torn, foreign, active, seg>>
          /\ \E e : manifest' = Append(manifest, e)
      BY <2>9, Zenon DEF RotateManifest, IInv, Writers, Writing
    <3>2. PICK e : manifest' = Append(manifest, e)
      BY <3>1, Zenon
    <3>3. seg[Len(manifest) + 1] = active /\ active \notin foreign
      BY <2>1, <3>1, Zenon DEF IInv, Writers, Writing
    <3>4. \A k \in DOMAIN manifest' : k \in DOMAIN manifest \/ k = Len(manifest) + 1
      <4>1. manifest \in Seq(ManifestEntry) /\ manifest' \in Seq(ManifestEntry)
        BY <1>5, TypeStep, Zenon DEF IInv, TypeOK, DiskOK
      <4>2. QED
        BY <3>2, <4>1
    <3>5. QED
      BY <3>1, <3>3, <3>4, ForeignKept, Zenon DEF Foreign
  <2>10. CASE RotateSwap(p)
    BY <2>10, ForeignFresh, Zenon DEF RotateSwap
  <2>11. CASE Read(p)
    BY <2>1, <2>2, <2>3, <2>11, Zenon
       DEF Read, OpenByName, LockShared, ReadStale, Retry, ReadDone, Goto, Writing, disk
  <2>12. CASE Repair(p)
    <3>1. CASE Truncate(p)
      <4>1. pc[p] \in Repairing /\ h[p] = active
        BY <3>1, Zenon DEF Truncate, Repairing, IInv, Repairs
      <4>2. QED
        BY <3>1, <4>1, RepairNotForeign, ForeignWrite, Zenon DEF Truncate
    <3>2. QED
      BY <2>1, <2>2, <2>3, <2>12, <3>1, Zenon
         DEF Repair, RepairRead, RepairCopy, OpenForRepair, MoveTailAside, WriteTornFragment, RepairRefuse,
             Goto, Writing, disk
  <2>13. QED
    BY <1>5, <2>4, <2>5, <2>6, <2>7, <2>8, <2>9, <2>10, <2>11, <2>12, Zenon DEF Work, SealActive, Rotate
<1>6. QED
  BY <1>1, <1>2, <1>3, <1>4, <1>5, Zenon DEF Next

-----------------------------------------------------------------------------
(* The invariant, and what it is for.                                       *)

LEMMA InitIInv == Init => IInv
<1> SUFFICES ASSUME Init
             PROVE  IInv
  BY Zenon
<1>1. DiskOK
  BY DEF Init, DiskOK
<1>2. ProcsOK
  BY DEF Init, ProcsOK, Steps, Attempts, NoChain, Chain
<1>3. HistoryOK
  BY DEF Init, HistoryOK
<1>4. Locks /\ OneRepair /\ Handles
  BY Zenon DEF Init, Locks, OneRepair, Handles, Exclusive, RepairOps
<1>5. Walks /\ Writers /\ Repairs
  BY Zenon DEF Init, Walks, Writers, Repairs, Walking, Rotating, Writing, Repairing
<1>6. Sets /\ ChainIntact
  BY DEF Init, Sets, ChainIntact
<1>7. DiskIsLog
  BY DEF Init, DiskIsLog, Base
<1>8. QED
  BY <1>1, <1>2, <1>3, <1>4, <1>5, <1>6, <1>7, Zenon DEF IInv, TypeOK

LEMMA NextIInv == IInv /\ Foreign /\ [Next]_vars => IInv'
<1> SUFFICES ASSUME IInv, Foreign, [Next]_vars
             PROVE  IInv'
  BY Zenon
<1>1. TypeOK'
  BY TypeStep, Zenon
<1>2. CASE UNCHANGED vars
  BY <1>1, <1>2, StillStep, Zenon DEF vars, disk, history, Core
<1>3. CASE SetPosture \/ RestoreSegment
  BY <1>1, <1>3, StillStep, Zenon DEF SetPosture, RestoreSegment, history, Core
<1>4. CASE OlderAppend \/ MoveAside
  BY <1>1, <1>4, OlderStep, MoveStep, Zenon
<1>5. ASSUME NEW p \in Procs, (\E o \in Ops : Invoke(p, o)) \/ Work(p) \/ Fails(p)
      PROVE  IInv'
  <2>1. Others(p)
    BY <1>5, OthersStep, Zenon
  <2>2. CASE (\E o \in Ops : Invoke(p, o)) \/ Fails(p)
    BY <1>1, <2>1, <2>2, QuietSteps, AppendStep, Zenon DEF Fails
  <2>3. CASE LockActive(p)
    BY <1>1, <2>1, <2>3, QuietSteps, LockSteps, AdmitStep, OpenStep, Zenon DEF LockActive
  <2>4. CASE AppendEvent(p) \/ SealActive(p) \/ Rotate(p)
    BY <1>1, <2>1, <2>4, AppendStep, SealStep, ManifestStep, SwapStep, Zenon DEF SealActive, Rotate
  <2>5. CASE Read(p)
    BY <1>1, <2>1, <2>5, QuietSteps, LockSteps, Zenon DEF Read
  <2>6. CASE Repair(p)
    BY <1>1, <2>1, <2>6, QuietSteps, RepairSteps, TruncateStep, Zenon DEF Repair, MoveTailAside
  <2>7. QED
    BY <1>5, <2>2, <2>3, <2>4, <2>5, <2>6, Zenon DEF Work
<1>6. QED
  BY <1>2, <1>3, <1>4, <1>5, Zenon DEF Next

(* IInv and Foreign are together an inductive invariant of the ledger, for *)
(* every set of processes and every bound on faults and commands, whether  *)
(* or not an older binary shares the root.                                 *)
THEOREM Invariance == Spec => [](IInv /\ Foreign)
<1>1. Init => IInv /\ Foreign
  BY InitIInv, InitForeign, Zenon
<1>2. IInv /\ Foreign /\ [Next]_vars => (IInv /\ Foreign)'
  BY NextIInv, ForeignStep, Zenon
<1>3. QED
  BY <1>1, <1>2, PTL DEF Spec

(* Every variable of the ledger keeps its type, and every name and handle  *)
(* of a process is bound to a file that exists.                            *)
THEOREM TypeCorrect == Spec => []TypeOK
<1>1. IInv => TypeOK
  BY Zenon DEF IInv
<1>2. QED
  BY <1>1, Invariance, PTL

(* However many writers, rotations, repairs and crashes interleave, the    *)
(* lines written carry the positions 1, 2, 3 ... and each the hash of the  *)
(* line before it: the chain never forks (lockActive, Chain.Append).       *)
THEOREM ChainNeverForks == Spec => []ChainIntact
<1>1. IInv => ChainIntact
  BY Zenon DEF IInv
<1>2. QED
  BY <1>1, Invariance, PTL

(* At every instant the chain's lines in the listed segment files are      *)
(* exactly those the manifest digested, and the active has the rest of     *)
(* them (rotate, writeManifest, swapActive, moveTailAside).                *)
THEOREM SetIsTheChain == Spec => []DiskIsLog
<1>1. IInv => DiskIsLog
  BY Zenon DEF IInv
<1>2. QED
  BY <1>1, Invariance, PTL

=============================================================================
