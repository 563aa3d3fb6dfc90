------------------------ MODULE ControlLedgerPromises ------------------------
(***************************************************************************)
(* What the segmented control ledger promises its users, for any number of *)
(* processes, commands and faults: it implements the abstract history of   *)
(* ControlHistory, nothing acknowledged is lost, every segment that owes a *)
(* protected copy has it, a rotation is never read as damage, and the set  *)
(* always reads as one of the states the commands know.  They follow from  *)
(* a second inductive invariant, on top of IInv: what may follow a seal,   *)
(* which protected copies are owed and which exist, and what a repair cuts *)
(* and has preserved.                                                      *)
(***************************************************************************)
EXTENDS ControlLedgerProofs

-----------------------------------------------------------------------------
(* The invariant, on top of IInv.                                           *)

(* In a file, only an older binary's lines follow a seal, and those lines  *)
(* are nowhere else.                                                       *)
WellSealed(ls) ==
  /\ \A k \in Seals(ls) : \A j \in DOMAIN ls : j > k => ls[j].act = "older"
  /\ \A j \in DOMAIN ls : ls[j].act = "older" => \E k \in Seals(ls) : k < j

SealsLast == \A i \in DOMAIN files : WellSealed(files[i])

(* A listed segment ends in its one seal, which names its ordinal; the     *)
(* active's seal names the next one.                                       *)
ListedSealed ==
  \A k \in DOMAIN manifest :
    LET ls == manifest[k].sha
    IN  Seals(ls) = {Len(ls)} /\ ls[Len(ls)].seg = k

Open == active # 0 /\ ~Listed(manifest, active)

ActiveMarked ==
  Open => \A k \in Seals(files[active]) : files[active][k].seg = Len(manifest) + 1

(* The only segment name the manifest does not list is the next one, a     *)
(* second name of the active.                                              *)
Names ==
  \A k \in DOMAIN seg : k \in DOMAIN manifest \/ (k = Len(manifest) + 1 /\ Open /\ seg[k] = active)

(* The copies that are owed, and no others. *)
Owed ==
  \A k \in DOMAIN manifest :
    LET ls == manifest[k].sha IN ls[Len(ls)].worm => k \in DOMAIN copies

Copied ==
  \A n \in DOMAIN copies :
    IF n \in DOMAIN manifest THEN copies[n] = manifest[n].sha
    ELSE n = Len(manifest) + 1 /\ Open /\ \E k \in Seals(files[active]) : copies[n] = SubSeq(files[active], 1, k)

(* The lines written carry 1, 2, 3 ... as their hash, and each is in the   *)
(* chain or in a fragment.                                                 *)
Numbered ==
  /\ \A k \in DOMAIN log : log[k].uid \in 1..lines
  /\ aside \subseteq 1..lines
  /\ \A u \in 1..lines : u \in aside \/ \E k \in DOMAIN log : log[k].uid = u

(* What was acknowledged or published is in the chain, and not one of the  *)
(* lines a repair may cut off.                                             *)
Published ==
  /\ \A u \in acked : \E k \in DOMAIN log : log[k].uid = u /\ log[k].act # "older"
  /\ \A x \in heads : x.seq > 0 => x.seq \in DOMAIN log /\ log[x.seq].uid = x.uid /\ log[x.seq].act # "older"

Kept == SealsLast /\ ListedSealed /\ ActiveMarked /\ Names /\ Owed /\ Copied /\ Numbered /\ Published

(* A rotation carries one sealed segment, and its copy once it is past it. *)
Rotations == \A p \in Procs :
  /\ pc[p] \in {"sealed", "copied"} => Seals(files[active]) = {Len(files[active])}
  /\ pc[p] = "copied" /\ files[active][Len(files[active])].worm => Len(manifest) + 1 \in DOMAIN copies

(* A repair cuts behind the seal, else nothing but the torn end, and has   *)
(* preserved what it cuts.                                                 *)
Cuts(p) == SubSeq(files[active], ch[p].count + 1, Len(files[active]))

Cutting == \A p \in Procs : pc[p] \in Repairing =>
  /\ wk[p] = manifest
  /\ CutsAt(files[active], ch[p].count)
  /\ Seals(files[active]) = {} => active \in torn
  /\ pc[p] = "rcopy" => ch[p].count \in Seals(files[active]) /\ pre[p] = SubSeq(files[active], 1, ch[p].count)
  /\ pc[p] = "fragged" => History!Uids(Cuts(p)) \subseteq aside

(* The bytes a repair remembers as confirmed have a copy. *)
Confirmations == \A p \in Procs :
  pre[p] # <<>> /\ pc[p] # "rcopy" => pre[p][Len(pre[p])].seg \in DOMAIN copies

PInv == Kept /\ Rotations /\ Cutting /\ Confirmations

(* An active that has a segment name, or is about to get one, is not       *)
(* empty: the file an older binary's genesis is moved aside with has none. *)
Linked ==
  /\ \A p \in Procs : pc[p] = "ready" /\ op[p] = "seal" => files[active] # <<>>
  /\ Len(manifest) + 1 \in DOMAIN seg => files[active] # <<>>

-----------------------------------------------------------------------------
(* Frames.                                                                  *)

Shelf == <<files, torn, active, seg, manifest, copies, log, acked, aside, heads, lines>>

LEMMA KeptFrame ==
  ASSUME Kept, UNCHANGED Shelf
  PROVE  Kept'
<1>1. UNCHANGED <<files, torn, active, seg, manifest, copies, log, acked, aside, heads, lines>>
  BY Zenon DEF Shelf
<1>2. Open' = Open
  BY <1>1, Zenon DEF Open, Listed
<1>3. SealsLast' /\ ListedSealed' /\ ActiveMarked' /\ Names'
  BY <1>1, <1>2, Zenon DEF Kept, SealsLast, ListedSealed, ActiveMarked, Names
<1>4. Owed' /\ Copied'
  BY <1>1, <1>2, Zenon DEF Kept, Owed, Copied
<1>5. Numbered' /\ Published'
  BY <1>1, Zenon DEF Kept, Numbered, Published
<1>6. QED
  BY <1>3, <1>4, <1>5, Zenon DEF Kept

(* A step of p leaves what the other processes confirmed alone. *)
OthersPre(p) == \A q \in Procs : q # p => pre'[q] = pre[q]

LEMMA OthersPreStep ==
  ASSUME IInv, NEW p \in Procs, (\E o \in Ops : Invoke(p, o)) \/ Work(p) \/ Fails(p)
  PROVE  OthersPre(p)
<1> USE DEF OthersPre, Leave
<1>1. pre \in [Procs -> Seq(Line)]
  BY Zenon DEF IInv, TypeOK, ProcsOK
<1>2. CASE \E o \in Ops : Invoke(p, o)
  BY <1>1, <1>2, Zenon DEF Invoke
<1>3. CASE LockActive(p)
  BY <1>1, <1>3, Zenon DEF LockActive, Walk, WalkFails, OpenForAppend, LockExclusive, Stale, Retry, Refuse, Admit
<1>4. CASE AppendEvent(p)
  BY <1>1, <1>4, Zenon DEF AppendEvent
<1>5. CASE SealActive(p) \/ Rotate(p)
  BY <1>1, <1>5, Zenon DEF SealActive, Rotate, SealLink, SealAppend, RotateCopy, RotateManifest, RotateSwap
<1>6. CASE Read(p)
  BY <1>1, <1>6, Zenon DEF Read, OpenByName, LockShared, ReadStale, Retry, ReadDone
<1>7. CASE Repair(p)
  BY <1>1, <1>7, Zenon DEF Repair, RepairRead, RepairCopy, OpenForRepair, MoveTailAside, WriteTornFragment, RepairRefuse, Truncate
<1>8. CASE Fails(p)
  BY <1>1, <1>8, Zenon DEF Fails, Busy, AppendTorn, RotateCopyFails, RepairCopyFails, Crash
<1>9. QED
  BY <1>2, <1>3, <1>4, <1>5, <1>6, <1>7, <1>8, Zenon DEF Work

(* The steps of p that leave the active and the manifest alone. *)
LEMMA ProcFrame ==
  ASSUME PInv, NEW p \in Procs, Others(p), OthersPre(p), UNCHANGED <<files, torn, active, manifest>>,
         DOMAIN copies \subseteq DOMAIN copies', aside \subseteq aside',
         pc'[p] \in {"sealed", "copied"} => Seals(files[active]) = {Len(files[active])},
         pc'[p] = "copied" /\ files[active][Len(files[active])].worm => Len(manifest) + 1 \in DOMAIN copies',
         pc'[p] \in Repairing =>
           /\ wk'[p] = manifest
           /\ CutsAt(files[active], ch'[p].count)
           /\ Seals(files[active]) = {} => active \in torn
           /\ pc'[p] = "rcopy" => /\ ch'[p].count \in Seals(files[active])
                                  /\ pre'[p] = SubSeq(files[active], 1, ch'[p].count)
           /\ pc'[p] = "fragged" => History!Uids(Cuts(p)') \subseteq aside',
         pre'[p] # <<>> /\ pc'[p] # "rcopy" => pre'[p][Len(pre'[p])].seg \in DOMAIN copies'
  PROVE  Rotations' /\ Cutting' /\ Confirmations'
<1>1. Rotations'
  <2>1. ASSUME NEW q \in Procs
        PROVE  /\ pc'[q] \in {"sealed", "copied"} => Seals(files[active]) = {Len(files[active])}
               /\ pc'[q] = "copied" /\ files[active][Len(files[active])].worm => Len(manifest) + 1 \in DOMAIN copies'
    <3>1. CASE q = p
      BY <3>1, Zenon
    <3>2. CASE q # p
      <4>1. pc'[q] = pc[q]
        BY <3>2, Zenon DEF Others
      <4>2. QED
        BY <4>1, Zenon DEF PInv, Rotations
    <3>3. QED
      BY <3>1, <3>2, Zenon
  <2>2. QED
    BY <2>1, Zenon DEF Rotations
<1>2. Confirmations'
  BY Zenon DEF PInv, Confirmations, Others, OthersPre
<1>3. ASSUME NEW q \in Procs, pc'[q] \in Repairing
      PROVE  /\ wk'[q] = manifest'
             /\ CutsAt(files'[active'], ch'[q].count)
             /\ Seals(files'[active']) = {} => active' \in torn'
             /\ pc'[q] = "rcopy" => /\ ch'[q].count \in Seals(files'[active'])
                                    /\ pre'[q] = SubSeq(files'[active'], 1, ch'[q].count)
             /\ pc'[q] = "fragged" => History!Uids(Cuts(q)') \subseteq aside'
  <2>1. CASE q = p
    BY <1>3, <2>1, Zenon
  <2>2. CASE q # p
    <3>1. pc'[q] = pc[q] /\ wk'[q] = wk[q] /\ ch'[q] = ch[q] /\ pre'[q] = pre[q]
      BY <2>2, Zenon DEF Others, OthersPre
    <3>2. Cuts(q)' = Cuts(q)
      BY <3>1, Zenon DEF Cuts
    <3>3. QED
      BY <1>3, <3>1, <3>2, Zenon DEF PInv, Cutting
  <2>3. QED
    BY <2>1, <2>2, Zenon
<1>4. QED
  BY <1>1, <1>2, <1>3, Zenon DEF Cutting

(* Steps that are of no concern to the promises: the process ends, starts, *)
(* starts over, walks, opens or locks.                                     *)
LEMMA QuietProcs ==
  ASSUME IInv, PInv, NEW p \in Procs, Others(p), OthersPre(p), UNCHANGED Shelf,
         pc'[p] \notin {"sealed", "copied", "rcopy"},
         pc'[p] \in Repairing => pc[p] \in Repairing /\ wk'[p] = wk[p] /\ ch'[p] = ch[p] /\ pc'[p] # "fragged",
         pre'[p] = <<>> \/ (pre'[p] = pre[p] /\ pc[p] # "rcopy")
  PROVE  PInv'
<1>1. UNCHANGED <<files, torn, active, manifest, copies, aside>>
  BY Zenon DEF Shelf
<1>2. Kept'
  BY KeptFrame, Zenon DEF PInv
<1>3. pc[p] \in Repairing => /\ wk[p] = manifest /\ CutsAt(files[active], ch[p].count)
                             /\ Seals(files[active]) = {} => active \in torn
  BY Zenon DEF PInv, Cutting
<1>4. pre[p] # <<>> /\ pc[p] # "rcopy" => pre[p][Len(pre[p])].seg \in DOMAIN copies
  BY Zenon DEF PInv, Confirmations
<1>5. Rotations' /\ Cutting' /\ Confirmations'
  BY <1>1, <1>3, <1>4, ProcFrame, Zenon
<1>6. QED
  BY <1>2, <1>5, Zenon DEF PInv

LEMMA QuietPromises ==
  ASSUME IInv, PInv, NEW p \in Procs, Others(p), OthersPre(p),
         \/ WalkFails(p) \/ Busy(p) \/ Refuse(p) \/ RepairRefuse(p) \/ RotateCopyFails(p) \/ RepairCopyFails(p)
         \/ Crash(p) \/ Stale(p) \/ ReadStale(p) \/ \E o \in Ops : Invoke(p, o)
         \/ Walk(p) \/ LockExclusive(p) \/ LockShared(p) \/ OpenByName(p) \/ OpenForRepair(p)
  PROVE  PInv'
<1>1. pc \in [Procs -> Steps] /\ pre \in [Procs -> Seq(Line)]
  BY Zenon DEF IInv, TypeOK, ProcsOK
<1>2. UNCHANGED Shelf
  BY Zenon DEF Shelf, disk, history, WalkFails, Busy, Refuse, RepairRefuse, RotateCopyFails, RepairCopyFails, Crash,
         Stale, ReadStale, Invoke, Walk, LockExclusive, LockShared, OpenByName, OpenForRepair
<1>3. {"idle", "start", "walked", "locked", "ropened", "shared"} \cap Repairing = {}
      /\ {"cut", "xopened", "xlocked"} \subseteq Repairing
  BY Zenon DEF Repairing
<1>4. CASE Leave(p)
  <2>1. pc'[p] = "idle" /\ pre'[p] = <<>>
    BY <1>1, <1>4, Zenon DEF Leave
  <2>2. QED
    BY <1>2, <1>3, <2>1, QuietProcs, Zenon
<1>5. CASE (Stale(p) \/ ReadStale(p)) /\ ~Leave(p)
  <2>1. pc[p] \in {"locked", "shared"} /\ pc'[p] = "start" /\ pre'[p] = pre[p]
    BY <1>1, <1>5, Zenon DEF Stale, ReadStale, Retry, Goto
  <2>2. QED
    BY <1>2, <1>3, <2>1, QuietProcs, Zenon
<1>6. CASE \E o \in Ops : Invoke(p, o)
  <2>1. pc[p] = "idle" /\ pc'[p] = "start" /\ pre'[p] = pre[p]
    BY <1>1, <1>6, Zenon DEF Invoke, Goto
  <2>2. QED
    BY <1>2, <1>3, <2>1, QuietProcs, Zenon
<1>7. CASE Walk(p) \/ LockShared(p) \/ OpenByName(p)
  <2>1. /\ pc[p] \in {"start", "ropened"} /\ pc'[p] \in {"walked", "shared", "ropened"} /\ pre'[p] = pre[p]
    BY <1>1, <1>7, Zenon DEF Walk, LockShared, OpenByName, Goto
  <2>2. QED
    BY <1>2, <1>3, <2>1, QuietProcs, Zenon
<1>8. CASE LockExclusive(p)
  <2>1. /\ pc[p] \in {"opened", "xopened"} /\ pre'[p] = pre[p] /\ wk'[p] = wk[p] /\ ch'[p] = ch[p]
        /\ pc'[p] = (IF pc[p] = "opened" THEN "locked" ELSE "xlocked")
    BY <1>1, <1>8, Zenon DEF LockExclusive, Goto
  <2>2. QED
    BY <1>2, <1>3, <2>1, QuietProcs, Zenon
<1>9. CASE OpenForRepair(p)
  <2>1. pc[p] = "cut" /\ pre'[p] = pre[p] /\ wk'[p] = wk[p] /\ ch'[p] = ch[p] /\ pc'[p] = "xopened"
    BY <1>1, <1>9, Zenon DEF OpenForRepair, Goto
  <2>2. QED
    BY <1>2, <1>3, <2>1, QuietProcs, Zenon
<1>10. QED
  BY <1>4, <1>5, <1>6, <1>7, <1>8, <1>9, Zenon
     DEF WalkFails, Busy, Refuse, RepairRefuse, RotateCopyFails, RepairCopyFails, Crash

(* A verdict on which a rotation is taken up finds exactly one seal, last. *)
LEMMA SealedVerdict ==
  ASSUME IInv, active # 0, Verdict(manifest, active) = "sealed"
  PROVE  Seals(files[active]) = {Len(files[active])}
<1>1. FinishActive(manifest, files[active]) = "sealed"
  BY Zenon DEF Verdict
<1>2. Seals(files[active]) # {} /\ ~\E k \in Seals(files[active]) : k < Len(files[active])
  BY <1>1, Zenon DEF FinishActive
<1>3. files[active] \in Seq(Line)
  BY DEF IInv, TypeOK, DiskOK
<1>4. \A k \in Seals(files[active]) : k \in 1..Len(files[active]) /\ Len(files[active]) \in Nat
  BY <1>3 DEF Seals
<1>5. QED
  BY <1>2, <1>4

LEMMA AdmitPromises ==
  ASSUME IInv, PInv, NEW p \in Procs, Others(p), OthersPre(p), Admit(p)
  PROVE  PInv'
<1>1. pc \in [Procs -> Steps] /\ UNCHANGED Shelf /\ UNCHANGED <<files, torn, active, manifest, copies, aside, pre>>
  BY Zenon DEF IInv, TypeOK, ProcsOK, Shelf, disk, history, Admit
<1>2. wk[p] = manifest /\ h[p] = active /\ active # 0 /\ pc[p] = "locked"
  BY ConfirmedWalk, Zenon DEF Admit
<1>3. /\ pc'[p] \in {"ready", "sealed", "listed"}
      /\ pc'[p] = "sealed" => Verdict(manifest, active) = "sealed"
  BY <1>1, <1>2, Zenon DEF Admit, Goto, ActiveVerdict
<1>4. pc'[p] = "sealed" => Seals(files[active]) = {Len(files[active])}
  BY <1>2, <1>3, SealedVerdict, Zenon
<1>5. pc'[p] \notin Repairing /\ pc'[p] # "copied"
  BY <1>3, Zenon DEF Repairing
<1>6. pre[p] # <<>> => pre[p][Len(pre[p])].seg \in DOMAIN copies
  BY <1>2, Zenon DEF PInv, Confirmations
<1>7. Rotations' /\ Cutting' /\ Confirmations'
  BY <1>1, <1>4, <1>5, <1>6, ProcFrame, Zenon
<1>8. Kept'
  BY <1>1, KeptFrame, Zenon DEF PInv
<1>9. QED
  BY <1>7, <1>8, Zenon DEF PInv

(* A repair decides where it cuts. *)
LEMMA RepairReadPromises ==
  ASSUME IInv, PInv, NEW p \in Procs, Others(p), OthersPre(p), RepairRead(p)
  PROVE  PInv'
<1> DEFINE ls == files[active]
<1>1. /\ pc \in [Procs -> Steps] /\ wk \in [Procs -> Seq(ManifestEntry)] /\ ch \in [Procs -> Chain]
      /\ pre \in [Procs -> Seq(Line)]
  BY Zenon DEF IInv, TypeOK, ProcsOK
<1>2. UNCHANGED Shelf /\ UNCHANGED <<files, torn, active, manifest, copies, aside>>
  BY Zenon DEF Shelf, disk, history, RepairRead
<1>3. pc[p] = "shared" /\ h[p] = active /\ Verdict(manifest, active) \in Repairable /\ wk'[p] = manifest
  BY <1>1, Zenon DEF RepairRead, SameFile, ReadVerdict
<1>4. ls \in Seq(Line)
  BY <1>3, ReaderFacts, Zenon
<1>5. Seals(ls) = {} => active \in torn
  BY <1>3, VerdictFacts, Zenon DEF Damaged
<1> DEFINE block(k) == k > 0 /\ ls[k].act = "seal" /\ ls[k].worm
<1>6. PICK k \in 0..Len(ls) :
        /\ CutsAt(ls, k)
        /\ ch' = [ch EXCEPT ![p] = [base |-> Base(manifest), count |-> k,
                                    prev |-> HeadOf(manifest, SubSeq(ls, 1, k))]]
        /\ pre' = [pre EXCEPT ![p] = IF block(k) THEN SubSeq(ls, 1, k) ELSE <<>>]
        /\ Goto(p, IF block(k) THEN "rcopy" ELSE "cut")
  BY <1>3, Zenon DEF RepairRead
<1>7. ch'[p].count = k
  <2>1. ch'[p] = [base |-> Base(manifest), count |-> k, prev |-> HeadOf(manifest, SubSeq(ls, 1, k))]
    BY <1>1, <1>6, Zenon
  <2>2. QED
    BY <2>1
<1>8. /\ pre'[p] = (IF block(k) THEN SubSeq(ls, 1, k) ELSE <<>>)
      /\ pc'[p] = (IF block(k) THEN "rcopy" ELSE "cut")
  BY <1>1, <1>6, Zenon DEF Goto
<1>9. block(k) => k \in Seals(ls)
  BY <1>4, <1>6 DEF Seals
<1>10. Rotations' /\ Cutting' /\ Confirmations'
  BY <1>2, <1>3, <1>5, <1>6, <1>7, <1>8, <1>9, ProcFrame, Zenon
<1>11. QED
  BY <1>2, <1>10, KeptFrame, Zenon DEF PInv

-----------------------------------------------------------------------------
(* Writing.                                                                 *)

LEMMA AppendSeals ==
  ASSUME NEW ls \in Seq(Line), NEW l \in Line
  PROVE  /\ Seals(Append(ls, l)) = Seals(ls) \cup (IF l.act = "seal" THEN {Len(ls) + 1} ELSE {})
         /\ \A k \in Seals(ls) : k \in 1..Len(ls) /\ Append(ls, l)[k] = ls[k]
         /\ \A k \in 0..Len(ls) : SubSeq(Append(ls, l), 1, k) = SubSeq(ls, 1, k)
<1> DEFINE t == Append(ls, l)
<1>1. /\ t \in Seq(Line) /\ Len(t) = Len(ls) + 1 /\ DOMAIN t = 1..(Len(ls) + 1) /\ DOMAIN ls = 1..Len(ls)
      /\ Len(ls) \in Nat /\ t[Len(ls) + 1] = l /\ \A k \in 1..Len(ls) : t[k] = ls[k]
  OBVIOUS
<1> HIDE DEF t
<1>2. Seals(t) = Seals(ls) \cup (IF l.act = "seal" THEN {Len(ls) + 1} ELSE {})
  BY <1>1 DEF Seals
<1>3. \A k \in Seals(ls) : k \in 1..Len(ls) /\ t[k] = ls[k]
  BY <1>1, Zenon DEF Seals
<1>4. ASSUME NEW k \in 0..Len(ls)
      PROVE  SubSeq(t, 1, k) = SubSeq(ls, 1, k)
  <2>1. /\ SubSeq(t, 1, k) \in Seq(Line) /\ SubSeq(ls, 1, k) \in Seq(Line)
        /\ Len(SubSeq(t, 1, k)) = k /\ Len(SubSeq(ls, 1, k)) = k
    BY <1>1
  <2>2. \A j \in 1..k : SubSeq(t, 1, k)[j] = t[j] /\ SubSeq(ls, 1, k)[j] = ls[j] /\ j \in 1..Len(ls)
    BY <1>1
  <2>3. QED
    BY <1>1, <2>1, <2>2, SameElements, Zenon
<1>5. QED
  BY <1>2, <1>3, <1>4, Zenon DEF t

(* The lines this binary and an older one may add to a file. *)
MayFollow(ls, l) ==
  \/ Seals(ls) = {} /\ l.act # "older"
  \/ Seals(ls) # {} /\ l.act = "older"

LEMMA AppendWellSealed ==
  ASSUME NEW ls \in Seq(Line), NEW l \in Line, WellSealed(ls), MayFollow(ls, l)
  PROVE  WellSealed(Append(ls, l))
<1> DEFINE t == Append(ls, l)
<1>1. /\ DOMAIN t = 1..(Len(ls) + 1) /\ DOMAIN ls = 1..Len(ls)
      /\ Len(ls) \in Nat /\ t[Len(ls) + 1] = l /\ \A k \in 1..Len(ls) : t[k] = ls[k]
  OBVIOUS
<1>2. Seals(t) = Seals(ls) \cup (IF l.act = "seal" THEN {Len(ls) + 1} ELSE {})
      /\ \A k \in Seals(ls) : k \in 1..Len(ls)
  BY AppendSeals, Zenon
<1> HIDE DEF t
<1>3. ASSUME NEW k \in Seals(t), NEW j \in DOMAIN t, j > k
      PROVE  t[j].act = "older"
  <2>1. k \in Seals(ls)
    BY <1>1, <1>2, <1>3
  <2>2. l.act = "older"
    BY <2>1, Zenon DEF MayFollow
  <2>3. CASE j = Len(ls) + 1
    BY <1>1, <2>2, <2>3
  <2>4. CASE j \in 1..Len(ls)
    BY <1>1, <1>3, <2>1, <2>4, Zenon DEF WellSealed
  <2>5. QED
    BY <1>1, <1>3, <2>3, <2>4
<1>4. ASSUME NEW j \in DOMAIN t, t[j].act = "older"
      PROVE  \E k \in Seals(t) : k < j
  <2>1. CASE j = Len(ls) + 1
    <3>1. Seals(ls) # {}
      BY <1>1, <1>4, <2>1, Zenon DEF MayFollow
    <3>2. QED
      BY <1>1, <1>2, <2>1, <3>1
  <2>2. CASE j \in 1..Len(ls)
    <3>1. PICK k \in Seals(ls) : k < j
      BY <1>1, <1>4, <2>2, Zenon DEF WellSealed
    <3>2. QED
      BY <1>2, <3>1, Zenon
  <2>3. QED
    BY <1>1, <1>4, <2>1, <2>2
<1>5. QED
  BY <1>3, <1>4, Zenon DEF WellSealed, t

(* A line written to the active, under a fresh hash, breaks no promise. *)
LEMMA WriteKept ==
  ASSUME IInv, PInv, Open, NEW l \in Line, Write(active, l), l.uid = lines + 1,
         MayFollow(files[active], l), l.act = "seal" => l.seg = Len(manifest) + 1,
         UNCHANGED <<active, seg, manifest, copies, aside, heads>>,
         acked' = acked \/ (acked' = acked \cup {l.uid} /\ l.act # "older")
  PROVE  Kept' /\ files'[active] = Append(files[active], l)
<1> DEFINE ls == files[active]
<1>1. /\ active \in 1..Len(files) /\ DOMAIN files = 1..Len(files) /\ log \in Seq(Line) /\ lines \in Nat /\ TypeOK
      /\ aside \subseteq Nat /\ acked \subseteq Nat
  BY DEF Open, IInv, TypeOK, DiskOK, HistoryOK
<1>2. ls \in Seq(Line) /\ Kept /\ Open
  BY <1>1 DEF TypeOK, DiskOK, PInv
<1>3. /\ \A j \in 1..Len(files) : files'[j] = IF j = active THEN Append(ls, l) ELSE files[j]
      /\ DOMAIN files' = DOMAIN files /\ lines' = lines + 1
  BY <1>1, WriteType, Zenon
<1>4. /\ Len(log) \in Nat /\ DOMAIN log = 1..Len(log) /\ DOMAIN log' = 1..(Len(log) + 1)
      /\ log'[Len(log) + 1] = l /\ \A j \in 1..Len(log) : log'[j] = log[j]
  BY <1>1 DEF Write
<1>5. files'[active] = Append(ls, l) /\ files'[active'] = Append(ls, l)
  BY <1>1, <1>3, Zenon
<1>6. /\ Seals(Append(ls, l)) = Seals(ls) \cup (IF l.act = "seal" THEN {Len(ls) + 1} ELSE {})
      /\ \A k \in Seals(ls) : k \in 1..Len(ls) /\ Append(ls, l)[k] = ls[k]
      /\ \A k \in 0..Len(ls) : SubSeq(Append(ls, l), 1, k) = SubSeq(ls, 1, k)
  BY <1>2, AppendSeals, Zenon
<1>7. WellSealed(Append(ls, l))
  BY <1>1, <1>2, AppendWellSealed, Zenon DEF Kept, SealsLast
<1>8. Append(ls, l)[Len(ls) + 1] = l /\ Len(ls) \in Nat
  BY <1>2
<1> HIDE DEF ls
<1>9. Open'
  BY <1>2, Zenon DEF Open, Listed
<1>10. SealsLast'
  BY <1>1, <1>2, <1>3, <1>7, Zenon DEF Kept, SealsLast
<1>11. ListedSealed' /\ Owed'
  BY <1>2, Zenon DEF Kept, ListedSealed, Owed
<1>12. ActiveMarked'
  <2>1. ASSUME NEW k \in Seals(Append(ls, l))
        PROVE  Append(ls, l)[k].seg = Len(manifest) + 1
    <3>1. CASE k \in Seals(ls)
      BY <1>2, <1>6, <3>1, Zenon DEF Kept, ActiveMarked, ls
    <3>2. CASE k \notin Seals(ls)
      <4>1. l.act = "seal" /\ k = Len(ls) + 1
        BY <1>6, <2>1, <3>2, Zenon
      <4>2. QED
        BY <1>8, <4>1, Zenon
    <3>3. QED
      BY <3>1, <3>2, Zenon
  <2>2. QED
    BY <1>5, <2>1, Zenon DEF ActiveMarked
<1>13. Names'
  BY <1>2, <1>9, Zenon DEF Kept, Names
<1>14. Copied'
  <2>1. ASSUME NEW n \in DOMAIN copies, n \notin DOMAIN manifest
        PROVE  n = Len(manifest) + 1 /\ \E k \in Seals(Append(ls, l)) : copies[n] = SubSeq(Append(ls, l), 1, k)
    <3>1. PICK k \in Seals(ls) : n = Len(manifest) + 1 /\ copies[n] = SubSeq(ls, 1, k)
      BY <1>2, <2>1, Zenon DEF Kept, Copied, ls
    <3>2. k \in 0..Len(ls)
      BY <1>6, <1>8, <3>1
    <3>3. QED
      BY <1>6, <3>1, <3>2, Zenon
  <2>2. ASSUME NEW n \in DOMAIN copies, n \in DOMAIN manifest
        PROVE  copies[n] = manifest[n].sha
    BY <1>2, <2>2, Zenon DEF Kept, Copied
  <2>3. QED
    BY <1>5, <1>9, <2>1, <2>2, Zenon DEF Copied
<1>15. Numbered'
  <2>1. \A k \in DOMAIN log' : log'[k].uid \in 1..lines'
    <3>1. ASSUME NEW k \in DOMAIN log'
          PROVE  log'[k].uid \in 1..(lines + 1)
      <4>1. CASE k = Len(log) + 1
        BY <1>1, <1>4, <4>1
      <4>2. CASE k \in 1..Len(log)
        <5>1. log[k].uid \in 1..lines
          BY <1>2, <1>4, <4>2, Zenon DEF Kept, Numbered
        <5>2. QED
          BY <1>1, <1>4, <4>2, <5>1
      <4>3. QED
        BY <1>4, <3>1, <4>1, <4>2
    <3>2. QED
      BY <1>3, <3>1, Zenon
  <2>2. aside' \subseteq 1..lines'
    <3>1. aside \subseteq 1..lines
      BY <1>2, Zenon DEF Kept, Numbered
    <3>2. QED
      BY <1>1, <1>3, <3>1
  <2>3. ASSUME NEW u \in 1..lines'
        PROVE  u \in aside' \/ \E k \in DOMAIN log' : log'[k].uid = u
    <3>1. CASE u = lines + 1
      <4>1. Len(log) + 1 \in DOMAIN log' /\ log'[Len(log) + 1].uid = u
        BY <1>4, <3>1
      <4>2. QED
        BY <4>1, Zenon
    <3>2. CASE u \in 1..lines
      <4>1. u \in aside \/ \E k \in DOMAIN log : log[k].uid = u
        BY <1>2, <3>2, Zenon DEF Kept, Numbered
      <4>2. \A k \in DOMAIN log : k \in DOMAIN log' /\ log'[k] = log[k]
        BY <1>4
      <4>3. QED
        BY <4>1, <4>2, Zenon
    <3>3. QED
      BY <1>1, <1>3, <2>3, <3>1, <3>2
  <2>4. QED
    BY <2>1, <2>2, <2>3, Zenon DEF Numbered
<1>16. Published'
  <2>1. \A k \in DOMAIN log : k \in DOMAIN log' /\ log'[k] = log[k]
    BY <1>4
  <2>2. Len(log) + 1 \in DOMAIN log'
    BY <1>4
  <2>3. ASSUME NEW u \in acked'
        PROVE  \E k \in DOMAIN log' : log'[k].uid = u /\ log'[k].act # "older"
    <3>1. CASE u \in acked
      <4>1. PICK k \in DOMAIN log : log[k].uid = u /\ log[k].act # "older"
        BY <1>2, <3>1, Zenon DEF Kept, Published
      <4>2. k \in DOMAIN log' /\ log'[k] = log[k]
        BY <2>1, Zenon
      <4>3. QED
        BY <4>1, <4>2, Zenon
    <3>2. CASE u = l.uid /\ l.act # "older"
      BY <1>4, <2>2, <3>2, Zenon
    <3>3. QED
      BY <2>3, <3>1, <3>2, Zenon
  <2>4. QED
    BY <1>2, <2>1, <2>3, Zenon DEF Kept, Published
<1>17. QED
  BY <1>5, <1>10, <1>11, <1>12, <1>13, <1>14, <1>15, <1>16, Zenon DEF Kept, ls

(* While p is at work on the active, no other process depends on it. *)
LEMMA AloneProcs ==
  ASSUME IInv, PInv, NEW p \in Procs, Others(p), OthersPre(p), pc[p] \in Rotating, pc'[p] \notin Repairing,
         DOMAIN copies \subseteq DOMAIN copies',
         pc'[p] \in {"sealed", "copied"} => Seals(files'[active']) = {Len(files'[active'])},
         pc'[p] = "copied" /\ files'[active'][Len(files'[active'])].worm => Len(manifest') + 1 \in DOMAIN copies',
         pre'[p] = <<>> \/ pre'[p] = pre[p]
  PROVE  Rotations' /\ Cutting' /\ Confirmations'
<1>1. \A q \in Procs : q # p => pc'[q] \notin Rotating /\ pc'[q] \notin Repairing
  BY Alone, Zenon DEF Others
<1>2. {"sealed", "copied"} \subseteq Rotating /\ pc[p] # "rcopy" /\ pc'[p] # "rcopy"
  BY Zenon DEF Rotating, Writing, Repairing
<1>3. Rotations'
  BY <1>1, <1>2, Zenon DEF Rotations
<1>4. Cutting'
  BY <1>1, Zenon DEF Cutting
<1>5. Confirmations'
  BY <1>2, Zenon DEF PInv, Confirmations, Others, OthersPre
<1>6. QED
  BY <1>3, <1>4, <1>5, Zenon

LEMMA AppendPromises ==
  ASSUME IInv, PInv, NEW p \in Procs, Others(p), OthersPre(p), AppendEvent(p) \/ AppendTorn(p)
  PROVE  PInv'
<1>1. pc[p] \in Writing /\ pc[p] \in Rotating /\ pc[p] \in {"ready", "linked"} /\ Leave(p) /\ UNCHANGED copies
  BY Zenon DEF AppendEvent, AppendTorn, Writing, Rotating
<1>2. pc'[p] = "idle" /\ pre'[p] = <<>>
  BY <1>1, Zenon DEF Leave, IInv, TypeOK, ProcsOK
<1>3. h[p] = active /\ active # 0 /\ ~Listed(manifest, active) /\ Seals(files[active]) = {}
  BY <1>1, WriterFacts, Zenon DEF IInv, Writers
<1>4. Rotations' /\ Cutting' /\ Confirmations'
  <2>1. "idle" \notin Repairing
    BY Zenon DEF Repairing
  <2>2. QED
    BY <1>1, <1>2, <2>1, AloneProcs, Zenon
<1>5. CASE AppendEvent(p)
  <2> DEFINE l == EventLine(p)
  <2>1. l \in Line
    BY LineType, Zenon DEF EventLine, History!Acts, IInv
  <2>2. l.uid = lines + 1 /\ l.act \in {"event", "repair"}
    BY DEF EventLine, NextLine
  <2>3. Write(active, l) /\ UNCHANGED <<active, seg, manifest, copies, aside, heads>>
    BY <1>3, <1>5, Zenon DEF AppendEvent
  <2>4. acked' = acked \/ acked' = acked \cup {l.uid}
    BY <1>5, Zenon DEF AppendEvent
  <2> HIDE DEF l
  <2>5. l.act # "seal" /\ l.act # "older"
    BY <2>2, Zenon
  <2>6. Kept'
    BY <1>3, <2>1, <2>2, <2>3, <2>4, <2>5, WriteKept, Zenon DEF MayFollow, Open
  <2>7. QED
    BY <1>4, <2>6, Zenon DEF PInv
<1>6. CASE AppendTorn(p)
  <2>1. UNCHANGED <<files, active, seg, manifest, copies, log, acked, aside, heads, lines>>
    BY <1>6, Zenon DEF AppendTorn, history
  <2>2. Open' = Open
    BY <2>1, Zenon DEF Open, Listed
  <2>3. SealsLast' /\ ListedSealed' /\ ActiveMarked' /\ Names'
    BY <2>1, <2>2, Zenon DEF PInv, Kept, SealsLast, ListedSealed, ActiveMarked, Names
  <2>4. Owed' /\ Copied'
    BY <2>1, <2>2, Zenon DEF PInv, Kept, Owed, Copied
  <2>5. Numbered' /\ Published'
    BY <2>1, Zenon DEF PInv, Kept, Numbered, Published
  <2>6. QED
    BY <1>4, <2>3, <2>4, <2>5, Zenon DEF PInv, Kept
<1>7. QED
  BY <1>5, <1>6, Zenon

LEMMA SealAppendPromises ==
  ASSUME IInv, PInv, NEW p \in Procs, Others(p), OthersPre(p), SealAppend(p)
  PROVE  PInv'
<1> DEFINE l == SealLine(p)
           ls == files[active]
<1>1. pc[p] = "linked" /\ pc[p] \in Writing /\ pc[p] \in Rotating
  BY Zenon DEF SealAppend, Writing, Rotating
<1>2. /\ h[p] = active /\ active # 0 /\ ~Listed(manifest, active) /\ Seals(ls) = {} /\ ls \in Seq(Line)
      /\ Ordinal(p) = Len(manifest) + 1 /\ Ordinal(p) \in Nat
  BY <1>1, WriterFacts, Zenon DEF IInv, Writers
<1>3. l \in Line
  BY <1>2, LineType, Zenon DEF SealLine, History!Acts, IInv
<1>4. l.uid = lines + 1 /\ l.act = "seal" /\ l.seg = Ordinal(p)
  BY DEF SealLine, NextLine
<1>5. Write(active, l) /\ UNCHANGED <<active, seg, manifest, copies, aside, heads, pre>>
      /\ acked' = acked \cup {l.uid}
  BY <1>2, Zenon DEF SealAppend
<1>6. pc'[p] = "sealed"
  BY Zenon DEF SealAppend, Goto, IInv, TypeOK, ProcsOK
<1> HIDE DEF l
<1>7. Kept' /\ files'[active] = Append(ls, l)
  <2>1. Open /\ MayFollow(ls, l) /\ l.act # "older" /\ l.seg = Len(manifest) + 1
    BY <1>2, <1>4, Zenon DEF Open, MayFollow
  <2>2. QED
    BY <1>3, <1>4, <1>5, <2>1, WriteKept, Zenon
<1>8. Seals(Append(ls, l)) = {Len(ls) + 1} /\ Len(Append(ls, l)) = Len(ls) + 1
  <2>1. Seals(Append(ls, l)) = Seals(ls) \cup {Len(ls) + 1}
    BY <1>2, <1>3, <1>4, AppendSeals, Zenon
  <2>2. QED
    BY <1>2, <1>3, <2>1
<1>9. Seals(files'[active']) = {Len(files'[active'])}
  BY <1>5, <1>7, <1>8, Zenon
<1>10. pc'[p] \notin Repairing /\ pc'[p] # "copied"
  BY <1>6, Zenon DEF Repairing
<1>11. Rotations' /\ Cutting' /\ Confirmations'
  BY <1>1, <1>5, <1>9, <1>10, AloneProcs, Zenon
<1>12. QED
  BY <1>7, <1>11, Zenon DEF PInv

-----------------------------------------------------------------------------
(* Links, copies, the manifest and the swap.                                *)

LEMMA LinkKept ==
  ASSUME IInv, PInv, Open, LinkSegment(Len(manifest) + 1), UNCHANGED <<files, active, manifest>>
  PROVE  /\ SealsLast' /\ ListedSealed' /\ ActiveMarked' /\ Names' /\ Open'
<1>1. active # 0 /\ TypeOK /\ Len(manifest) + 1 \in Nat \ {0} /\ ~Listed(manifest, active)
      /\ Len(manifest) # Len(manifest) + 1 /\ Kept
  BY DEF IInv, TypeOK, DiskOK, Open, PInv
<1>2. /\ DOMAIN seg' = DOMAIN seg \cup {Len(manifest) + 1} /\ seg'[Len(manifest) + 1] = active
      /\ \A k \in DOMAIN seg : seg'[k] = seg[k]
  BY <1>1, LinkType, Zenon
<1>3. Open'
  BY <1>1, <1>2, Zenon DEF Listed, Open
<1>4. SealsLast' /\ ListedSealed'
  BY <1>1, Zenon DEF Kept, SealsLast, ListedSealed
<1>5. ActiveMarked'
  BY <1>1, Zenon DEF Kept, ActiveMarked, Open
<1>6. Names'
  BY <1>1, <1>2, <1>3, Zenon DEF Kept, Names
<1>7. QED
  BY <1>3, <1>4, <1>5, <1>6, Zenon

(* A copy put at the next ordinal's key is the active through its seal. *)
LEMMA PutKept ==
  ASSUME IInv, PInv, Open, Open', NEW k \in Seals(files[active]),
         Put(Len(manifest) + 1, SubSeq(files[active], 1, k)), UNCHANGED <<files, active, manifest>>
  PROVE  /\ Owed' /\ Copied' /\ DOMAIN copies' = DOMAIN copies \cup {Len(manifest) + 1}
<1> DEFINE n == Len(manifest) + 1
           c == SubSeq(files[active], 1, k)
<1>1. Kept /\ n \notin DOMAIN manifest
  BY DEF PInv, IInv, TypeOK, DiskOK
<1>2. DOMAIN copies' = DOMAIN copies \cup {n} /\ copies'[n] = c
      /\ \A m \in DOMAIN copies : m # n => copies'[m] = copies[m]
  BY Zenon DEF Put
<1>3. Owed'
  BY <1>1, <1>2, Zenon DEF Kept, Owed
<1>4. Copied'
  <2>1. ASSUME NEW m \in DOMAIN copies', m # n
        PROVE  m \in DOMAIN manifest /\ copies'[m] = manifest[m].sha
    BY <1>1, <1>2, <2>1, Zenon DEF Kept, Copied
  <2>2. QED
    BY <1>1, <1>2, <2>1, Zenon DEF Copied
<1>5. QED
  BY <1>2, <1>3, <1>4, Zenon

LEMMA SealLinkPromises ==
  ASSUME IInv, PInv, NEW p \in Procs, Others(p), OthersPre(p), SealLink(p)
  PROVE  PInv'
<1>1. pc[p] = "ready" /\ pc[p] \in Writing /\ pc[p] \in Rotating
  BY Zenon DEF SealLink, Writing, Rotating
<1>2. active # 0 /\ ~Listed(manifest, active) /\ Ordinal(p) = Len(manifest) + 1
  BY <1>1, WriterFacts, Zenon
<1>3. LinkSegment(Len(manifest) + 1) /\ UNCHANGED <<files, active, manifest, copies, log, acked, aside, heads, lines, pre>>
  BY <1>2, Zenon DEF SealLink, history
<1>4. pc'[p] = "linked"
  BY Zenon DEF SealLink, Goto, IInv, TypeOK, ProcsOK
<1>5. SealsLast' /\ ListedSealed' /\ ActiveMarked' /\ Names' /\ Open' /\ Open
  BY <1>2, <1>3, LinkKept, Zenon DEF Open
<1>6. Owed' /\ Copied'
  BY <1>3, <1>5, Zenon DEF PInv, Kept, Owed, Copied
<1>7. Numbered' /\ Published'
  BY <1>3, Zenon DEF PInv, Kept, Numbered, Published
<1>8. Rotations' /\ Cutting' /\ Confirmations'
  <2>1. pc'[p] \notin Repairing \cup {"sealed", "copied"}
    BY <1>4, Zenon DEF Repairing
  <2>2. QED
    BY <1>1, <1>3, <2>1, AloneProcs, Zenon
<1>9. QED
  BY <1>5, <1>6, <1>7, <1>8, Zenon DEF PInv, Kept

LEMMA RotateCopyPromises ==
  ASSUME IInv, PInv, NEW p \in Procs, Others(p), OthersPre(p), RotateCopy(p)
  PROVE  PInv'
<1> DEFINE ls == files[active]
           n == Len(manifest) + 1
<1>1. pc[p] = "sealed" /\ pc[p] \in Writing /\ pc[p] \in Rotating
  BY Zenon DEF RotateCopy, Writing, Rotating
<1>2. h[p] = active /\ active # 0 /\ ~Listed(manifest, active) /\ Ordinal(p) = n /\ ls \in Seq(Line)
  BY <1>1, WriterFacts, Zenon
<1>3. LinkSegment(n) /\ UNCHANGED <<files, active, manifest, log, acked, aside, heads, lines, pre>>
  BY <1>2, Zenon DEF RotateCopy, history
<1>4. pc'[p] = "copied"
  BY Zenon DEF RotateCopy, Goto, IInv, TypeOK, ProcsOK
<1>5. SealsLast' /\ ListedSealed' /\ ActiveMarked' /\ Names' /\ Open' /\ Open
  BY <1>2, <1>3, LinkKept, Zenon DEF Open
<1>6. Numbered' /\ Published'
  BY <1>3, Zenon DEF PInv, Kept, Numbered, Published
<1>7. Seals(ls) = {Len(ls)}
  BY <1>1, Zenon DEF PInv, Rotations
<1>8. SubSeq(ls, 1, Len(ls)) = ls /\ ls # <<>>
  BY <1>2, <1>7 DEF Seals
<1>9. Owed' /\ Copied' /\ DOMAIN copies \subseteq DOMAIN copies' /\ (ls[Len(ls)].worm => n \in DOMAIN copies')
  <2>1. CASE Put(n, ls)
    <3>1. Len(ls) \in Seals(ls) /\ Put(n, SubSeq(ls, 1, Len(ls)))
      BY <1>7, <1>8, <2>1, Zenon
    <3>2. Owed' /\ Copied' /\ DOMAIN copies' = DOMAIN copies \cup {n}
      BY <1>3, <1>5, <3>1, PutKept, Zenon
    <3>3. QED
      BY <3>2, Zenon
  <2>2. CASE UNCHANGED copies /\ (~ls[Len(ls)].worm \/ pre[p] = ls)
    <3>1. Owed' /\ Copied'
      BY <1>3, <1>5, <2>2, Zenon DEF PInv, Kept, Owed, Copied
    <3>2. pre[p] = ls => ls[Len(ls)].seg \in DOMAIN copies
      BY <1>1, <1>8, Zenon DEF PInv, Confirmations
    <3>3. ls[Len(ls)].seg = n
      BY <1>5, <1>7, Zenon DEF PInv, Kept, ActiveMarked
    <3>4. QED
      BY <2>2, <3>1, <3>2, <3>3, Zenon
  <2>3. QED
    BY <1>2, <2>1, <2>2, Zenon DEF RotateCopy, Block, SealedLines
<1>10. Rotations' /\ Cutting' /\ Confirmations'
  <2>1. pc'[p] \notin Repairing
    BY <1>4, Zenon DEF Repairing
  <2>2. QED
    BY <1>1, <1>3, <1>7, <1>9, <2>1, AloneProcs, Zenon
<1>11. QED
  BY <1>5, <1>6, <1>9, <1>10, Zenon DEF PInv, Kept

LEMMA RepairCopyPromises ==
  ASSUME IInv, PInv, NEW p \in Procs, Others(p), OthersPre(p), RepairCopy(p)
  PROVE  PInv'
<1> DEFINE ls == files[active]
           n == Len(manifest) + 1
           k == ch[p].count
<1>1. pc[p] = "rcopy" /\ pc[p] \in Repairing
  BY Zenon DEF RepairCopy, Repairing
<1>2. /\ wk[p] = manifest /\ CutsAt(ls, k) /\ (Seals(ls) = {} => active \in torn)
      /\ k \in Seals(ls) /\ pre[p] = SubSeq(ls, 1, k)
  BY <1>1, Zenon DEF PInv, Cutting
<1>3. Put(n, pre[p]) /\ UNCHANGED <<files, torn, active, seg, manifest, log, acked, aside, heads, lines, pre, wk, ch>>
  BY <1>2, Zenon DEF RepairCopy, Ordinal, history
<1>4. pc'[p] = "cut"
  BY Zenon DEF RepairCopy, Goto, IInv, TypeOK, ProcsOK
<1>5. Open /\ ls \in Seq(Line)
  <2>1. op[p] = "repair" /\ ~Listed(manifest, active)
    BY <1>1, Zenon DEF IInv, Repairs
  <2>2. active # 0
    BY <2>1, Zenon DEF IInv, Handles
  <2>3. ls \in Seq(Line)
    BY <2>2 DEF IInv, TypeOK, DiskOK
  <2>4. QED
    BY <2>1, <2>2, <2>3, Zenon DEF Open
<1>6. Open'
  BY <1>3, <1>5, Zenon DEF Open, Listed
<1>7. Owed' /\ Copied' /\ DOMAIN copies' = DOMAIN copies \cup {n}
  BY <1>2, <1>3, <1>5, <1>6, PutKept, Zenon
<1>8. SealsLast' /\ ListedSealed' /\ ActiveMarked' /\ Names'
  BY <1>3, <1>5, <1>6, Zenon DEF PInv, Kept, SealsLast, ListedSealed, ActiveMarked, Names
<1>9. Numbered' /\ Published'
  BY <1>3, Zenon DEF PInv, Kept, Numbered, Published
<1>10. pre[p][Len(pre[p])].seg = n
  <2>1. ls[k].seg = n
    BY <1>2, <1>5, Zenon DEF PInv, Kept, ActiveMarked
  <2>2. Len(SubSeq(ls, 1, k)) = k /\ SubSeq(ls, 1, k)[k] = ls[k]
    BY <1>2, <1>5 DEF Seals
  <2>3. QED
    BY <1>2, <2>1, <2>2, Zenon
<1>11. Rotations' /\ Cutting' /\ Confirmations'
  <2>1. pc'[p] \notin {"sealed", "copied", "rcopy", "fragged"}
    BY <1>4, Zenon
  <2>2. QED
    BY <1>2, <1>3, <1>7, <1>10, <2>1, ProcFrame, Zenon
<1>12. QED
  BY <1>7, <1>8, <1>9, <1>11, Zenon DEF PInv, Kept

LEMMA ManifestPromises ==
  ASSUME IInv, PInv, NEW p \in Procs, Others(p), OthersPre(p), RotateManifest(p)
  PROVE  PInv'
<1> DEFINE ls == files[active]
           n == Len(manifest) + 1
           e == Entry(manifest, ls)
<1>1. pc[p] = "copied" /\ pc[p] \in Writing /\ pc[p] \in Rotating
  BY Zenon DEF RotateManifest, Writing, Rotating
<1>2. /\ h[p] = active /\ active # 0 /\ ~Listed(manifest, active) /\ wk[p] = manifest
      /\ manifest \in Seq(ManifestEntry) /\ ls \in Seq(Line)
  BY <1>1, WriterFacts, Zenon
<1>3. /\ manifest' = Append(manifest, e)
      /\ UNCHANGED <<files, active, seg, copies, log, acked, aside, heads, lines, pre>>
  BY <1>2, Zenon DEF RotateManifest, SealedLines, history
<1>4. pc'[p] = "listed"
  BY Zenon DEF RotateManifest, Goto, IInv, TypeOK, ProcsOK
<1>5. /\ ls # <<>> /\ n \in DOMAIN seg /\ seg[n] = active
      /\ Seals(ls) = {Len(ls)} /\ (ls[Len(ls)].worm => n \in DOMAIN copies)
  BY <1>1, Zenon DEF IInv, Writers, PInv, Rotations
<1>6. e.sha = ls /\ e \in ManifestEntry
  BY <1>2, <1>5, EntryType DEF Entry
<1>7. Open /\ Kept
  BY <1>2, Zenon DEF Open, PInv
<1>8. ls[Len(ls)].seg = n
  BY <1>5, <1>7, Zenon DEF Kept, ActiveMarked
<1> HIDE DEF e
<1>9. /\ DOMAIN manifest' = DOMAIN manifest \cup {n} /\ manifest'[n] = e /\ n \notin DOMAIN manifest
      /\ manifest' # <<>> /\ Len(manifest') = n
      /\ \A k \in DOMAIN manifest : manifest'[k] = manifest[k]
  BY <1>2, <1>3, <1>6
<1>10. SubSeq(ls, 1, Len(ls)) = ls
  BY <1>2
<1> HIDE DEF ls, n
<1>11. ~Open'
  BY <1>3, <1>5, <1>9, Zenon DEF Open, Listed
<1>12. SealsLast'
  BY <1>3, <1>7, Zenon DEF Kept, SealsLast
<1>13. ListedSealed'
  BY <1>5, <1>6, <1>7, <1>8, <1>9, Zenon DEF Kept, ListedSealed
<1>14. ActiveMarked'
  BY <1>11, Zenon DEF ActiveMarked
<1>15. Names'
  BY <1>3, <1>7, <1>9, Zenon DEF Kept, Names, n
<1>16. Owed'
  BY <1>3, <1>5, <1>6, <1>7, <1>9, Zenon DEF Kept, Owed
<1>17. Copied'
  <2>1. ASSUME NEW m \in DOMAIN copies
        PROVE  m \in DOMAIN manifest' /\ copies[m] = manifest'[m].sha
    <3>1. CASE m \in DOMAIN manifest
      BY <1>7, <1>9, <3>1, Zenon DEF Kept, Copied
    <3>2. CASE m \notin DOMAIN manifest
      <4>1. m = n /\ \E k \in Seals(ls) : copies[m] = SubSeq(ls, 1, k)
        BY <1>7, <3>2, Zenon DEF Kept, Copied, ls, n
      <4>2. copies[m] = ls
        BY <1>5, <1>10, <4>1, Zenon
      <4>3. QED
        BY <1>6, <1>9, <4>1, <4>2, Zenon
    <3>3. QED
      BY <3>1, <3>2, Zenon
  <2>2. QED
    BY <1>3, <2>1, Zenon DEF Copied
<1>18. Numbered' /\ Published'
  BY <1>3, <1>7, Zenon DEF Kept, Numbered, Published
<1>19. Rotations' /\ Cutting' /\ Confirmations'
  <2>1. pc'[p] \notin Repairing \cup {"sealed", "copied"}
    BY <1>4, Zenon DEF Repairing
  <2>2. QED
    BY <1>1, <1>3, <2>1, AloneProcs, Zenon
<1>20. QED
  BY <1>12, <1>13, <1>14, <1>15, <1>16, <1>17, <1>18, <1>19, Zenon DEF PInv, Kept

(* A fresh active behind the last listed segment, or in the place of an    *)
(* empty one that has no segment name.                                     *)
LEMMA FreshKept ==
  ASSUME IInv, PInv, files' = Append(files, EmptyFile), active' = Len(files) + 1,
         ~Open \/ (files[active] = <<>> /\ Len(manifest) + 1 \notin DOMAIN seg),
         UNCHANGED <<seg, manifest, copies, log, acked, aside, heads, lines>>
  PROVE  Kept'
<1>1. TypeOK /\ manifest \in Seq(ManifestEntry) /\ Kept /\ DOMAIN files = 1..Len(files) /\ Len(files) \in Nat
  BY DEF IInv, TypeOK, DiskOK, PInv
<1>2. /\ \A j \in 1..Len(files) : files'[j] = files[j]
      /\ files'[Len(files) + 1] = <<>> /\ DOMAIN files' = 1..(Len(files) + 1)
  <2>1. files' \in Seq(Seq(Line)) /\ Len(files') = Len(files) + 1
        /\ (\A j \in 1..Len(files) : files'[j] = files[j]) /\ files'[Len(files) + 1] = <<>>
    BY <1>1, NewFileType, Zenon
  <2>2. QED
    BY <2>1
<1>3. Seals(<<>>) = {} /\ WellSealed(<<>>)
  BY DEF Seals, WellSealed
<1>4. DOMAIN seg \subseteq DOMAIN manifest /\ \A n \in DOMAIN copies : n \in DOMAIN manifest
  BY <1>1, <1>3, Zenon DEF Kept, Names, Copied
<1>5. SealsLast'
  BY <1>1, <1>2, <1>3 DEF Kept, SealsLast
<1>6. ListedSealed' /\ Owed'
  BY <1>1, Zenon DEF Kept, ListedSealed, Owed
<1>7. ActiveMarked'
  BY <1>2, <1>3, Zenon DEF ActiveMarked
<1>8. Names'
  BY <1>1, <1>4, Zenon DEF Kept, Names
<1>9. Copied'
  BY <1>1, <1>4, Zenon DEF Kept, Copied
<1>10. Numbered' /\ Published'
  BY <1>1, Zenon DEF Kept, Numbered, Published
<1>11. QED
  BY <1>5, <1>6, <1>7, <1>8, <1>9, <1>10, Zenon DEF Kept

LEMMA SwapPromises ==
  ASSUME IInv, PInv, NEW p \in Procs, Others(p), OthersPre(p), RotateSwap(p)
  PROVE  PInv'
<1>1. pc[p] = "listed" /\ pc[p] \in Rotating
  BY Zenon DEF RotateSwap, Rotating
<1>2. Listed(manifest, active)
  BY <1>1, Zenon DEF IInv, Writers
<1>3. /\ files' = Append(files, EmptyFile) /\ active' = Len(files) + 1
      /\ UNCHANGED <<seg, manifest, copies, log, acked, aside, heads, lines>>
  BY Zenon DEF RotateSwap, history
<1>4. pc'[p] \in {"idle", "start"} /\ (pre'[p] = <<>> \/ pre'[p] = pre[p])
  <2>1. pc \in [Procs -> Steps] /\ pre \in [Procs -> Seq(Line)]
    BY Zenon DEF IInv, TypeOK, ProcsOK
  <2>2. QED
    BY <2>1, Zenon DEF RotateSwap, Leave, Goto
<1>5. pc'[p] \notin Repairing \cup {"sealed", "copied"}
  BY <1>4, Zenon DEF Repairing
<1>6. Rotations' /\ Cutting' /\ Confirmations'
  BY <1>1, <1>3, <1>4, <1>5, AloneProcs, Zenon
<1>7. QED
  BY <1>2, <1>3, <1>6, FreshKept, Zenon DEF PInv, Open

LEMMA OpenPromises ==
  ASSUME IInv, PInv, NEW p \in Procs, Others(p), OthersPre(p), OpenForAppend(p)
  PROVE  PInv'
<1>1. pc[p] = "walked" /\ pc'[p] = "opened" /\ pre' = pre
      /\ UNCHANGED <<torn, seg, manifest, copies, log, acked, aside, heads, lines>>
  BY Zenon DEF OpenForAppend, Goto, history, IInv, TypeOK, ProcsOK
<1>2. pc'[p] \notin Repairing \cup {"sealed", "copied", "rcopy"}
  BY <1>1, Zenon DEF Repairing
<1>3. CASE active # 0
  <2>1. UNCHANGED Shelf
    BY <1>1, <1>3, Zenon DEF OpenForAppend, Shelf
  <2>2. QED
    BY <1>1, <1>2, <2>1, QuietProcs, Zenon
<1>4. CASE active = 0
  <2>1. files' = Append(files, EmptyFile) /\ active' = Len(files) + 1
    BY <1>4, Zenon DEF OpenForAppend
  <2>2. Kept'
    BY <1>1, <1>4, <2>1, FreshKept, Zenon DEF Open
  <2>3. \A q \in Procs : pc[q] \notin Rotating /\ pc[q] \notin Repairing
    BY <1>4, Zenon DEF IInv, Writers, Repairs, Handles
  <2>4. {"sealed", "copied"} \subseteq Rotating
    BY Zenon DEF Rotating, Writing
  <2>5. \A q \in Procs : pc'[q] \notin Repairing \cup {"sealed", "copied"}
    BY <1>2, <2>3, <2>4, Zenon DEF Others
  <2>6. Rotations' /\ Cutting'
    BY <2>5, Zenon DEF Rotations, Cutting
  <2>7. Confirmations'
    <3>1. ASSUME NEW q \in Procs, pre'[q] # <<>>
          PROVE  pre'[q][Len(pre'[q])].seg \in DOMAIN copies'
      <4>1. pc[q] # "rcopy"
        BY <2>3, Zenon DEF Repairing
      <4>2. QED
        BY <1>1, <3>1, <4>1, Zenon DEF PInv, Confirmations
    <3>2. QED
      BY <3>1, Zenon DEF Confirmations
  <2>8. QED
    BY <2>2, <2>6, <2>7, Zenon DEF PInv
<1>5. QED
  BY <1>3, <1>4, Zenon

-----------------------------------------------------------------------------
(* Reading.                                                                 *)

(* The chain's last line, as a clean read finds it, is not one that a      *)
(* repair may cut off.                                                     *)
LEMMA CleanHead ==
  ASSUME IInv, PInv, active # 0, Verdict(manifest, active) \in Clean, NEW ls \in Seq(Line),
         ls = IF Verdict(manifest, active) = "listed" THEN <<>> ELSE files[active],
         Base(manifest) + Len(ls) > 0
  PROVE  /\ Base(manifest) + Len(ls) \in DOMAIN log
         /\ log[Base(manifest) + Len(ls)].uid = HeadOf(manifest, ls)
         /\ log[Base(manifest) + Len(ls)].act # "older"
<1>1. /\ manifest \in Seq(ManifestEntry) /\ log \in Seq(Line) /\ active \in 1..Len(files) /\ DOMAIN files = 1..Len(files)
      /\ Kept
  BY DEF IInv, TypeOK, DiskOK, HistoryOK, PInv
<1>2. Base(manifest) \in Nat /\ Len(ls) \in Nat
  BY <1>1, BaseType
<1>3. CASE ls = <<>>
  <2>1. manifest # <<>>
    BY <1>2, <1>3 DEF Base
  <2>2. /\ Base(manifest) \in DOMAIN log /\ Prev(manifest) = log[Base(manifest)].uid
        /\ log[Base(manifest)] = manifest[Len(manifest)].sha[Len(manifest[Len(manifest)].sha)]
    BY <2>1, LastSegment, Zenon
  <2>3. Len(manifest) \in DOMAIN manifest
    BY <1>1, <2>1
  <2>4. log[Base(manifest)].act = "seal"
    <3> DEFINE sha == manifest[Len(manifest)].sha
    <3>1. Seals(sha) = {Len(sha)}
      BY <1>1, <2>3, Zenon DEF Kept, ListedSealed
    <3>2. sha[Len(sha)].act = "seal"
      BY <3>1, Zenon DEF Seals
    <3>3. QED
      BY <2>2, <3>2, Zenon
  <2>5. Base(manifest) + Len(ls) = Base(manifest) /\ HeadOf(manifest, ls) = Prev(manifest)
    BY <1>2, <1>3 DEF HeadOf
  <2>6. QED
    BY <2>2, <2>4, <2>5, Zenon
<1>4. CASE ls # <<>>
  <2>1. Verdict(manifest, active) \in {"open", "sealed"} /\ ls = files[active]
    BY <1>4, Zenon DEF Clean
  <2>2. ~Listed(manifest, active)
    BY <2>1, VerdictFacts, Zenon
  <2>3. Stores(ls, Base(manifest)) /\ Len(log) = Base(manifest) + Len(ls)
    BY <2>1, <2>2, Zenon DEF IInv, DiskIsLog
  <2>4. Len(ls) \in DOMAIN ls /\ Len(log) \in DOMAIN log
    BY <1>1, <1>2, <1>4, <2>3
  <2>5. ls[Len(ls)] = log[Base(manifest) + Len(ls)]
    BY <2>3, <2>4, Zenon DEF Stores
  <2>6. ls[Len(ls)].act # "older"
    <3>1. CASE Verdict(manifest, active) = "open"
      <4>1. Seals(ls) = {}
        BY <2>1, <3>1, VerdictFacts, Zenon
      <4>2. QED
        BY <1>1, <2>1, <2>4, <4>1, Zenon DEF Kept, SealsLast, WellSealed
    <3>2. CASE Verdict(manifest, active) = "sealed"
      <4>1. Len(ls) \in Seals(ls)
        BY <2>1, <3>2, SealedVerdict, Zenon
      <4>2. QED
        BY <4>1, Zenon DEF Seals
    <3>3. QED
      BY <2>1, <3>1, <3>2, Zenon
  <2>7. QED
    BY <1>4, <2>3, <2>4, <2>5, <2>6, Zenon DEF HeadOf
<1>5. QED
  BY <1>3, <1>4, Zenon

LEMMA ReadPromises ==
  ASSUME IInv, PInv, NEW p \in Procs, Others(p), OthersPre(p), ReadDone(p)
  PROVE  PInv'
<1>1. pc[p] = "shared" /\ h[p] = active /\ Leave(p)
      /\ UNCHANGED <<files, torn, active, seg, manifest, copies, log, acked, aside, lines>>
  BY Zenon DEF ReadDone, SameFile, disk
<1>2. pc'[p] = "idle" /\ pre'[p] = <<>>
  BY <1>1, Zenon DEF Leave, IInv, TypeOK, ProcsOK
<1>3. Rotations' /\ Cutting' /\ Confirmations'
  <2>1. pc'[p] \notin Repairing \cup {"sealed", "copied"}
    BY <1>2, Zenon DEF Repairing
  <2>2. QED
    BY <1>1, <1>2, <2>1, ProcFrame, Zenon
<1>4. Open' = Open
  BY <1>1, Zenon DEF Open, Listed
<1>5. SealsLast' /\ ListedSealed' /\ ActiveMarked' /\ Names'
  BY <1>1, <1>4, Zenon DEF PInv, Kept, SealsLast, ListedSealed, ActiveMarked, Names
<1>6. Owed' /\ Copied' /\ Numbered'
  BY <1>1, <1>4, Zenon DEF PInv, Kept, Owed, Copied, Numbered
<1>7. Published'
  <2>1. CASE heads' = heads
    BY <1>1, <2>1, Zenon DEF PInv, Kept, Published
  <2>2. CASE Verdict(manifest, active) \in Clean /\ heads' = heads \cup {ReadHead(p)}
    <3> DEFINE ls == IF Verdict(manifest, active) = "listed" THEN <<>> ELSE files[active]
    <3>1. active # 0 /\ files[active] \in Seq(Line)
      BY <1>1, ReaderFacts, Zenon
    <3>2. ls \in Seq(Line)
      BY <3>1
    <3>3. ReadHead(p).seq = Base(manifest) + Len(ls) /\ ReadHead(p).uid = HeadOf(manifest, ls)
      BY <1>1, Zenon DEF ReadHead, ReadVerdict
    <3> HIDE DEF ls
    <3>4. ReadHead(p).seq > 0 =>
            /\ ReadHead(p).seq \in DOMAIN log /\ log[ReadHead(p).seq].uid = ReadHead(p).uid
            /\ log[ReadHead(p).seq].act # "older"
      BY <2>2, <3>1, <3>2, <3>3, CleanHead, Zenon DEF ls
    <3>5. QED
      BY <1>1, <2>2, <3>4, Zenon DEF PInv, Kept, Published
  <2>3. QED
    BY <1>1, <2>1, <2>2, Zenon DEF ReadDone, ReadVerdict
<1>8. QED
  BY <1>3, <1>5, <1>6, <1>7, Zenon DEF PInv, Kept


-----------------------------------------------------------------------------
(* Repairing.                                                               *)

(* The elements of a sequence behind its first m. *)
LEMMA SuffixElements ==
  ASSUME NEW S, NEW s \in Seq(S), NEW m \in 0..Len(s)
  PROVE  LET t == SubSeq(s, m + 1, Len(s))
         IN  /\ t \in Seq(S) /\ Len(t) = Len(s) - m /\ DOMAIN t = 1..(Len(s) - m)
             /\ \A j \in 1..(Len(s) - m) : m + j \in DOMAIN s /\ t[j] = s[m + j]
<1> DEFINE t == SubSeq(s, m + 1, Len(s))
<1>1. t \in Seq(S) /\ Len(t) = Len(s) - m
  OBVIOUS
<1>2. DOMAIN t = 1..(Len(s) - m)
  BY <1>1
<1>3. \A j \in 1..(Len(s) - m) : m + j \in DOMAIN s /\ t[j] = s[m + j]
  OBVIOUS
<1>4. QED
  BY <1>1, <1>2, <1>3

(* What a repair cuts is the end of the chain, line for line. *)
LEMMA CutIsSuffix ==
  ASSUME IInv, NEW p \in Procs, pc[p] \in Repairing
  PROVE  /\ Open /\ files[active] \in Seq(Line) /\ ch[p].count \in 0..Len(files[active])
         /\ Base(manifest) + ch[p].count \in 0..Len(log)
         /\ Len(log) = Base(manifest) + Len(files[active]) /\ Base(manifest) \in Nat /\ log \in Seq(Line)
         /\ Stores(files[active], Base(manifest))
         /\ Cuts(p) = SubSeq(log, Base(manifest) + ch[p].count + 1, Len(log))
         /\ DOMAIN Cuts(p) = 1..(Len(log) - (Base(manifest) + ch[p].count))
         /\ \A k \in (Base(manifest) + ch[p].count + 1)..Len(log) :
              /\ log[k].uid \in History!Uids(Cuts(p))
              /\ k - Base(manifest) \in DOMAIN files[active] /\ log[k] = files[active][k - Base(manifest)]
              /\ k - Base(manifest) > ch[p].count
<1> DEFINE ls == files[active]
           c == ch[p].count
           b == Base(manifest)
           n == Len(ls)
<1>1. op[p] = "repair" /\ ~Listed(manifest, active) /\ c <= n
  BY Zenon DEF IInv, Repairs
<1>2. active # 0 /\ manifest \in Seq(ManifestEntry) /\ log \in Seq(Line) /\ ch[p] \in Chain
  BY <1>1, Zenon DEF IInv, Handles, TypeOK, DiskOK, HistoryOK, ProcsOK
<1>3. ls \in Seq(Line) /\ c \in Nat /\ b \in Nat
  BY <1>2, BaseType DEF IInv, TypeOK, DiskOK, Chain
<1>4. Stores(ls, b) /\ Len(log) = b + n
  BY <1>1, <1>2, Zenon DEF IInv, DiskIsLog
<1> HIDE DEF c, b, ls
<1>5. n \in Nat /\ c \in 0..n /\ b + c \in 0..Len(log) /\ DOMAIN ls = 1..n
  BY <1>1, <1>3, <1>4
<1>6. \A j \in 1..n : ls[j] = log[b + j]
  BY <1>4, <1>5, Zenon DEF Stores
<1> DEFINE s == SubSeq(ls, c + 1, n)
           t == SubSeq(log, b + c + 1, Len(log))
<1> HIDE DEF n
<1>7. /\ s \in Seq(Line) /\ Len(s) = n - c /\ DOMAIN s = 1..(n - c)
      /\ \A j \in 1..(n - c) : s[j] = ls[c + j]
  BY <1>3, <1>5, SuffixElements, Zenon DEF n
<1>8. /\ t \in Seq(Line) /\ Len(t) = n - c /\ \A j \in 1..(n - c) : t[j] = log[b + c + j]
  <2>1. Len(log) - (b + c) = n - c
    BY <1>3, <1>4, <1>5
  <2>2. QED
    BY <1>2, <1>5, <2>1, SuffixElements, Zenon
<1> HIDE DEF s, t
<1>9. \A j \in 1..(n - c) : c + j \in 1..n /\ b + (c + j) = b + c + j
  BY <1>3, <1>5
<1>10. s = t
  <2>1. \A j \in 1..Len(s) : s[j] = t[j]
    BY <1>6, <1>7, <1>8, <1>9
  <2>2. QED
    BY <1>7, <1>8, <2>1, SameElements, Zenon
<1>11. ASSUME NEW k \in (b + c + 1)..Len(log)
       PROVE  /\ log[k].uid \in History!Uids(s) /\ k - b \in DOMAIN ls /\ log[k] = ls[k - b] /\ k - b > c
  <2>1. k - b \in 1..n /\ k - b > c /\ b + (k - b) = k
    BY <1>3, <1>4, <1>5
  <2>2. k - b - c \in 1..(n - c) /\ c + (k - b - c) = k - b
    BY <1>3, <1>5, <2>1
  <2>3. log[k] = ls[k - b]
    BY <1>6, <2>1
  <2>4. s[k - b - c] = log[k]
    BY <1>7, <2>2, <2>3, Zenon
  <2>5. log[k].uid \in History!Uids(s)
    BY <1>7, <2>2, <2>4, Zenon DEF History!Uids
  <2>6. QED
    BY <1>5, <2>1, <2>3, <2>5, Zenon
<1>12. n - c = Len(log) - (b + c)
  BY <1>3, <1>4, <1>5
<1>13. QED
  BY <1>1, <1>2, <1>3, <1>4, <1>5, <1>7, <1>10, <1>11, <1>12, Zenon DEF Open, Cuts, s, t, ls, c, b, n

LEMMA FragmentPromises ==
  ASSUME IInv, PInv, NEW p \in Procs, Others(p), OthersPre(p), WriteTornFragment(p)
  PROVE  /\ PInv' /\ aside' = aside \cup History!Uids(Cuts(p))
         /\ pc[p] \in Repairing /\ UNCHANGED log
<1>1. pc[p] = "xlocked" /\ pc[p] \in Repairing /\ h[p] = active
      /\ UNCHANGED <<files, torn, active, seg, manifest, copies, log, acked, heads, lines, pre, wk, ch>>
  BY Zenon DEF WriteTornFragment, PrefixStands, SameFile, disk, Repairing
<1>2. aside' = aside \cup History!Uids(Cuts(p)) /\ Cuts(p)' = Cuts(p)
  BY <1>1, Zenon DEF WriteTornFragment, FragmentUids, CutOff, Cuts
<1>3. pc'[p] = "fragged"
  BY Zenon DEF WriteTornFragment, Goto, IInv, TypeOK, ProcsOK
<1>4. /\ wk[p] = manifest /\ CutsAt(files[active], ch[p].count) /\ (Seals(files[active]) = {} => active \in torn)
      /\ pre[p] # <<>> => pre[p][Len(pre[p])].seg \in DOMAIN copies
  BY <1>1, Zenon DEF PInv, Cutting, Confirmations
<1>5. Rotations' /\ Cutting' /\ Confirmations'
  <2>1. pc'[p] \notin {"sealed", "copied", "rcopy"}
    BY <1>3, Zenon
  <2>2. QED
    BY <1>1, <1>2, <1>4, <2>1, ProcFrame, Zenon
<1>6. Open' = Open
  BY <1>1, Zenon DEF Open, Listed
<1>7. SealsLast' /\ ListedSealed' /\ ActiveMarked' /\ Names'
  BY <1>1, <1>6, Zenon DEF PInv, Kept, SealsLast, ListedSealed, ActiveMarked, Names
<1>8. Owed' /\ Copied' /\ Published'
  <2>1. Owed' /\ Copied'
    BY <1>1, <1>6, Zenon DEF PInv, Kept, Owed, Copied
  <2>2. Published'
    BY <1>1, <1>6, Zenon DEF PInv, Kept, Published
  <2>3. QED
    BY <2>1, <2>2, Zenon
<1>9. Numbered'
  <2>1. ASSUME NEW u \in History!Uids(Cuts(p))
        PROVE  u \in 1..lines
    <3> DEFINE a == Base(manifest) + ch[p].count
    <3>1. /\ Cuts(p) = SubSeq(log, a + 1, Len(log)) /\ DOMAIN Cuts(p) = 1..(Len(log) - a)
          /\ a \in 0..Len(log) /\ log \in Seq(Line)
      BY <1>1, CutIsSuffix, Zenon
    <3>2. PICK j \in DOMAIN Cuts(p) : u = Cuts(p)[j].uid
      BY <2>1, Zenon DEF History!Uids
    <3>3. a + j \in DOMAIN log /\ Cuts(p)[j] = log[a + j]
      <4> HIDE DEF a
      <4>1. \A i \in 1..(Len(log) - a) : a + i \in DOMAIN log /\ SubSeq(log, a + 1, Len(log))[i] = log[a + i]
        BY <3>1, SuffixElements, ZenonT(60)
      <4>2. QED
        BY <3>1, <3>2, <4>1, Zenon
    <3>4. QED
      BY <3>2, <3>3, Zenon DEF PInv, Kept, Numbered
  <2>2. QED
    BY <1>1, <1>2, <2>1, Zenon DEF PInv, Kept, Numbered
<1>10. QED
  BY <1>1, <1>2, <1>5, <1>7, <1>8, <1>9, Zenon DEF PInv, Kept

(* Cutting a file where repair cuts it leaves its seal, and takes away     *)
(* only an older binary's lines.                                           *)
LEMMA CutSeals ==
  ASSUME NEW ls \in Seq(Line), NEW c \in 0..Len(ls), WellSealed(ls), CutsAt(ls, c)
  PROVE  LET t == SubSeq(ls, 1, c)
         IN  /\ t \in Seq(Line) /\ Len(t) = c /\ \A k \in 1..c : k \in DOMAIN ls /\ t[k] = ls[k]
             /\ Seals(t) = Seals(ls) /\ WellSealed(t)
             /\ \A k \in Seals(ls) : k = c /\ SubSeq(t, 1, k) = SubSeq(ls, 1, k)
             /\ \A j \in DOMAIN ls : j > c => ls[j].act = "older"
<1> DEFINE t == SubSeq(ls, 1, c)
<1>1. /\ t \in Seq(Line) /\ Len(t) = c /\ c \in Nat /\ Len(ls) \in Nat /\ c <= Len(ls) /\ DOMAIN ls = 1..Len(ls)
  OBVIOUS
<1>2. DOMAIN t = 1..c /\ \A k \in 1..c : k \in DOMAIN ls /\ t[k] = ls[k]
  BY <1>1
<1> HIDE DEF t
<1>3. \A j \in DOMAIN ls : j > c => ls[j].act = "older"
  <2>1. CASE Seals(ls) = {}
    BY <1>1, <2>1 DEF CutsAt
  <2>2. CASE Seals(ls) # {}
    BY <2>2, Zenon DEF CutsAt, WellSealed
  <2>3. QED
    BY <2>1, <2>2, Zenon
<1>4. ASSUME NEW k \in Seals(ls)
      PROVE  k = c /\ k \in DOMAIN t
  <2>1. k \in DOMAIN ls /\ ls[k].act = "seal" /\ c <= k /\ c \in Seals(ls)
    BY <1>4, Zenon DEF Seals, CutsAt
  <2>2. ~(k > c)
    BY <1>3, <2>1
  <2>3. c \in DOMAIN ls
    BY <2>1, Zenon DEF Seals
  <2>4. QED
    BY <1>1, <1>2, <2>1, <2>2, <2>3
<1>5. Seals(t) = Seals(ls)
  BY <1>2, <1>4, Zenon DEF Seals
<1>6. WellSealed(t)
  <2>1. \A k \in Seals(t) : \A j \in DOMAIN t : ~(j > k)
    BY <1>1, <1>2, <1>4, <1>5
  <2>2. ASSUME NEW j \in DOMAIN t, t[j].act = "older"
        PROVE  \E k \in Seals(t) : k < j
    BY <1>2, <1>5, <2>2, Zenon DEF WellSealed
  <2>3. QED
    BY <2>1, <2>2, Zenon DEF WellSealed
<1>7. SubSeq(t, 1, c) = t
  <2>1. SubSeq(t, 1, c) \in Seq(Line) /\ Len(SubSeq(t, 1, c)) = c /\ \A k \in 1..c : SubSeq(t, 1, c)[k] = t[k]
    BY <1>1, <1>2
  <2>2. QED
    BY <1>1, <2>1, SameElements, Zenon
<1>8. QED
  BY <1>1, <1>2, <1>3, <1>4, <1>5, <1>6, <1>7, Zenon DEF t

(* What a repair's truncation takes from the chain: nothing, or what       *)
(* follows a seal; and it has been preserved.                              *)
LEMMA TruncateCut ==
  ASSUME IInv, PInv, NEW p \in Procs, Truncate(p)
  PROVE  LET a == Base(manifest) + ch[p].count
         IN  /\ a \in 0..Len(log) /\ log' = SubSeq(log, 1, a) /\ UNCHANGED aside
             /\ History!Uids(SubSeq(log, a + 1, Len(log))) \subseteq aside
             /\ log' = log \/ (a \in DOMAIN log /\ log[a].act = "seal")
<1> DEFINE ls == files[active]
           c == ch[p].count
           b == Base(manifest)
           a == b + c
<1>1. pc[p] = "fragged" /\ pc[p] \in Repairing /\ h[p] = active
  BY Zenon DEF Truncate, Repairing, IInv, Repairs
<1>2. /\ ls \in Seq(Line) /\ c \in 0..Len(ls) /\ a \in 0..Len(log) /\ Len(log) = b + Len(ls) /\ b \in Nat
      /\ log \in Seq(Line) /\ Stores(ls, b) /\ Cuts(p) = SubSeq(log, a + 1, Len(log))
  BY <1>1, CutIsSuffix, Zenon
<1>3. CutsAt(ls, c) /\ History!Uids(Cuts(p)) \subseteq aside
  BY <1>1, Zenon DEF PInv, Cutting
<1>4. Len(CutOff(p)) = Len(ls) - c
  <2>1. CutOff(p) = SubSeq(ls, c + 1, Len(ls))
    BY <1>1, Zenon DEF CutOff
  <2>2. QED
    BY <1>2, <2>1, SuffixElements, Zenon
<1> HIDE DEF ls, c, b
<1>5. Len(log) - Len(CutOff(p)) = a
  BY <1>2, <1>4
<1>6. log' = SubSeq(log, 1, a) /\ UNCHANGED aside
  BY <1>5, Zenon DEF Truncate
<1>7. log' = log \/ (a \in DOMAIN log /\ log[a].act = "seal")
  <2>1. CASE Seals(ls) = {}
    <3>1. a = Len(log)
      BY <1>2, <1>3, <2>1, Zenon DEF CutsAt
    <3>2. SubSeq(log, 1, Len(log)) = log
      BY <1>2
    <3>3. QED
      BY <1>6, <3>1, <3>2, Zenon
  <2>2. CASE Seals(ls) # {}
    <3>1. c \in DOMAIN ls /\ ls[c].act = "seal"
      BY <1>3, <2>2, Zenon DEF CutsAt, Seals
    <3>2. ls[c] = log[a]
      BY <1>2, <3>1, Zenon DEF Stores
    <3>3. a \in DOMAIN log
      BY <1>2, <3>1
    <3>4. QED
      BY <3>1, <3>2, <3>3, Zenon
  <2>3. QED
    BY <2>1, <2>2, Zenon
<1>8. QED
  BY <1>2, <1>3, <1>6, <1>7, Zenon DEF b, c

LEMMA TruncatePromises ==
  ASSUME IInv, PInv, NEW p \in Procs, Others(p), OthersPre(p), Truncate(p)
  PROVE  PInv'
<1> DEFINE ls == files[active]
           c == ch[p].count
           b == Base(manifest)
           a == b + c
           t == SubSeq(ls, 1, c)
<1>1. pc[p] = "fragged" /\ pc[p] \in Repairing /\ h[p] = active /\ op[p] = "repair"
      /\ \A q \in Procs : pc[q] \notin Rotating
  BY Zenon DEF Truncate, Repairing, IInv, Repairs
<1>2. /\ Open /\ ls \in Seq(Line) /\ c \in 0..Len(ls) /\ a \in 0..Len(log) /\ log \in Seq(Line)
      /\ \A k \in (a + 1)..Len(log) : /\ log[k].uid \in History!Uids(Cuts(p))
                                      /\ k - b \in DOMAIN ls /\ log[k] = ls[k - b] /\ k - b > c
  BY <1>1, CutIsSuffix, Zenon
<1>3. CutsAt(ls, c) /\ History!Uids(Cuts(p)) \subseteq aside /\ Kept
  BY <1>1, Zenon DEF PInv, Cutting
<1>4. active \in 1..Len(files) /\ DOMAIN files = 1..Len(files) /\ files \in Seq(Seq(Line))
  BY <1>2 DEF Open, IInv, TypeOK, DiskOK
<1>5. WellSealed(ls)
  BY <1>3, <1>4, Zenon DEF Kept, SealsLast
<1>6. /\ files' = [files EXCEPT ![active] = t] /\ torn' = torn \ {active}
      /\ UNCHANGED <<active, seg, manifest, copies, acked, aside, heads, lines, pre>>
  BY <1>1, Zenon DEF Truncate
<1>7. log' = SubSeq(log, 1, a)
  BY TruncateCut, Zenon
<1>8. pc'[p] = "start"
  BY Zenon DEF Truncate, Goto, IInv, TypeOK, ProcsOK
<1> HIDE DEF ls, c, b
<1>9. /\ t \in Seq(Line) /\ Len(t) = c /\ \A k \in 1..c : k \in DOMAIN ls /\ t[k] = ls[k]
      /\ Seals(t) = Seals(ls) /\ WellSealed(t)
      /\ \A k \in Seals(ls) : k = c /\ SubSeq(t, 1, k) = SubSeq(ls, 1, k)
      /\ \A j \in DOMAIN ls : j > c => ls[j].act = "older"
  BY <1>2, <1>3, <1>5, CutSeals, Zenon
<1> HIDE DEF t
<1>10. /\ DOMAIN files' = DOMAIN files /\ files'[active'] = t
       /\ \A j \in DOMAIN files : files'[j] = IF j = active THEN t ELSE files[j]
  BY <1>4, <1>6
<1>11. /\ DOMAIN log = 1..Len(log) /\ Len(log) \in Nat /\ a \in Nat /\ a <= Len(log)
       /\ DOMAIN log' = 1..a /\ \A j \in 1..a : log'[j] = log[j]
  <2> HIDE DEF a
  <2>1. QED
    BY <1>2, <1>7
<1>12. \A k \in DOMAIN log : k \in DOMAIN log' \/ (log[k].act = "older" /\ log[k].uid \in aside)
  <2>1. ASSUME NEW k \in DOMAIN log, k \notin DOMAIN log'
        PROVE  log[k].act = "older" /\ log[k].uid \in aside
    <3>1. k \in (a + 1)..Len(log)
      BY <1>11, <2>1
    <3>2. QED
      BY <1>2, <1>3, <1>9, <3>1, Zenon
  <2>2. QED
    BY <2>1, Zenon
<1>13. \A k \in DOMAIN log' : k \in DOMAIN log /\ log'[k] = log[k]
  BY <1>11
<1> HIDE DEF a
<1>14. Open' /\ Open
  BY <1>2, <1>6, Zenon DEF Open, Listed
<1>15. SealsLast'
  BY <1>3, <1>9, <1>10, Zenon DEF Kept, SealsLast
<1>16. ListedSealed' /\ Owed' /\ Names'
  BY <1>3, <1>6, <1>14, Zenon DEF Kept, ListedSealed, Owed, Names
<1>17. ActiveMarked'
  <2>1. ASSUME NEW k \in Seals(t)
        PROVE  t[k].seg = Len(manifest) + 1
    <3>1. k \in Seals(ls) /\ k = c
      BY <1>9, Zenon
    <3>2. k \in 1..c
      BY <1>2, <3>1 DEF Seals
    <3>3. QED
      BY <1>3, <1>9, <1>14, <3>1, <3>2, Zenon DEF Kept, ActiveMarked, ls
  <2>2. QED
    BY <1>6, <1>10, <2>1, Zenon DEF ActiveMarked
<1>18. Copied'
  <2>1. ASSUME NEW n \in DOMAIN copies, n \notin DOMAIN manifest
        PROVE  n = Len(manifest) + 1 /\ \E k \in Seals(t) : copies[n] = SubSeq(t, 1, k)
    <3>1. PICK k \in Seals(ls) : n = Len(manifest) + 1 /\ copies[n] = SubSeq(ls, 1, k)
      BY <1>3, <2>1, Zenon DEF Kept, Copied, ls
    <3>2. k \in Seals(t) /\ SubSeq(t, 1, k) = SubSeq(ls, 1, k)
      BY <1>9, <3>1, Zenon
    <3>3. QED
      BY <3>1, <3>2, Zenon
  <2>2. ASSUME NEW n \in DOMAIN copies, n \in DOMAIN manifest
        PROVE  copies[n] = manifest[n].sha
    BY <1>3, <2>2, Zenon DEF Kept, Copied
  <2>3. QED
    BY <1>6, <1>10, <1>14, <2>1, <2>2, Zenon DEF Copied
<1>19. Numbered'
  <2>1. ASSUME NEW u \in 1..lines, u \notin aside
        PROVE  \E k \in DOMAIN log' : log'[k].uid = u
    <3>1. PICK k \in DOMAIN log : log[k].uid = u
      BY <1>3, <2>1, Zenon DEF Kept, Numbered
    <3>2. k \in DOMAIN log' /\ log'[k] = log[k]
      BY <1>12, <1>13, <2>1, <3>1, Zenon
    <3>3. QED
      BY <3>1, <3>2, Zenon
  <2>2. QED
    BY <1>3, <1>6, <1>13, <2>1, Zenon DEF Kept, Numbered
<1>20. Published'
  <2>1. \A k \in DOMAIN log : log[k].act # "older" => k \in DOMAIN log' /\ log'[k] = log[k]
    BY <1>12, <1>13, Zenon
  <2>2. ASSUME NEW u \in acked
        PROVE  \E k \in DOMAIN log' : log'[k].uid = u /\ log'[k].act # "older"
    <3>1. PICK k \in DOMAIN log : log[k].uid = u /\ log[k].act # "older"
      BY <1>3, Zenon DEF Kept, Published
    <3>2. k \in DOMAIN log' /\ log'[k] = log[k]
      BY <2>1, <3>1, Zenon
    <3>3. QED
      BY <3>1, <3>2, Zenon
  <2>3. ASSUME NEW x \in heads, x.seq > 0
        PROVE  x.seq \in DOMAIN log' /\ log'[x.seq].uid = x.uid /\ log'[x.seq].act # "older"
    BY <1>3, <2>1, <2>3, Zenon DEF Kept, Published
  <2>4. QED
    BY <1>6, <2>2, <2>3, Zenon DEF Published
<1>21. \A q \in Procs : pc'[q] \notin Repairing /\ pc'[q] \notin Rotating
  <2>1. \A q \in Procs : q # p => pc[q] \notin Repairing
    BY <1>1, Zenon DEF IInv, OneRepair, Repairs, RepairOps
  <2>2. pc'[p] \notin Rotating /\ pc'[p] \notin Repairing
    BY <1>8, Zenon DEF Rotating, Writing, Repairing
  <2>3. QED
    BY <1>1, <2>1, <2>2, Zenon DEF Others
<1>22. Rotations' /\ Cutting'
  <2>1. {"sealed", "copied"} \subseteq Rotating
    BY Zenon DEF Rotating, Writing
  <2>2. QED
    BY <1>21, <2>1, Zenon DEF Rotations, Cutting
<1>23. Confirmations'
  <2>1. pc[p] # "rcopy"
    BY <1>1, Zenon
  <2>2. QED
    BY <1>6, <2>1, Zenon DEF PInv, Confirmations, Others
<1>24. QED
  BY <1>15, <1>16, <1>17, <1>18, <1>19, <1>20, <1>22, <1>23, Zenon DEF PInv, Kept

-----------------------------------------------------------------------------
(* The environment.                                                         *)

LEMMA StillPromises ==
  ASSUME PInv, UNCHANGED <<Shelf, procs>>
  PROVE  PInv'
<1>1. UNCHANGED <<files, torn, active, seg, manifest, copies, aside, pc, wk, h, ch, pre>> /\ UNCHANGED Shelf
  BY Zenon DEF Shelf, procs
<1>2. Kept'
  BY <1>1, KeptFrame, Zenon DEF PInv
<1>3. Rotations' /\ Cutting' /\ Confirmations'
  BY <1>1, Zenon DEF PInv, Rotations, Cutting, Confirmations, Cuts
<1>4. QED
  BY <1>2, <1>3, Zenon DEF PInv

LEMMA OlderPromises ==
  ASSUME IInv, PInv, OlderAppend
  PROVE  PInv'
<1> DEFINE ls == files[active]
           sealed == manifest = <<>> /\ Seals(ls) # {}
<1> SUFFICES ASSUME ~UNCHANGED Shelf
             PROVE  PInv'
  BY StillPromises, Zenon DEF OlderAppend, Shelf
<1>1. /\ active # 0
      /\ UNCHANGED <<active, seg, manifest, copies, acked, aside, heads, pc, wk, h, ch, pre>>
      /\ ~\E q \in Procs : HoldsEx(q, active) \/ HoldsSh(q, active)
      /\ \/ sealed /\ Write(active, OlderLine(ls)) /\ UNCHANGED torn
         \/ (sealed \/ ls = <<>>) /\ torn' = torn \cup {active} /\ UNCHANGED <<files, log, lines>>
  BY Zenon DEF OlderAppend, OlderLine, procs, Shelf
<1>2. Open
  <2>1. CASE sealed
    BY <1>1, <2>1, Zenon DEF Open, Listed
  <2>2. CASE ls = <<>>
    <3>1. manifest # <<>> => Len(manifest) \in DOMAIN manifest
      BY DEF IInv, TypeOK, DiskOK
    <3>2. QED
      BY <1>1, <2>2, <3>1, EmptyNotListed, Zenon DEF Open, Listed
  <2>3. QED
    BY <1>1, <2>1, <2>2, Zenon
<1>3. ls \in Seq(Line) /\ active \in 1..Len(files) /\ DOMAIN files = 1..Len(files)
  BY <1>1 DEF IInv, TypeOK, DiskOK
<1>4. \A q \in Procs : pc[q] \notin Rotating
  <2>1. Rotating \subseteq Exclusive
    BY Zenon DEF Rotating, Writing, Exclusive
  <2>2. QED
    BY <1>1, <2>1, Zenon DEF HoldsEx, IInv, Writers
<1>5. \A q \in Procs : pc[q] # "fragged"
  <2>1. "fragged" \in Exclusive
    BY Zenon DEF Exclusive
  <2>2. \A q \in Procs : pc[q] = "fragged" => h[q] = active
    BY Zenon DEF IInv, Repairs, Repairing
  <2>3. QED
    BY <1>1, <2>1, <2>2, Zenon DEF HoldsEx
<1>6. Rotations' /\ Confirmations'
  <2>1. {"sealed", "copied"} \subseteq Rotating
    BY Zenon DEF Rotating, Writing
  <2>2. QED
    BY <1>1, <1>4, <2>1, Zenon DEF PInv, Rotations, Confirmations
<1>7. CASE sealed /\ Write(active, OlderLine(ls)) /\ UNCHANGED torn
  <2> DEFINE l == OlderLine(ls)
             t == Append(ls, l)
  <2>1. l \in Line
    <3>1. manifest \in Seq(ManifestEntry) /\ lines \in Nat
      BY Zenon DEF IInv, TypeOK, DiskOK, HistoryOK
    <3>2. HeadOf(manifest, ls) \in Nat
      BY <1>3, <3>1, HeadType, Zenon
    <3>3. Len(ls) + 1 \in Nat /\ lines + 1 \in Nat
      BY <1>3, <3>1
    <3>4. QED
      BY <3>2, <3>3, Zenon DEF OlderLine, Line, History!Line, History!Acts
  <2>2. l.uid = lines + 1 /\ l.act = "older"
    BY Zenon DEF OlderLine
  <2>3. Kept' /\ files'[active] = t
    BY <1>1, <1>2, <1>7, <2>1, <2>2, WriteKept, Zenon DEF MayFollow
  <2> sealed
    BY <1>7, Zenon
  <2>4. /\ Seals(t) = Seals(ls) \cup (IF l.act = "seal" THEN {Len(ls) + 1} ELSE {})
        /\ \A k \in Seals(ls) : k \in 1..Len(ls)
        /\ \A k \in 0..Len(ls) : SubSeq(t, 1, k) = SubSeq(ls, 1, k)
    BY <1>3, <2>1, AppendSeals, Zenon
  <2>5. Seals(t) = Seals(ls)
    BY <2>2, <2>4, Zenon
  <2> HIDE DEF t, l, ls
  <2>6. \A k \in Seals(ls) : SubSeq(t, 1, k) = SubSeq(ls, 1, k)
    <3>1. 1..Len(ls) \subseteq 0..Len(ls)
      BY <1>3
    <3>2. QED
      BY <2>4, <3>1, Zenon
  <2>7. ASSUME NEW q \in Procs, pc[q] \in Repairing
        PROVE  /\ wk[q] = manifest /\ CutsAt(t, ch[q].count)
               /\ pc[q] = "rcopy" => ch[q].count \in Seals(t) /\ pre[q] = SubSeq(t, 1, ch[q].count)
    <3>1. /\ wk[q] = manifest /\ CutsAt(ls, ch[q].count)
          /\ pc[q] = "rcopy" => ch[q].count \in Seals(ls) /\ pre[q] = SubSeq(ls, 1, ch[q].count)
      BY <2>7, Zenon DEF PInv, Cutting, ls
    <3>2. CutsAt(t, ch[q].count)
      BY <1>1, <2>5, <3>1, Zenon DEF CutsAt
    <3>3. QED
      BY <2>5, <2>6, <3>1, <3>2, Zenon
  <2>8. files'[active'] = t
    BY <1>1, <2>3, Zenon
  <2>9. Cutting'
    BY <1>1, <1>5, <2>5, <2>7, <2>8, Zenon DEF Cutting
  <2>10. QED
    BY <1>6, <2>3, <2>9, Zenon DEF PInv
<1>8. CASE torn' = torn \cup {active} /\ UNCHANGED <<files, log, lines>>
  <2>1. Open' = Open
    BY <1>1, Zenon DEF Open, Listed
  <2>2. SealsLast' /\ ListedSealed' /\ ActiveMarked' /\ Names'
    BY <1>1, <1>8, <2>1, Zenon DEF PInv, Kept, SealsLast, ListedSealed, ActiveMarked, Names
  <2>3. Owed' /\ Copied' /\ Numbered' /\ Published'
    <3>1. Owed' /\ Copied'
      BY <1>1, <1>8, <2>1, Zenon DEF PInv, Kept, Owed, Copied
    <3>2. Numbered' /\ Published'
      BY <1>1, <1>8, Zenon DEF PInv, Kept, Numbered, Published
    <3>3. QED
      BY <3>1, <3>2, Zenon
  <2>4. Cutting'
    BY <1>1, <1>5, <1>8, Zenon DEF PInv, Cutting
  <2>5. QED
    BY <1>6, <2>2, <2>3, <2>4, Zenon DEF PInv, Kept
<1>9. QED
  BY <1>1, <1>7, <1>8, Zenon

LEMMA MovePromises ==
  ASSUME IInv, Foreign, PInv, Linked, MoveAside
  PROVE  PInv'
<1>1. /\ active \in foreign /\ ~Listed(manifest, active)
      /\ files' = Append(files, EmptyFile) /\ active' = Len(files) + 1
      /\ UNCHANGED <<seg, manifest, copies, log, acked, aside, heads, lines, pc, pre>>
  BY Zenon DEF MoveAside, procs, history
<1>2. files[active] = <<>> /\ active \notin torn
  BY <1>1, Zenon DEF Foreign
<1>3. Kept'
  BY <1>1, <1>2, FreshKept, Zenon DEF Linked
<1>4. \A q \in Procs : pc[q] \notin Repairing \cup {"sealed", "copied"}
  <2>1. Seals(files[active]) = {}
    BY <1>2 DEF Seals
  <2>2. QED
    BY <1>1, <1>2, <2>1, Zenon DEF PInv, Cutting, Foreign, Writing
<1>5. Rotations' /\ Cutting' /\ Confirmations'
  BY <1>1, <1>4, Zenon DEF PInv, Rotations, Cutting, Confirmations
<1>6. QED
  BY <1>3, <1>5, Zenon DEF PInv

LEMMA InitPInv ==
  ASSUME Init
  PROVE  PInv
<1>1. /\ files = <<>> /\ active = 0 /\ seg = <<>> /\ manifest = <<>> /\ copies = <<>> /\ log = <<>>
      /\ acked = {} /\ aside = {} /\ heads = {} /\ lines = 0
      /\ pc = [p \in Procs |-> "idle"] /\ pre = [p \in Procs |-> <<>>]
  BY Zenon DEF Init
<1>2. DOMAIN files = {} /\ DOMAIN seg = {} /\ DOMAIN manifest = {} /\ DOMAIN copies = {} /\ DOMAIN log = {}
      /\ 1..lines = {}
  BY <1>1
<1>3. SealsLast /\ ListedSealed /\ ActiveMarked /\ Names
  BY <1>1, <1>2, Zenon DEF SealsLast, ListedSealed, ActiveMarked, Names, Open
<1>4. Owed /\ Copied /\ Numbered /\ Published
  BY <1>1, <1>2, Zenon DEF Owed, Copied, Numbered, Published
<1>5. \A p \in Procs : pc[p] = "idle" /\ pre[p] = <<>>
  BY <1>1, Zenon
<1>6. Rotations /\ Cutting /\ Confirmations
  BY <1>5, Zenon DEF Rotations, Cutting, Confirmations, Repairing
<1>7. QED
  BY <1>3, <1>4, <1>6, Zenon DEF PInv, Kept

LEMMA NextPInv ==
  ASSUME IInv, Foreign, PInv, Linked, [Next]_vars
  PROVE  PInv'
<1>1. CASE UNCHANGED vars
  BY <1>1, StillPromises, Zenon DEF vars, disk, history, Shelf
<1>2. CASE SetPosture \/ RestoreSegment
  BY <1>2, StillPromises, Zenon DEF SetPosture, RestoreSegment, history, Shelf
<1>3. CASE OlderAppend \/ MoveAside
  BY <1>3, OlderPromises, MovePromises, Zenon
<1>4. ASSUME NEW p \in Procs, (\E o \in Ops : Invoke(p, o)) \/ Work(p) \/ Fails(p)
      PROVE  PInv'
  <2>1. Others(p) /\ OthersPre(p)
    BY <1>4, OthersStep, OthersPreStep, Zenon
  <2>2. CASE (\E o \in Ops : Invoke(p, o)) \/ Fails(p)
    BY <2>1, <2>2, QuietPromises, AppendPromises, Zenon DEF Fails
  <2>3. CASE LockActive(p)
    BY <2>1, <2>3, QuietPromises, AdmitPromises, OpenPromises, Zenon DEF LockActive
  <2>4. CASE AppendEvent(p) \/ SealActive(p)
    BY <2>1, <2>4, AppendPromises, SealAppendPromises, SealLinkPromises, Zenon DEF SealActive
  <2>5. CASE Rotate(p)
    BY <2>1, <2>5, RotateCopyPromises, ManifestPromises, SwapPromises, Zenon DEF Rotate
  <2>6. CASE Read(p)
    BY <2>1, <2>6, QuietPromises, ReadPromises, Zenon DEF Read
  <2>7. CASE Repair(p)
    BY <2>1, <2>7, QuietPromises, RepairReadPromises, RepairCopyPromises, FragmentPromises,
       TruncatePromises, Zenon DEF Repair, MoveTailAside
  <2>8. QED
    BY <1>4, <2>2, <2>3, <2>4, <2>5, <2>6, <2>7, Zenon DEF Work
<1>5. QED
  BY <1>1, <1>2, <1>3, <1>4, Zenon DEF Next

-----------------------------------------------------------------------------
(* Which files have a segment name.                                         *)

LEMMA InitLinked == Init => Linked
<1> SUFFICES ASSUME Init
             PROVE  Linked
  BY Zenon
<1>1. seg = <<>> /\ \A p \in Procs : pc[p] = "idle"
  BY Zenon DEF Init
<1>2. DOMAIN seg = {}
  BY <1>1
<1>3. QED
  BY <1>1, <1>2, Zenon DEF Linked

(* The active does not become empty, and what comes to be sealed is not. *)
LEMMA LinkedFrame ==
  ASSUME Linked, UNCHANGED <<active, manifest>>, files[active] # <<>> => files'[active] # <<>>,
         \A q \in Procs : pc'[q] = "ready" /\ op'[q] = "seal" =>
           (pc[q] = "ready" /\ op[q] = "seal") \/ files'[active] # <<>>,
         Len(manifest) + 1 \in DOMAIN seg' => Len(manifest) + 1 \in DOMAIN seg \/ files'[active] # <<>>
  PROVE  Linked'
  BY Zenon DEF Linked

(* The active name is bound to a new file. *)
LEMMA LinkedFresh ==
  ASSUME Linked, UNCHANGED <<seg, manifest>>, Len(manifest) + 1 \notin DOMAIN seg,
         \A q \in Procs : pc'[q] # "ready"
  PROVE  Linked'
  BY Zenon DEF Linked

(* A file that is not open has no name but the listed ones. *)
LEMMA NoNextName ==
  ASSUME IInv, PInv, ~Open
  PROVE  Len(manifest) + 1 \notin DOMAIN seg
<1>1. Len(manifest) + 1 \notin DOMAIN manifest
  BY DEF IInv, TypeOK, DiskOK
<1>2. QED
  BY <1>1, Zenon DEF PInv, Kept, Names

(* What a repair leaves of a file that has lines is not empty. *)
LEMMA CutLeavesLines ==
  ASSUME IInv, PInv, NEW p \in Procs, pc[p] = "fragged", files[active] # <<>>
  PROVE  SubSeq(files[active], 1, ch[p].count) # <<>>
<1>1. files[active] \in Seq(Line) /\ ch[p].count \in 0..Len(files[active])
  BY CutIsSuffix, Zenon DEF Repairing
<1>2. CutsAt(files[active], ch[p].count)
  BY Zenon DEF PInv, Cutting, Repairing
<1>3. ch[p].count # 0
  BY <1>1, <1>2 DEF CutsAt, Seals
<1>4. QED
  BY <1>1, <1>3

LEMMA WrittenNotEmpty ==
  ASSUME IInv, active # 0, NEW l, Write(active, l)
  PROVE  files'[active] # <<>>
<1>1. active \in DOMAIN files /\ files[active] \in Seq(Line) /\ files' = [files EXCEPT ![active] = Append(@, l)]
  BY DEF IInv, TypeOK, DiskOK, Write
<1>2. files'[active] = Append(files[active], l)
  BY <1>1, Zenon
<1>3. QED
  BY <1>1, <1>2

LEMMA LinkedStep ==
  ASSUME IInv, Foreign, PInv, Linked, [Next]_vars
  PROVE  Linked'
<1> DEFINE Same == UNCHANGED <<files, active, manifest, seg>>
<1>1. CASE UNCHANGED vars \/ SetPosture \/ RestoreSegment
  BY <1>1, LinkedFrame, Zenon DEF vars, disk, procs, SetPosture, RestoreSegment
<1>2. CASE OlderAppend
  <2>1. UNCHANGED <<active, manifest, seg, pc, op>> /\ active # 0
        /\ (files' = files \/ Write(active, OlderLine(files[active])))
    BY <1>2, Zenon DEF OlderAppend, OlderLine, procs
  <2>2. files[active] # <<>> => files'[active] # <<>>
    <3>1. CASE Write(active, OlderLine(files[active]))
      BY <2>1, <3>1, WrittenNotEmpty, Zenon
    <3>2. QED
      BY <2>1, <3>1, Zenon
  <2>3. QED
    BY <2>1, <2>2, LinkedFrame, Zenon
<1>3. CASE MoveAside
  <2>1. active \in foreign /\ ~Listed(manifest, active) /\ UNCHANGED <<seg, manifest, pc>>
    BY <1>3, Zenon DEF MoveAside, procs
  <2>2. files[active] = <<>> /\ \A q \in Procs : pc[q] # "ready"
    BY <2>1, Zenon DEF Foreign, Writing
  <2>3. QED
    BY <2>1, <2>2, LinkedFresh, Zenon DEF Linked
<1>4. ASSUME NEW p \in Procs, (\E o \in Ops : Invoke(p, o)) \/ Work(p) \/ Fails(p)
      PROVE  Linked'
  <2>1. Others(p) /\ pc \in [Procs -> Steps] /\ op \in [Procs -> OpKinds \cup RepairOps \cup {"none"}]
    BY <1>4, OthersStep, Zenon DEF IInv, TypeOK, ProcsOK
  <2>2. CASE Same /\ (pc'[p] = "ready" /\ op'[p] = "seal" => files[active] # <<>>)
    BY <2>1, <2>2, LinkedFrame, Zenon DEF Others
  <2>3. CASE Same /\ Leave(p)
    BY <2>1, <2>2, <2>3, Zenon DEF Leave
  <2>4. CASE (\E o \in Ops : Invoke(p, o)) \/ Fails(p)
    <3>1. CASE \E o \in Ops : Invoke(p, o)
      BY <2>1, <2>2, <3>1, Zenon DEF Invoke, Goto, disk
    <3>2. QED
      BY <2>3, <2>4, <3>1, Zenon DEF Fails, Busy, AppendTorn, RotateCopyFails, RepairCopyFails, Crash, disk
  <2>5. CASE LockActive(p)
    <3>1. CASE Admit(p)
      <4>1. h[p] = active
        BY <3>1, ConfirmedWalk, Zenon DEF Admit
      <4>2. op' = op /\ (pc'[p] = "ready" /\ op[p] = "seal" => files[active] # <<>>)
        BY <2>1, <3>1, <4>1, Zenon DEF Admit, Acceptable, Appending, Completing, Goto
      <4>3. QED
        BY <2>2, <3>1, <4>2, Zenon DEF Admit, disk
    <3>2. CASE OpenForAppend(p)
      <4>1. pc'[p] = "opened"
        BY <2>1, <3>2, Zenon DEF OpenForAppend, Goto
      <4>2. CASE active # 0
        BY <2>1, <2>2, <3>2, <4>1, <4>2, Zenon DEF OpenForAppend
      <4>3. CASE active = 0
        <5>1. \A q \in Procs : pc[q] # "ready"
          BY <4>3, Zenon DEF IInv, Writers, Rotating, Writing
        <5>2. Len(manifest) + 1 \notin DOMAIN seg
          BY <4>3, NoNextName, Zenon DEF Open
        <5>3. QED
          BY <2>1, <3>2, <4>1, <5>1, <5>2, LinkedFresh, Zenon DEF OpenForAppend, Others
      <4>4. QED
        BY <4>2, <4>3, Zenon
    <3>3. CASE Walk(p) \/ LockExclusive(p) \/ (Stale(p) /\ try[p] < Attempts)
      BY <2>1, <2>2, <3>3, Zenon DEF Walk, LockExclusive, Stale, Retry, Goto, disk
    <3>4. QED
      BY <2>3, <2>5, <3>1, <3>2, <3>3, Zenon DEF LockActive, WalkFails, Refuse, Stale, Retry, disk
  <2>6. CASE AppendEvent(p) \/ SealAppend(p)
    <3>1. /\ pc[p] \in {"ready", "linked"} /\ pc'[p] \in {"idle", "sealed"}
          /\ Write(h[p], EventLine(p)) \/ Write(h[p], SealLine(p))
          /\ UNCHANGED <<active, manifest, seg>>
      BY <2>1, <2>6, Zenon DEF AppendEvent, SealAppend, Leave, Goto
    <3>2. h[p] = active /\ active # 0
      BY <3>1, Zenon DEF IInv, Writers, Rotating, Writing
    <3>3. files'[active] # <<>>
      BY <3>1, <3>2, WrittenNotEmpty, Zenon
    <3>4. QED
      BY <2>1, <3>1, <3>3, LinkedFrame, Zenon DEF Others
  <2>7. CASE SealLink(p) \/ RotateCopy(p)
    <3>1. files[active] # <<>>
      BY <2>7, Zenon DEF SealLink, RotateCopy, Linked, IInv, Writers
    <3>2. UNCHANGED <<files, active, manifest>>
      BY <2>7, Zenon DEF SealLink, RotateCopy
    <3>3. QED
      BY <3>1, <3>2, LinkedFrame, Zenon
  <2>8. CASE RotateManifest(p)
    <3>1. pc[p] = "copied" /\ pc'[p] = "listed" /\ UNCHANGED <<files, active, seg, op>>
          /\ wk[p] = manifest /\ files[active] # <<>>
      BY <2>1, <2>8, Zenon DEF RotateManifest, Goto, IInv, Writers, Writing
    <3>2. QED
      BY <2>1, <3>1, Zenon DEF Linked
  <2>9. CASE RotateSwap(p)
    <3>1. Listed(manifest, active) /\ pc[p] = "listed" /\ pc'[p] # "ready" /\ UNCHANGED <<seg, manifest>>
      BY <2>1, <2>9, Zenon DEF RotateSwap, Leave, Goto, IInv, Writers
    <3>2. \A q \in Procs : pc[q] # "ready"
      BY <3>1, Zenon DEF IInv, Writers, Writing
    <3>3. Len(manifest) + 1 \notin DOMAIN seg
      BY <3>1, NoNextName, Zenon DEF Open
    <3>4. QED
      BY <2>1, <3>1, <3>2, <3>3, LinkedFresh, Zenon DEF Others
  <2>10. CASE Read(p)
    BY <2>1, <2>2, <2>3, <2>10, Zenon
       DEF Read, OpenByName, LockShared, ReadStale, Retry, ReadDone, Goto, disk
  <2>11. CASE Repair(p)
    <3>1. CASE Truncate(p)
      <4>1. pc[p] = "fragged" /\ h[p] = active /\ pc'[p] = "start" /\ UNCHANGED <<active, manifest, seg>>
            /\ files' = [files EXCEPT ![h[p]] = SubSeq(files[h[p]], 1, ch[p].count)]
        BY <2>1, <3>1, Zenon DEF Truncate, Goto, Repairing, IInv, Repairs
      <4>2. active \in DOMAIN files
        <5>1. Open
          BY <4>1, CutIsSuffix, Zenon DEF Repairing
        <5>2. QED
          BY <5>1 DEF Open, IInv, TypeOK, DiskOK
      <4>3. files[active] # <<>> => files'[active] # <<>>
        BY <4>1, <4>2, CutLeavesLines, Zenon
      <4>4. QED
        BY <2>1, <4>1, <4>3, LinkedFrame, Zenon DEF Others
    <3>2. QED
      BY <2>1, <2>2, <2>3, <2>11, <3>1, Zenon
         DEF Repair, RepairRead, RepairCopy, OpenForRepair, MoveTailAside, WriteTornFragment, RepairRefuse,
             Goto, disk
  <2>12. QED
    BY <1>4, <2>4, <2>5, <2>6, <2>7, <2>8, <2>9, <2>10, <2>11, Zenon DEF Work, SealActive, Rotate
<1>5. QED
  BY <1>1, <1>2, <1>3, <1>4, Zenon DEF Next

-----------------------------------------------------------------------------
(* What a reader of the set finds.                                          *)

(* Where a listed segment ends in the chain. *)
LEMMA SegmentEnd ==
  ASSUME IInv, NEW k \in DOMAIN manifest
  PROVE  manifest[k].head \in DOMAIN log /\ manifest[k].hash = log[manifest[k].head].uid
<1> DEFINE sha == manifest[k].sha
           b == Base(Before(manifest, k))
<1>1. manifest \in Seq(ManifestEntry) /\ log \in Seq(Line)
  BY Zenon DEF IInv, TypeOK, DiskOK, HistoryOK
<1>2. sha \in Seq(Line) /\ sha # <<>>
  <2>1. manifest[k] \in ManifestEntry
    BY <1>1
  <2>2. QED
    BY <2>1, Zenon DEF ManifestEntry, IInv, Sets
<1>3. manifest[k] = Entry(Before(manifest, k), sha) /\ Stores(sha, b)
  BY Zenon DEF IInv, DiskIsLog
<1>4. Before(manifest, k) \in Seq(ManifestEntry)
  BY <1>1 DEF Before
<1>5. b \in Nat
  BY <1>4, BaseType, Zenon
<1>6. manifest[k].head = b + Len(sha) /\ manifest[k].hash = sha[Len(sha)].uid
  BY <1>3 DEF Entry
<1> HIDE DEF sha, b
<1>7. Len(sha) \in DOMAIN sha /\ Len(sha) \in Nat /\ Len(sha) > 0
  BY <1>2, LastElement, Zenon
<1>8. sha[Len(sha)] = log[b + Len(sha)] /\ b + Len(sha) <= Len(log)
  BY <1>3, <1>7, Zenon DEF Stores
<1>9. b + Len(sha) \in DOMAIN log
  BY <1>1, <1>5, <1>7, <1>8
<1>10. QED
  BY <1>6, <1>8, <1>9, Zenon

(* Lines that are the chain's, behind a manifest that ends there, verify. *)
LEMMA StoredVerifies ==
  ASSUME ChainIntact, log \in Seq(Line), NEW m, NEW ls \in Seq(Line), Base(m) \in Nat, Stores(ls, Base(m)),
         \/ Base(m) = 0 /\ Prev(m) = 0
         \/ Base(m) \in DOMAIN log /\ Prev(m) = log[Base(m)].uid
  PROVE  Verifies(m, ls)
<1> DEFINE b == Base(m)
<1>1. DOMAIN log = 1..Len(log) /\ Len(log) \in Nat /\ DOMAIN ls = 1..Len(ls) /\ Len(ls) \in Nat /\ b \in Nat
  OBVIOUS
<1>2. b + Len(ls) <= Len(log) /\ \A j \in DOMAIN ls : ls[j] = log[b + j]
  BY Zenon DEF Stores
<1> HIDE DEF b
<1>3. ASSUME NEW k \in DOMAIN ls
      PROVE  ls[k].seq = b + k /\ ls[k].prev = (IF k = 1 THEN Prev(m) ELSE ls[k - 1].uid)
  <2>1. b + k \in DOMAIN log
    BY <1>1, <1>2
  <2>2. ls[k].seq = b + k /\ ls[k].prev = (IF b + k = 1 THEN 0 ELSE log[(b + k) - 1].uid)
    <3> DEFINE i == b + k
    <3> HIDE DEF i
    <3>1. log[i].seq = i /\ log[i].prev = (IF i = 1 THEN 0 ELSE log[i - 1].uid)
      <4>1. i \in DOMAIN log
        BY <2>1, Zenon DEF i
      <4>2. QED
        BY <4>1, Zenon DEF ChainIntact
    <3>2. ls[k] = log[b + k]
      BY <1>2, Zenon
    <3>3. QED
      BY <3>1, <3>2, Zenon DEF i
  <2>3. CASE k = 1
    <3>1. (b + k) - 1 = b /\ (b + k = 1 <=> b = 0)
      BY <1>1, <2>3
    <3>2. b = 0 => Prev(m) = 0
      BY <1>1 DEF b
    <3>3. b # 0 => Prev(m) = log[b].uid
      BY Zenon DEF b
    <3>4. QED
      BY <2>2, <2>3, <3>1, <3>2, <3>3
  <2>4. CASE k # 1
    <3>1. k - 1 \in DOMAIN ls /\ b + (k - 1) = (b + k) - 1 /\ b + k # 1
      BY <1>1, <2>4
    <3>2. ls[k - 1] = log[(b + k) - 1]
      BY <1>2, <3>1
    <3>3. QED
      BY <2>2, <2>4, <3>1, <3>2
  <2>5. QED
    BY <2>3, <2>4, Zenon
<1>4. QED
  BY <1>3, Zenon DEF Verifies, b

(* Every listed segment verifies, but for what an older binary added to    *)
(* the first.                                                              *)
LEMMA SetVerifies ==
  ASSUME IInv, Foreign, PInv
  PROVE  \A k \in DOMAIN manifest : SealedOK(manifest, k) \/ (OlderWriter /\ k = 1 /\ seg[k] \in foreign)
<1>1. manifest \in Seq(ManifestEntry) /\ log \in Seq(Line) /\ ChainIntact
  BY Zenon DEF IInv, TypeOK, DiskOK, HistoryOK
<1>2. ASSUME NEW k \in DOMAIN manifest
      PROVE  SealedOK(manifest, k) \/ (OlderWriter /\ k = 1 /\ seg[k] \in foreign)
  <2> DEFINE sha == manifest[k].sha
             m == Before(manifest, k)
  <2>1. /\ k \in DOMAIN seg /\ files[seg[k]] = sha /\ seg[k] \notin torn
        /\ manifest[k] = Entry(m, sha) /\ Stores(sha, Base(m))
    BY Zenon DEF IInv, DiskIsLog
  <2>2. sha # <<>> /\ Seals(sha) = {Len(sha)} /\ sha[Len(sha)].seg = k
    BY Zenon DEF IInv, Sets, PInv, Kept, ListedSealed
  <2>3. sha \in Seq(Line) /\ m \in Seq(ManifestEntry)
    <3>1. manifest[k] \in ManifestEntry
      BY <1>1
    <3>2. m \in Seq(ManifestEntry)
      BY <1>1 DEF Before
    <3>3. QED
      BY <3>1, <3>2, Zenon DEF ManifestEntry
  <2>4. Base(m) \in Nat
    BY <2>3, BaseType, Zenon
  <2>5. \/ Base(m) = 0 /\ Prev(m) = 0
        \/ Base(m) \in DOMAIN log /\ Prev(m) = log[Base(m)].uid
    <3>1. CASE k = 1
      BY <1>1, <3>1 DEF Base, Prev, Before
    <3>2. CASE k # 1
      <4>1. k - 1 \in DOMAIN manifest /\ Base(m) = manifest[k - 1].head /\ Prev(m) = manifest[k - 1].hash
        <5>1. Len(m) = k - 1 /\ k - 1 \in DOMAIN manifest /\ m # <<>>
          BY <1>1, <3>2 DEF Before
        <5>2. m[k - 1] = manifest[k - 1]
          BY <1>1, <3>2 DEF Before
        <5> HIDE DEF m
        <5>3. QED
          BY <5>1, <5>2, Zenon DEF Base, Prev
      <4>2. QED
        BY <4>1, SegmentEnd, Zenon
    <3>3. QED
      BY <3>1, <3>2, Zenon
  <2>6. Verifies(m, sha)
    BY <1>1, <2>1, <2>3, <2>4, <2>5, StoredVerifies, Zenon
  <2>7. QED
    BY <2>1, <2>2, <2>6, Zenon DEF SealedOK, Foreign
<1>3. QED
  BY <1>2, Zenon

(* The active is clean or has a fault that repair handles, at every        *)
(* instant and not only when nobody holds its lock; or it is the empty one *)
(* an older binary began a chain of its own in.                            *)
LEMMA SetVerdict ==
  ASSUME IInv, Foreign, PInv, active # 0
  PROVE  \/ Verdict(manifest, active) \in Clean \cup Repairable
         \/ OlderWriter /\ Verdict(manifest, active) = "foreign" /\ files[active] = <<>>
<1> DEFINE ls == files[active]
<1>1. manifest \in Seq(ManifestEntry) /\ log \in Seq(Line) /\ ChainIntact /\ ls \in Seq(Line)
  BY DEF IInv, TypeOK, DiskOK, HistoryOK
<1>2. ~Unexpected(manifest, active)
  <2>1. ASSUME NEW k \in DOMAIN seg, k > Len(manifest)
        PROVE  k = Len(manifest) + 1 /\ seg[k] = active
    <3>1. k \notin DOMAIN manifest
      BY <1>1, <2>1
    <3>2. QED
      BY <3>1, Zenon DEF PInv, Kept, Names
  <2>2. QED
    BY <2>1, Zenon DEF Unexpected
<1>3. CASE Listed(manifest, active)
  BY <1>2, <1>3, Zenon DEF Verdict, Clean
<1>4. CASE ~Listed(manifest, active)
  <2>1. Stores(ls, Base(manifest)) /\ Base(manifest) \in Nat
    BY <1>1, <1>4, BaseType, Zenon DEF IInv, DiskIsLog
  <2>2. \/ Base(manifest) = 0 /\ Prev(manifest) = 0
        \/ Base(manifest) \in DOMAIN log /\ Prev(manifest) = log[Base(manifest)].uid
    <3>1. CASE manifest = <<>>
      BY <3>1, Zenon DEF Base, Prev
    <3>2. CASE manifest # <<>>
      BY <3>2, LastSegment, Zenon
    <3>3. QED
      BY <3>1, <3>2, Zenon
  <2>3. Verifies(manifest, ls)
    BY <1>1, <2>1, <2>2, StoredVerifies, Zenon
  <2> SUFFICES ASSUME active \notin foreign
               PROVE  Verdict(manifest, active) \in Clean \cup Repairable
    BY <1>2, <1>4, Zenon DEF Verdict, Foreign
  <2>4. CASE active \in torn
    BY <1>2, <1>4, <2>3, <2>4, Zenon DEF Verdict, Repairable
  <2>5. CASE active \notin torn
    <3>1. Verdict(manifest, active) = FinishActive(manifest, ls)
      BY <1>2, <1>4, <2>3, <2>5, Zenon DEF Verdict
    <3>2. CASE \E k \in Seals(ls) : k < Len(ls)
      BY <3>1, <3>2, Zenon DEF FinishActive, Repairable
    <3>3. CASE Seals(ls) = {}
      BY <3>1, <3>3, Zenon DEF FinishActive, Clean
    <3>4. CASE Seals(ls) # {} /\ ~\E k \in Seals(ls) : k < Len(ls)
      <4>1. PICK k \in Seals(ls) : TRUE
        BY <3>4, Zenon
      <4>2. k \in DOMAIN ls /\ ~(k < Len(ls))
        BY <3>4, <4>1, Zenon DEF Seals
      <4>3. k = Len(ls)
        BY <1>1, <4>2
      <4>4. ls[Len(ls)].seg = Len(manifest) + 1
        BY <1>4, <4>1, <4>3, Zenon DEF PInv, Kept, ActiveMarked, Open
      <4>5. QED
        BY <3>1, <3>4, <4>4, Zenon DEF FinishActive, Clean
    <3>5. QED
      BY <3>2, <3>3, <3>4, Zenon
  <2>6. QED
    BY <2>4, <2>5, Zenon
<1>5. QED
  BY <1>3, <1>4, Zenon

-----------------------------------------------------------------------------
(* The steps, seen as steps of the abstract history.                        *)

(* A record written to the active extends the history. *)
LEMMA ExtendsHistory ==
  ASSUME IInv, PInv, IInv', NEW i, NEW l, Write(i, l), l.uid = lines + 1, UNCHANGED aside
  PROVE  History!Extend
<1>1. log \in Seq(Line) /\ lines \in Nat /\ log' \in Seq(Line) /\ log' = Append(log, l)
  BY Zenon DEF IInv, TypeOK, HistoryOK, Write
<1>2. /\ Len(log) \in Nat /\ Len(log') = Len(log) + 1 /\ log'[Len(log) + 1] = l /\ Len(log) + 1 \in DOMAIN log'
      /\ \A k \in 1..Len(log) : log'[k] = log[k]
  BY <1>1
<1>3. SubSeq(log', 1, Len(log)) = log
  <2> DEFINE t == SubSeq(log', 1, Len(log))
  <2>1. t \in Seq(Line) /\ Len(t) = Len(log) /\ \A k \in 1..Len(log) : t[k] = log'[k]
    BY <1>1, <1>2
  <2> HIDE DEF t
  <2>2. t = log
    BY <1>1, <1>2, <2>1, SameElements, Zenon
  <2>3. QED
    BY <2>2, Zenon DEF t
<1>4. l.seq = Len(log) + 1 /\ l.prev = (IF Len(log) + 1 = 1 THEN 0 ELSE log'[Len(log) + 1 - 1].uid)
  <2>1. ChainIntact'
    BY Zenon DEF IInv
  <2>2. QED
    BY <1>2, <2>1 DEF ChainIntact
<1>5. l.prev = History!HeadUid(log)
  <2>1. CASE log = <<>>
    BY <1>4, <2>1 DEF History!HeadUid
  <2>2. CASE log # <<>>
    <3>1. Len(log) + 1 # 1 /\ Len(log) + 1 - 1 = Len(log) /\ Len(log) \in 1..Len(log)
      BY <1>1, <2>2
    <3>2. log'[Len(log) + 1 - 1] = log[Len(log)]
      BY <1>2, <3>1
    <3>3. QED
      BY <1>4, <2>2, <3>1, <3>2, Zenon DEF History!HeadUid
  <2>3. QED
    BY <2>1, <2>2, Zenon
<1>6. l.uid \notin History!Uids(log) \cup aside \cup {0}
  <2>1. History!Uids(log) \subseteq 1..lines /\ aside \subseteq 1..lines
    BY Zenon DEF PInv, Kept, Numbered, History!Uids
  <2>2. QED
    BY <1>1, <2>1
<1>7. QED
  BY <1>2, <1>3, <1>4, <1>5, <1>6, Zenon DEF History!Extend

LEMMA HistoryStep ==
  ASSUME IInv, PInv, IInv', [Next]_vars
  PROVE  [History!Next]_<<log, aside>>
<1> USE DEF disk, history
<1>1. CASE UNCHANGED vars \/ SetPosture \/ MoveAside \/ RestoreSegment
  BY <1>1, Zenon DEF vars, SetPosture, MoveAside, RestoreSegment
<1>2. CASE OlderAppend
  <2>1. CASE Write(active, OlderLine(files[active]))
    <3>1. OlderLine(files[active]).uid = lines + 1 /\ UNCHANGED aside
      BY <1>2, Zenon DEF OlderLine, OlderAppend
    <3>2. QED
      BY <2>1, <3>1, ExtendsHistory, Zenon DEF History!Next
  <2>2. CASE UNCHANGED log
    BY <1>2, <2>2, Zenon DEF OlderAppend
  <2>3. QED
    BY <1>2, <2>1, <2>2, Zenon DEF OlderAppend, OlderLine
<1>3. ASSUME NEW p \in Procs, (\E o \in Ops : Invoke(p, o)) \/ Work(p) \/ Fails(p)
      PROVE  [History!Next]_<<log, aside>>
  <2>1. Others(p) /\ OthersPre(p)
    BY <1>3, OthersStep, OthersPreStep, Zenon
  <2>2. CASE (\E o \in Ops : Invoke(p, o)) \/ Fails(p)
    BY <2>2, Zenon DEF Invoke, Fails, Busy, AppendTorn, RotateCopyFails, RepairCopyFails, Crash
  <2>3. CASE LockActive(p)
    BY <2>3, Zenon DEF LockActive, Walk, WalkFails, OpenForAppend, LockExclusive, Stale, Refuse, Admit
  <2>4. CASE AppendEvent(p)
    <3>1. Write(h[p], EventLine(p)) /\ EventLine(p).uid = lines + 1 /\ UNCHANGED aside
      BY <2>4, Zenon DEF AppendEvent, EventLine, NextLine
    <3>2. QED
      BY <3>1, ExtendsHistory, Zenon DEF History!Next
  <2>5. CASE SealAppend(p)
    <3>1. Write(h[p], SealLine(p)) /\ SealLine(p).uid = lines + 1 /\ UNCHANGED aside
      BY <2>5, Zenon DEF SealAppend, SealLine, NextLine
    <3>2. QED
      BY <3>1, ExtendsHistory, Zenon DEF History!Next
  <2>6. CASE SealLink(p) \/ Rotate(p)
    BY <2>6, Zenon DEF SealLink, Rotate, RotateCopy, RotateManifest, RotateSwap
  <2>7. CASE Read(p)
    BY <2>7, Zenon DEF Read, OpenByName, LockShared, ReadStale, ReadDone
  <2>8. CASE WriteTornFragment(p)
    <3> DEFINE a == Base(manifest) + ch[p].count
    <3>1. aside' = aside \cup History!Uids(Cuts(p)) /\ pc[p] \in Repairing /\ UNCHANGED log
      BY <2>1, <2>8, FragmentPromises, Zenon
    <3>2. a \in 0..Len(log) /\ Cuts(p) = SubSeq(log, a + 1, Len(log))
      BY <3>1, CutIsSuffix, Zenon
    <3> HIDE DEF a
    <3>3. History!Preserve
      BY <3>1, <3>2, Zenon DEF History!Preserve
    <3>4. QED
      BY <3>3, Zenon DEF History!Next
  <2>9. CASE Truncate(p)
    <3> DEFINE a == Base(manifest) + ch[p].count
    <3>1. /\ log' = SubSeq(log, 1, a) /\ UNCHANGED aside
          /\ History!Uids(SubSeq(log, a + 1, Len(log))) \subseteq aside
          /\ log' = log \/ (a \in DOMAIN log /\ log[a].act = "seal")
      BY <2>9, TruncateCut, Zenon
    <3> HIDE DEF a
    <3>2. CASE log' = log
      BY <3>1, <3>2, Zenon
    <3>3. CASE a \in DOMAIN log /\ log[a].act = "seal"
      BY <3>1, <3>3, Zenon DEF History!Cut, History!Next
    <3>4. QED
      BY <3>1, <3>2, <3>3, Zenon
  <2>10. CASE RepairRead(p) \/ RepairCopy(p) \/ OpenForRepair(p) \/ RepairRefuse(p)
    BY <2>10, Zenon DEF RepairRead, RepairCopy, OpenForRepair, RepairRefuse
  <2>11. QED
    BY <1>3, <2>2, <2>3, <2>4, <2>5, <2>6, <2>7, <2>8, <2>9, <2>10, Zenon
       DEF Work, SealActive, Repair, MoveTailAside
<1>4. QED
  BY <1>1, <1>2, <1>3, Zenon DEF Next

-----------------------------------------------------------------------------
(* The promises.                                                            *)

(* With IInv and Foreign, PInv and Linked are an inductive invariant of    *)
(* the ledger: what a seal is followed by, which copies are owed, what a   *)
(* repair cuts, and which files have a segment name.                       *)
THEOREM PromisesInvariance == Spec => []((IInv /\ Foreign) /\ (PInv /\ Linked))
<1>1. Init => (IInv /\ Foreign) /\ (PInv /\ Linked)
  BY InitIInv, InitForeign, InitPInv, InitLinked, Zenon
<1>2. (IInv /\ Foreign) /\ (PInv /\ Linked) /\ [Next]_vars => ((IInv /\ Foreign) /\ (PInv /\ Linked))'
  BY NextIInv, ForeignStep, NextPInv, LinkedStep, Zenon
<1>3. QED
  BY <1>1, <1>2, PTL DEF Spec

(* Nothing written is lost, whatever crashes, repairs and sink failures    *)
(* interleave: an acknowledged record and a published head stay in the     *)
(* chain for good, and every other line is in the chain or in a fragment   *)
(* (appendOn, moveTailAside).                                              *)
THEOREM WrittenIsKept == Spec => []NothingLost
<1>1. IInv /\ PInv => NothingLost
  <2> SUFFICES ASSUME IInv, PInv PROVE NothingLost
    OBVIOUS
  <2>1. \A k \in DOMAIN log : log[k].uid \in History!Uids(log)
    BY Zenon DEF History!Uids
  <2>2. acked \subseteq History!Uids(log) /\ 1..lines \subseteq History!Uids(log) \cup aside
    <3>1. ASSUME NEW u \in acked PROVE u \in History!Uids(log)
      BY <2>1, Zenon DEF PInv, Kept, Published
    <3>2. ASSUME NEW u \in 1..lines PROVE u \in History!Uids(log) \cup aside
      BY <2>1, Zenon DEF PInv, Kept, Numbered
    <3>3. QED
      BY <3>1, <3>2, Zenon
  <2>3. QED
    BY <2>2, Zenon DEF NothingLost, PInv, Kept, Published
<1>2. QED
  BY <1>1, PromisesInvariance, PTL

(* A listed segment whose seal record names a sink has its copy there,     *)
(* byte for byte, and the sink holds no other (rotate, Put, Prepare).      *)
THEOREM SealsAreProtected == Spec => []CopiesProtect
<1>1. PInv => CopiesProtect
  BY Zenon DEF PInv, Kept, Owed, Copied, CopiesProtect
<1>2. QED
  BY <1>1, PromisesInvariance, PTL

(* Whatever a crash left, every sealed segment verifies, only an older     *)
(* binary's lines follow a seal, and the active is open, sealed, listed or *)
(* has a fault that repair handles; where an older binary wrote outside    *)
(* the chain it is segment 1 or an active without a line of the chain that *)
(* is refused (Read, readActive, finishActive, mapActiveFault).            *)
THEOREM SetStaysReadable == Spec => []AlwaysReadable
<1>1. IInv /\ Foreign /\ PInv => AlwaysReadable
  <2> SUFFICES ASSUME IInv, Foreign, PInv PROVE AlwaysReadable
    OBVIOUS
  <2>2. ASSUME NEW i \in DOMAIN files, NEW k \in Seals(files[i]), NEW j \in k + 1 .. Len(files[i])
        PROVE  files[i][j].act = "older"
    <3>1. files[i] \in Seq(Line)
      BY DEF IInv, TypeOK, DiskOK
    <3>2. k \in DOMAIN files[i]
      BY Zenon DEF Seals
    <3>3. j \in DOMAIN files[i] /\ j > k
      BY <3>1, <3>2
    <3>4. QED
      BY <3>3, Zenon DEF PInv, Kept, SealsLast, WellSealed
  <2>3. QED
    BY <2>2, SetVerifies, SetVerdict, Zenon DEF AlwaysReadable
<1>2. QED
  BY <1>1, PromisesInvariance, PTL

(* A writer that has confirmed its handle and its walk under the lock      *)
(* never takes another's rotation for damage: it refuses only an active    *)
(* an older binary began (lockActive).                                     *)
THEOREM RotationIsNoDamage == Spec => []NoFalseAlarm
<1>1. IInv /\ Foreign /\ PInv => NoFalseAlarm
  BY ConfirmedWalk, SetVerdict, Zenon DEF NoFalseAlarm, ActiveVerdict
<1>2. QED
  BY <1>1, PromisesInvariance, PTL

(* The segment set with its locks, crashes and repairs implements the      *)
(* abstract history: every step extends the chain by one well-formed       *)
(* record, preserves a suffix, cuts a preserved suffix behind a seal, or   *)
(* leaves the history alone, as what an older binary writes outside the    *)
(* chain and the operator's removal of it do.                              *)
THEOREM LedgerImplementsHistory == Spec => ImplementsHistory
<1>1. Init => History!Init
  BY Zenon DEF Init, History!Init
<1>2. IInv /\ PInv /\ IInv' /\ [Next]_vars => [History!Next]_<<log, aside>>
  BY HistoryStep, Zenon
<1>3. QED
  BY <1>1, <1>2, PromisesInvariance, PTL DEF Spec, ImplementsHistory, History!Spec

=============================================================================
