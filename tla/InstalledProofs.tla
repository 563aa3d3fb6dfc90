--------------------------- MODULE InstalledProofs ---------------------------
(***************************************************************************)
(* What holds of the installed configuration for any number of commands,   *)
(* configurations and invokers and any number of faults: the record of     *)
(* installs is authorized link by link, no update is lost, signatures and  *)
(* verify.floor never go back, and what a run or a pull uses is on record. *)
(***************************************************************************)
EXTENDS Installed, WellFoundedInduction, TLAPS

-----------------------------------------------------------------------------
(* The inductive invariant.                                                 *)

Acts == Installs \cup {"refused", "rejected", "directory", "note"}
Config == Configs \cup {None}
Invoker == Invokers \cup {None}
Expectation == Config \cup {"any"}
Entry == [act : Acts, hash : Config, by : Invoker, boot : BOOLEAN, exp : Expectation]
Version == [log : Nat, ver : Nat]
Job == [kind : {"none", "apply", "flip", "vouch", "sign", "run", "pinned", "pull"},
        cfg : Config, by : Invoker, exp : Expectation]
Root == [pointer : Config, ledger : Seq(Entry), logid : Nat, sig : [Configs -> Version]]
Places == Exclusive \cup Shared \cup {"idle", "want", "pullLedger", "pullSig"}

RootTypes ==
  /\ pointer \in Config /\ ledger \in Seq(Entry) /\ logid \in Nat \ {0} /\ sig \in [Configs -> Version]
  /\ floor \in Version /\ backup \in Root /\ faults \in Nat

ProcTypes ==
  /\ pc \in [Procs -> Places] /\ job \in [Procs -> Job]
  /\ seen \in [Procs -> Config] /\ ver \in [Procs -> Version]

(* installed.lock: one exclusive holder, and then no other. *)
Locks == \A p, q \in Procs : p # q /\ pc[p] \in Exclusive => pc[q] \notin Exclusive \cup Shared

(* What a writer that has judged knows of the record it will replace, until *)
(* it has written its own.                                                  *)
Judged(p) ==
  /\ job[p].kind = "apply" => job[p].cfg \in Configs
  /\ pc[p] \in {"commit", "record"} =>
       /\ job[p].kind \in Installs /\ job[p].cfg \in Configs /\ Valid(job[p].cfg)
       /\ job[p].kind # "vouch" /\ seen[p] # None => OnRecord(seen[p]) /\ job[p].by \in Grants[seen[p]]
       /\ job[p].kind = "apply" => job[p].exp \in {"any", seen[p]}

(* A signer and a run, under the lock, know the last install. *)
Knows(p) ==
  /\ pc[p] \in {"signWrite", "verify", "advance"} =>
       seen[p] \in Configs /\ OnRecord(seen[p]) /\ ver[p] = Facts
  /\ pc[p] \in {"vouch", "pullLedger"} => seen[p] \in Configs
  /\ pc[p] = "advance" => \/ floor = NoInstall \/ floor = ver[p]
                          \/ floor.log = ver[p].log /\ floor.ver < ver[p].ver

(* The version v is an install of c on the ledger l of identity id. *)
Recorded(v, c, id, l) == v.log = id /\ v.ver \in DOMAIN l /\ Installing(l[v.ver]) /\ l[v.ver].hash = c

(* A pull knows an install. *)
Pulls(p) == pc[p] = "pullSig" => seen[p] \in Configs /\ Recorded(ver[p], seen[p], logid, ledger)

ProcOK(p) == Judged(p) /\ Knows(p) /\ Pulls(p)

(* What the properties say of the ledger, of any ledger. *)
Before(l, k) == LastInstalling(SubSeq(l, 1, k - 1))

Authorized(l, k) ==
  l[k].act \in {"apply", "flip"} /\ ~l[k].boot =>
    Before(l, k) > 0 /\ l[k].by \in Grants[l[Before(l, k)].hash]

Updates(l, k) ==
  l[k].act = "apply" /\ l[k].exp # "any" =>
    IF l[k].exp = None THEN l[k].boot
    ELSE Before(l, k) > 0 /\ l[Before(l, k)].hash = l[k].exp

LedgerOK(l) ==
  /\ \A k \in DOMAIN l : Authorized(l, k) /\ Updates(l, k)
  /\ \A k \in DOMAIN l : Installing(l[k]) => l[k].hash \in Configs /\ Valid(l[k].hash)

SigsOK(s, id, l) == \A c \in Configs : s[c].log = id => Recorded(s[c], c, id, l)

Roots ==
  /\ LedgerOK(ledger) /\ SigsOK(sig, logid, ledger)
  /\ backup # NoRoot => /\ backup.logid # 0
                        /\ LedgerOK(backup.ledger) /\ SigsOK(backup.sig, backup.logid, backup.ledger)

Inv ==
  /\ RootTypes /\ ProcTypes /\ Locks /\ Roots
  /\ \A p \in Procs : ProcOK(p)
  /\ verified = floor

-----------------------------------------------------------------------------
(* The last installing record of a ledger.                                  *)

LEMMA Least ==
  ASSUME NEW T, T \subseteq Nat, T # {}
  PROVE  \E x \in T : \A y \in T : x <= y
<1> DEFINE Less == {ss \in Nat \X Nat : ss[1] < ss[2]}
<1>1. IsWellFoundedOn(Less, Nat)
  BY NatLessThanWellFounded, Zenon DEF OpToRel
<1>2. PICK x \in T : \A y \in T : ~(<<y, x>> \in Less)
  <2> HIDE DEF Less
  <2>1. QED
    BY <1>1, WFMin, Zenon
<1>3. ASSUME NEW y \in T PROVE x <= y
  <2>1. x \in Nat /\ y \in Nat /\ ~(<<y, x>> \in Less)
    BY <1>2
  <2>2. ~(y < x)
    BY <2>1
  <2>3. QED
    BY <2>1, <2>2
<1>4. QED
  BY <1>3

LEMMA Maximum ==
  ASSUME NEW n \in Nat, NEW S, S \subseteq 1..n, S # {}
  PROVE  \E k \in S : \A j \in S : j <= k
<1> DEFINE T == {i \in 0..n : n - i \in S}
<1>1. \A k \in S : n - k \in T
  OBVIOUS
<1>2. T \subseteq Nat
  OBVIOUS
<1>3. T # {}
  <2> HIDE DEF T
  <2>1. QED
    BY <1>1, Zenon
<1>4. PICK x \in T : \A y \in T : x <= y
  <2> HIDE DEF T
  <2>1. QED
    BY <1>2, <1>3, Least, Zenon
<1>5. x \in 0..n /\ n - x \in S
  OBVIOUS
<1>6. ASSUME NEW j \in S PROVE j <= n - x
  <2>1. n - j \in T
    BY <1>1
  <2>2. x <= n - j /\ j \in 1..n
    BY <1>4, <2>1, Zenon
  <2>3. QED
    BY <1>5, <2>2
<1>7. QED
  BY <1>5, <1>6

LEMMA LastInstall ==
  ASSUME NEW l \in Seq(Entry)
  PROVE  /\ LastInstalling(l) \in 0..Len(l)
         /\ LastInstalling(l) > 0 => LastInstalling(l) \in DOMAIN l /\ Installing(l[LastInstalling(l)])
         /\ \A j \in DOMAIN l : Installing(l[j]) => LastInstalling(l) > 0 /\ j <= LastInstalling(l)
<1> DEFINE is == {k \in DOMAIN l : Installing(l[k])}
<1>1. is \subseteq 1..Len(l) /\ Len(l) \in Nat /\ DOMAIN l = 1..Len(l)
  OBVIOUS
<1>2. LastInstalling(l) = IF is = {} THEN 0 ELSE CHOOSE k \in is : \A j \in is : j <= k
  BY DEF LastInstalling
<1>3. CASE is = {}
  <2>1. LastInstalling(l) = 0
    BY <1>2, <1>3
  <2>2. \A j \in DOMAIN l : ~Installing(l[j])
    BY <1>3
  <2>3. QED
    BY <1>1, <2>1, <2>2
<1>4. CASE is # {}
  <2> HIDE DEF is
  <2>1. \E k \in is : \A j \in is : j <= k
    BY <1>1, <1>4, Maximum, Zenon
  <2>2. LastInstalling(l) \in is /\ \A j \in is : j <= LastInstalling(l)
    BY <1>2, <1>4, <2>1, Zenon
  <2>3. LastInstalling(l) \in 1..Len(l)
    BY <1>1, <2>2, Zenon
  <2>4. Installing(l[LastInstalling(l)]) /\ \A j \in DOMAIN l : Installing(l[j]) => j \in is
    BY <2>2 DEF is
  <2>5. \A j \in DOMAIN l : Installing(l[j]) => j <= LastInstalling(l)
    BY <2>2, <2>4, Zenon
  <2>6. QED
    BY <1>1, <2>3, <2>4, <2>5
<1>5. QED
  BY <1>3, <1>4

(* A number with the properties of LastInstall is the last install. *)
LEMMA LastUnique ==
  ASSUME NEW l \in Seq(Entry), NEW x \in 0..Len(l),
         x > 0 => Installing(l[x]),
         \A j \in DOMAIN l : Installing(l[j]) => j <= x
  PROVE  LastInstalling(l) = x
<1> DEFINE y == LastInstalling(l)
<1>1. /\ y \in 0..Len(l)
      /\ y > 0 => y \in DOMAIN l /\ Installing(l[y])
      /\ \A j \in DOMAIN l : Installing(l[j]) => y > 0 /\ j <= y
  BY LastInstall
<1> HIDE DEF y
<1>2. DOMAIN l = 1..Len(l) /\ Len(l) \in Nat
  OBVIOUS
<1>3. y <= x
  <2>1. CASE y = 0
    BY <2>1
  <2>2. CASE y > 0
    BY <1>1, <2>2
  <2>3. QED
    BY <1>1, <1>2, <2>1, <2>2
<1>4. x <= y
  <2>1. CASE x = 0
    BY <1>1, <1>2, <2>1
  <2>2. CASE x > 0
    <3>1. x \in DOMAIN l /\ Installing(l[x])
      BY <1>2, <2>2
    <3>2. QED
      BY <1>1, <3>1
  <2>3. QED
    BY <1>2, <2>1, <2>2
<1>5. QED
  BY <1>1, <1>2, <1>3, <1>4 DEF y

LEMMA Appended ==
  ASSUME NEW l \in Seq(Entry), NEW r \in Entry
  PROVE  /\ Append(l, r) \in Seq(Entry) /\ Len(Append(l, r)) = Len(l) + 1
         /\ DOMAIN Append(l, r) = DOMAIN l \cup {Len(l) + 1} /\ DOMAIN l = 1..Len(l) /\ Len(l) \in Nat
         /\ \A k \in DOMAIN l : Append(l, r)[k] = l[k]
         /\ Append(l, r)[Len(l) + 1] = r
  OBVIOUS

(* Log: a record that installs becomes the last install, another leaves it. *)
LEMMA LastAppend ==
  ASSUME NEW l \in Seq(Entry), NEW r \in Entry
  PROVE  LastInstalling(Append(l, r)) = IF Installing(r) THEN Len(l) + 1 ELSE LastInstalling(l)
<1> DEFINE m == Append(l, r)
<1>1. /\ m \in Seq(Entry) /\ Len(m) = Len(l) + 1
      /\ DOMAIN m = DOMAIN l \cup {Len(l) + 1} /\ DOMAIN l = 1..Len(l) /\ Len(l) \in Nat
      /\ \A k \in DOMAIN l : m[k] = l[k]
      /\ m[Len(l) + 1] = r
  BY Appended
<1> HIDE DEF m
<1>2. CASE Installing(r)
  <2>1. Len(l) + 1 \in 0..Len(m) /\ Installing(m[Len(l) + 1])
    BY <1>1, <1>2
  <2>2. \A j \in DOMAIN m : j <= Len(l) + 1
    BY <1>1
  <2>3. LastInstalling(m) = Len(l) + 1
    BY <1>1, <2>1, <2>2, LastUnique
  <2>4. QED
    BY <1>2, <2>3 DEF m
<1>3. CASE ~Installing(r)
  <2> DEFINE x == LastInstalling(l)
  <2>1. /\ x \in 0..Len(l)
        /\ x > 0 => x \in DOMAIN l /\ Installing(l[x])
        /\ \A j \in DOMAIN l : Installing(l[j]) => x > 0 /\ j <= x
    BY LastInstall
  <2> HIDE DEF x
  <2>2. x \in 0..Len(m)
    BY <1>1, <2>1
  <2>3. x > 0 => Installing(m[x])
    BY <1>1, <2>1
  <2>4. \A j \in DOMAIN m : Installing(m[j]) => j <= x
    BY <1>1, <1>3, <2>1
  <2>5. LastInstalling(m) = x
    BY <1>1, <2>2, <2>3, <2>4, LastUnique
  <2>6. QED
    BY <1>3, <2>5 DEF m, x
<1>4. QED
  BY <1>2, <1>3

(* What was installed before a record does not change when one is appended. *)
LEMMA BeforeAppend ==
  ASSUME NEW l \in Seq(Entry), NEW r \in Entry
  PROVE  /\ \A k \in DOMAIN l : Before(Append(l, r), k) = Before(l, k)
         /\ Before(Append(l, r), Len(l) + 1) = LastInstalling(l)
         /\ \A k \in DOMAIN l : Before(l, k) > 0 => Before(l, k) \in DOMAIN l
<1>1. ASSUME NEW k \in DOMAIN l
      PROVE  SubSeq(Append(l, r), 1, k - 1) = SubSeq(l, 1, k - 1)
  OBVIOUS
<1>2. SubSeq(Append(l, r), 1, (Len(l) + 1) - 1) = l
  OBVIOUS
<1>3. ASSUME NEW k \in DOMAIN l, Before(l, k) > 0
      PROVE  Before(l, k) \in DOMAIN l
  <2>1. SubSeq(l, 1, k - 1) \in Seq(Entry) /\ Len(SubSeq(l, 1, k - 1)) = k - 1
    OBVIOUS
  <2>2. Before(l, k) \in 0..(k - 1)
    BY <2>1, LastInstall, Zenon DEF Before
  <2>3. QED
    BY <1>3, <2>2
<1>4. QED
  BY <1>1, <1>2, <1>3, Zenon DEF Before

-----------------------------------------------------------------------------
(* The root's part of the invariant, as the ledger grows.                   *)

(* A record that follows the one before it keeps the ledger's promises. *)
LEMMA LedgerAppend ==
  ASSUME NEW l \in Seq(Entry), NEW r \in Entry, LedgerOK(l),
         Installing(r) => r.hash \in Configs /\ Valid(r.hash),
         r.act \in {"apply", "flip"} /\ ~r.boot =>
           LastInstalling(l) > 0 /\ r.by \in Grants[l[LastInstalling(l)].hash],
         r.act = "apply" /\ r.exp # "any" =>
           IF r.exp = None THEN r.boot
           ELSE LastInstalling(l) > 0 /\ l[LastInstalling(l)].hash = r.exp
  PROVE  LedgerOK(Append(l, r))
<1> DEFINE m == Append(l, r)
<1>1. /\ DOMAIN m = DOMAIN l \cup {Len(l) + 1}
      /\ \A k \in DOMAIN l : m[k] = l[k]
      /\ m[Len(l) + 1] = r
  BY Appended
<1>2. /\ \A k \in DOMAIN l : Before(m, k) = Before(l, k)
      /\ Before(m, Len(l) + 1) = LastInstalling(l)
      /\ \A k \in DOMAIN l : Before(l, k) > 0 => Before(l, k) \in DOMAIN l
  BY BeforeAppend
<1>3. LastInstalling(l) > 0 => m[LastInstalling(l)] = l[LastInstalling(l)]
  BY <1>1, LastInstall
<1> HIDE DEF m
<1>4. ASSUME NEW k \in DOMAIN l PROVE Authorized(m, k) /\ Updates(m, k)
  <2>1. Authorized(l, k) /\ Updates(l, k)
    BY <1>4 DEF LedgerOK
  <2>2. m[k] = l[k] /\ Before(m, k) = Before(l, k) /\ (Before(l, k) > 0 => m[Before(l, k)] = l[Before(l, k)])
    BY <1>1, <1>2
  <2>3. QED
    BY <2>1, <2>2, Zenon DEF Authorized, Updates
<1>5. Authorized(m, Len(l) + 1) /\ Updates(m, Len(l) + 1)
  <2>1. m[Len(l) + 1] = r /\ Before(m, Len(l) + 1) = LastInstalling(l)
    BY <1>1, <1>2
  <2>2. QED
    BY <2>1, <1>3, Zenon DEF Authorized, Updates
<1>6. ASSUME NEW k \in DOMAIN m, Installing(m[k]) PROVE m[k].hash \in Configs /\ Valid(m[k].hash)
  <2>1. CASE k \in DOMAIN l
    BY <1>1, <1>6, <2>1, Zenon DEF LedgerOK
  <2>2. CASE k = Len(l) + 1
    BY <1>1, <1>6, <2>2, Zenon
  <2>3. QED
    BY <1>1, <1>6, <2>1, <2>2
<1>7. LedgerOK(m)
  BY <1>1, <1>4, <1>5, <1>6, Zenon DEF LedgerOK
<1>8. QED
  BY <1>7 DEF m

LEMMA RecordedAppend ==
  ASSUME NEW l \in Seq(Entry), NEW r \in Entry, NEW v \in Version, NEW c, NEW id, Recorded(v, c, id, l)
  PROVE  Recorded(v, c, id, Append(l, r))
<1>1. v.ver \in DOMAIN Append(l, r) /\ Append(l, r)[v.ver] = l[v.ver]
  BY Appended DEF Recorded
<1>2. QED
  BY <1>1, Zenon DEF Recorded

LEMMA SigsAppend ==
  ASSUME NEW l \in Seq(Entry), NEW r \in Entry, NEW s \in [Configs -> Version], NEW id, SigsOK(s, id, l)
  PROVE  SigsOK(s, id, Append(l, r))
  BY RecordedAppend DEF SigsOK

-----------------------------------------------------------------------------
(* What one command's step leaves to the others.                            *)

Same(q) == pc'[q] = pc[q] /\ job'[q] = job[q] /\ seen'[q] = seen[q] /\ ver'[q] = ver[q]

LEMMA SameProc ==
  ASSUME NEW q \in Procs, ProcOK(q), Same(q), UNCHANGED <<ledger, logid, floor>>
  PROVE  ProcOK(q)'
  BY Zenon DEF ProcOK, Same, Judged, Knows, Pulls, Recorded, OnRecord, Facts

(* A record that installs nothing changes nothing a command relies on. *)
LEMMA SameProcNote ==
  ASSUME NEW q \in Procs, ProcOK(q), Same(q), ProcTypes, ledger \in Seq(Entry), NEW r \in Entry, ~Installing(r),
         ledger' = Append(ledger, r), UNCHANGED <<logid, floor>>
  PROVE  ProcOK(q)'
<1>1. LastInstalling(ledger') = LastInstalling(ledger)
  BY LastAppend
<1>2. LastInstalling(ledger) > 0 => ledger'[LastInstalling(ledger)] = ledger[LastInstalling(ledger)]
  BY LastInstall, Appended
<1>3. \A c : OnRecord(c) => OnRecord(c)'
  BY <1>1, <1>2, Zenon DEF OnRecord
<1>4. Facts' = Facts
  BY <1>1, Zenon DEF Facts
<1>5. Judged(q)'
  BY <1>3, Zenon DEF ProcOK, Same, Judged
<1>6. Knows(q)'
  BY <1>3, <1>4, Zenon DEF ProcOK, Same, Knows
<1>7. Pulls(q)'
  <2>1. ver[q] \in Version
    BY DEF ProcTypes
  <2>2. ASSUME pc[q] = "pullSig" PROVE seen[q] \in Configs /\ Recorded(ver[q], seen[q], logid, ledger')
    BY <2>1, <2>2, RecordedAppend DEF ProcOK, Pulls
  <2>3. QED
    BY <2>2, Zenon DEF Same, Pulls
<1>8. QED
  BY <1>5, <1>6, <1>7 DEF ProcOK

(* An install under the lock: the others can only be waiting or pulling. *)
LEMMA SameProcInstall ==
  ASSUME NEW q \in Procs, ProcOK(q), Same(q), ProcTypes, ledger \in Seq(Entry), NEW r \in Entry,
         pc[q] \notin Exclusive \cup Shared, ledger' = Append(ledger, r), UNCHANGED logid
  PROVE  ProcOK(q)'
<1>1. pc[q] \notin {"commit", "record"} /\ pc[q] \notin {"signWrite", "verify", "advance", "vouch"}
  BY Zenon DEF Exclusive, Shared
<1>2. Judged(q)'
  BY <1>1, Zenon DEF ProcOK, Same, Judged
<1>3. Knows(q)'
  BY <1>1, Zenon DEF ProcOK, Same, Knows
<1>4. Pulls(q)'
  <2>1. ver[q] \in Version
    BY DEF ProcTypes
  <2>2. ASSUME pc[q] = "pullSig" PROVE seen[q] \in Configs /\ Recorded(ver[q], seen[q], logid, ledger')
    BY <2>1, <2>2, RecordedAppend DEF ProcOK, Pulls
  <2>3. QED
    BY <2>2, Zenon DEF Same, Pulls
<1>5. QED
  BY <1>2, <1>3, <1>4 DEF ProcOK

LEMMA LocksStep ==
  ASSUME Locks, NEW p \in Procs, \A q \in Procs \ {p} : pc'[q] = pc[q],
         pc'[p] \in Exclusive => pc[p] \in Exclusive \/ NoHolder,
         pc'[p] \in Shared => pc[p] \in Exclusive \cup Shared \/ NoExclusive
  PROVE  Locks'
<1> SUFFICES ASSUME NEW a \in Procs, NEW b \in Procs, a # b, pc'[a] \in Exclusive
             PROVE  pc'[b] \notin Exclusive \cup Shared
  BY Zenon DEF Locks
<1>1. CASE a = p
  <2>1. pc'[b] = pc[b]
    BY <1>1
  <2>2. QED
    BY <1>1, <2>1, Zenon DEF Locks, NoHolder
<1>2. CASE a # p
  <2>1. pc[a] \in Exclusive
    BY <1>2
  <2>2. pc[b] \notin Exclusive \cup Shared
    BY <2>1, Zenon DEF Locks
  <2>3. QED
    BY <2>1, <2>2, Zenon DEF NoHolder, NoExclusive
<1>3. QED
  BY <1>1, <1>2

(* A command that ends, or dies, keeps nothing. *)
LEMMA LeaveStep ==
  ASSUME ProcTypes, Locks, NEW p \in Procs, Leave(p)
  PROVE  ProcTypes' /\ Locks' /\ (\A q \in Procs : Same(q) \/ ProcOK(q)')
<1>1. NoJob \in Job /\ NoInstall \in Version /\ None \in Config /\ "idle" \in Places
  BY DEF NoJob, Job, NoInstall, Version, Config, Invoker, Expectation, Places
<1>2. ProcTypes'
  BY <1>1 DEF ProcTypes, Leave
<1>3. pc'[p] = "idle" /\ job'[p] = NoJob
  BY DEF Leave, ProcTypes
<1>4. \A q \in Procs \ {p} : Same(q)
  BY DEF Leave, ProcTypes, Same
<1>5. ProcOK(p)'
  <2>1. NoJob.kind # "apply"
    BY DEF NoJob
  <2>2. QED
    BY <1>3, <2>1, Zenon DEF ProcOK, Judged, Knows, Pulls
<1>6. pc'[p] \notin Exclusive \cup Shared
  BY <1>3 DEF Exclusive, Shared
<1>7. Locks'
  BY <1>4, <1>6, LocksStep, Zenon DEF Same
<1>8. QED
  BY <1>2, <1>4, <1>5, <1>7, Zenon

-----------------------------------------------------------------------------
(* A step that leaves the record, the signatures and the floor alone.       *)
LEMMA Quiet ==
  ASSUME Inv, UNCHANGED <<ledger, logid, sig, floor, backup>>, pointer' \in Config, faults' \in Nat,
         verified' \in {verified, floor}, ProcTypes', Locks', \A q \in Procs : Same(q) \/ ProcOK(q)'
  PROVE  Inv'
<1>1. RootTypes'
  BY DEF Inv, RootTypes
<1>2. Roots'
  BY Zenon DEF Inv, Roots
<1>3. \A q \in Procs : ProcOK(q)'
  BY SameProc, Zenon DEF Inv
<1>4. verified' = floor'
  BY DEF Inv
<1>5. QED
  BY <1>1, <1>2, <1>3, <1>4, Zenon DEF Inv

(* A record appended. *)
LEMMA Logged ==
  ASSUME Inv, NEW r \in Entry, ledger' = Append(ledger, r), LedgerOK(ledger'),
         UNCHANGED <<pointer, logid, sig, floor, backup, faults, verified>>,
         ProcTypes', Locks', \A q \in Procs : ProcOK(q)'
  PROVE  Inv'
<1>1. RootTypes'
  BY Appended DEF Inv, RootTypes
<1>2. SigsOK(sig', logid', ledger')
  BY SigsAppend DEF Inv, RootTypes, Roots
<1>3. Roots'
  BY <1>2, Zenon DEF Inv, Roots
<1>4. QED
  BY <1>1, <1>3, Zenon DEF Inv

LEMMA NoteStep ==
  ASSUME Inv, NEW r \in Entry, ~Installing(r), ledger' = Append(ledger, r),
         UNCHANGED <<pointer, logid, sig, floor, backup, faults, verified>>,
         ProcTypes', Locks', \A q \in Procs : Same(q) \/ ProcOK(q)'
  PROVE  Inv'
<1>1. ledger \in Seq(Entry) /\ LedgerOK(ledger) /\ ProcTypes
  BY Zenon DEF Inv, RootTypes, Roots
<1>2. r.act \notin {"apply", "flip"}
  BY DEF Installing, Installs
<1>3. LedgerOK(Append(ledger, r))
  BY <1>1, <1>2, LedgerAppend
<1>4. \A q \in Procs : ProcOK(q)'
  BY <1>1, SameProcNote, Zenon DEF Inv
<1>5. QED
  BY <1>3, <1>4, Logged, Zenon

LEMMA RefuseStep ==
  ASSUME Inv, NEW p \in Procs, NEW act \in {"refused", "rejected", "directory"}, Refuse(p, act)
  PROVE  Inv'
<1> DEFINE r == Record(act, None, job[p].by, FALSE, job[p].exp)
<1>1. r \in Entry /\ ~Installing(r)
  <2>1. job[p] \in Job
    BY DEF Inv, ProcTypes
  <2>2. QED
    BY <2>1 DEF Record, Entry, Acts, Installs, Installing, Job, Config
<1>2. ProcTypes' /\ Locks' /\ (\A q \in Procs : Same(q) \/ ProcOK(q)')
  BY LeaveStep, Zenon DEF Inv, Refuse
<1>3. /\ ledger' = Append(ledger, r)
      /\ UNCHANGED <<pointer, logid, sig, floor, backup, faults, verified>>
  BY DEF Refuse, Log, posture, history
<1> HIDE DEF r
<1>4. QED
  BY <1>1, <1>2, <1>3, NoteStep, Zenon

(* A command that leaves having written nothing of the root but the        *)
(* pointer.                                                                 *)
LEMMA LeaveQuiet ==
  ASSUME Inv, NEW p \in Procs, Leave(p), UNCHANGED <<pointer, ledger, logid, sig, floor, backup>>,
         faults' \in Nat, verified' \in {verified, floor}
  PROVE  Inv'
<1>1. ProcTypes' /\ Locks' /\ (\A q \in Procs : Same(q) \/ ProcOK(q)')
  BY LeaveStep, Zenon DEF Inv
<1>2. pointer' \in Config
  BY DEF Inv, RootTypes
<1>3. QED
  BY <1>1, <1>2, Quiet, Zenon

(* A command's step to another place, where what it knows holds. *)
LEMMA Moved ==
  ASSUME Inv, NEW p \in Procs, NEW l \in Places, Goto(p, l), NEW j \in Job, NEW c \in Config, NEW v \in Version,
         job' = [job EXCEPT ![p] = j] \/ (job' = job /\ j = job[p]),
         seen' = [seen EXCEPT ![p] = c] \/ (seen' = seen /\ c = seen[p]),
         ver' = [ver EXCEPT ![p] = v] \/ (ver' = ver /\ v = ver[p])
  PROVE  /\ ProcTypes' /\ \A q \in Procs \ {p} : Same(q)
         /\ pc'[p] = l /\ job'[p] = j /\ seen'[p] = c /\ ver'[p] = v
<1>1. pc' \in [Procs -> Places] /\ pc'[p] = l /\ \A q \in Procs \ {p} : pc'[q] = pc[q]
  BY DEF Inv, ProcTypes, Goto
<1>2. job' \in [Procs -> Job] /\ job'[p] = j /\ \A q \in Procs \ {p} : job'[q] = job[q]
  BY DEF Inv, ProcTypes
<1>3. seen' \in [Procs -> Config] /\ seen'[p] = c /\ \A q \in Procs \ {p} : seen'[q] = seen[q]
  BY DEF Inv, ProcTypes
<1>4. ver' \in [Procs -> Version] /\ ver'[p] = v /\ \A q \in Procs \ {p} : ver'[q] = ver[q]
  BY DEF Inv, ProcTypes
<1>5. QED
  BY <1>1, <1>2, <1>3, <1>4, Zenon DEF ProcTypes, Same

LEMMA GoQuiet ==
  ASSUME Inv, NEW p \in Procs, ProcTypes', \A q \in Procs \ {p} : Same(q),
         UNCHANGED <<ledger, logid, sig, floor, backup, verified>>, pointer' \in Config, faults' \in Nat,
         pc'[p] \in Exclusive => pc[p] \in Exclusive \/ NoHolder,
         pc'[p] \in Shared => pc[p] \in Exclusive \cup Shared \/ NoExclusive,
         ProcOK(p)'
  PROVE  Inv'
<1>1. Locks'
  BY LocksStep, Zenon DEF Inv, Same
<1>2. \A q \in Procs : Same(q) \/ ProcOK(q)'
  BY Zenon
<1>3. QED
  BY <1>1, <1>2, Quiet, Zenon

LEMMA Kept ==
  ASSUME Inv, NEW p \in Procs
  PROVE  /\ job[p] \in Job /\ seen[p] \in Config /\ ver[p] \in Version /\ pc[p] \in Places
         /\ pointer \in Config /\ faults \in Nat
  BY DEF Inv, ProcTypes, RootTypes

LEMMA FactsType ==
  ASSUME Inv
  PROVE  Facts \in Version
<1>1. LastInstalling(ledger) \in Nat /\ logid \in Nat
  BY LastInstall DEF Inv, RootTypes
<1>2. QED
  BY <1>1 DEF Facts, Version

-----------------------------------------------------------------------------
(* The commands, step by step.                                              *)

LEMMA StartStep ==
  ASSUME Inv, NEW p \in Procs, NEW k \in CommandKinds, Start(p, k)
  PROVE  Inv'
<1> DEFINE kind == CASE k = "update" -> "apply"
                     [] k = "run" /\ pinned -> "pinned"
                     [] OTHER -> k
<1>1. PICK c \in (IF k \in {"apply", "update"} THEN Configs ELSE {None}),
           i \in (IF k \in {"apply", "update", "flip", "pull"} THEN Invokers ELSE {None}) :
        job' = [job EXCEPT ![p] = [kind |-> kind, cfg |-> c, by |-> i,
                                   exp |-> IF k = "update" THEN pointer ELSE "any"]]
  BY Zenon DEF Start
<1> DEFINE j == [kind |-> kind, cfg |-> c, by |-> i, exp |-> IF k = "update" THEN pointer ELSE "any"]
<1>2. kind \in {"apply", "flip", "vouch", "sign", "run", "pinned", "pull"}
      /\ (kind = "apply" => k \in {"apply", "update"})
  BY DEF CommandKinds
<1>3. c \in Config /\ i \in Invoker /\ (kind = "apply" => c \in Configs)
  BY <1>2 DEF Config, Invoker
<1> HIDE DEF kind
<1>4. j \in Job /\ (j.kind = "apply" => j.cfg \in Configs)
  BY <1>2, <1>3, Kept DEF Job, Expectation
<1> HIDE DEF j
<1>5. "want" \in Places /\ "want" \notin Exclusive /\ "want" \notin Shared
  BY DEF Places, Exclusive, Shared
<1>6. /\ Goto(p, "want") /\ UNCHANGED <<ledger, logid, sig, floor, backup, verified>>
      /\ pointer' = pointer /\ faults' = faults /\ seen' = seen /\ ver' = ver /\ job' = [job EXCEPT ![p] = j]
  BY <1>1, Zenon DEF Start, root, posture, history, j
<1>7. /\ ProcTypes' /\ \A q \in Procs \ {p} : Same(q)
      /\ pc'[p] = "want" /\ job'[p] = j /\ seen'[p] = seen[p] /\ ver'[p] = ver[p]
  BY <1>4, <1>5, <1>6, Kept, Moved, Zenon
<1>8. ProcOK(p)'
  BY <1>4, <1>7, Zenon DEF ProcOK, Judged, Knows, Pulls
<1>9. QED
  BY <1>5, <1>6, <1>7, <1>8, Kept, GoQuiet, Zenon

LEMMA LockSteps ==
  ASSUME Inv, NEW p \in Procs, LockFile(p) \/ LockFileShared(p) \/ JudgeSign(p)
  PROVE  Inv'
<1>1. PICK l \in {"judge", "load", "sign"} :
        /\ Goto(p, l)
        /\ l \in Exclusive => pc[p] \in Exclusive \/ NoHolder
        /\ l \in Shared => pc[p] \in Exclusive \cup Shared \/ NoExclusive
  <2>1. CASE LockFile(p)
    BY <2>1 DEF LockFile, Shared
  <2>2. CASE LockFileShared(p)
    BY <2>2 DEF LockFileShared, Exclusive
  <2>3. CASE JudgeSign(p)
    BY <2>3 DEF JudgeSign, Exclusive, Shared
  <2>4. QED
    BY <2>1, <2>2, <2>3
<1>2. /\ UNCHANGED <<ledger, logid, sig, floor, backup, verified>>
      /\ pointer' = pointer /\ faults' = faults /\ seen' = seen /\ ver' = ver /\ job' = job
  BY DEF LockFile, LockFileShared, JudgeSign, root, posture, history
<1>3. l \in Places /\ l \notin {"commit", "record", "signWrite", "verify", "advance", "vouch", "pullLedger", "pullSig"}
  BY DEF Places, Exclusive, Shared
<1>4. job[p].kind = "apply" => job[p].cfg \in Configs
  BY DEF Inv, ProcOK, Judged
<1>5. /\ ProcTypes' /\ \A q \in Procs \ {p} : Same(q)
      /\ pc'[p] = l /\ job'[p] = job[p] /\ seen'[p] = seen[p] /\ ver'[p] = ver[p]
  BY <1>1, <1>2, <1>3, Kept, Moved, Zenon
<1>6. ProcOK(p)'
  BY <1>3, <1>4, <1>5, Zenon DEF ProcOK, Judged, Knows, Pulls
<1>7. QED
  BY <1>1, <1>2, <1>5, <1>6, Kept, GoQuiet, Zenon

(* Judging, and what it leaves known of the record to be replaced. *)
LEMMA JudgeApplyStep ==
  ASSUME Inv, NEW p \in Procs, JudgeApply(p)
  PROVE  Inv'
<1>1. /\ UNCHANGED <<ledger, logid, sig, floor, backup, verified>>
      /\ pointer' = pointer /\ faults' = faults /\ ver' = ver /\ job' = job
      /\ Goto(p, "commit") /\ seen' = [seen EXCEPT ![p] = pointer]
  BY DEF JudgeApply, root, posture, history
<1>2. job[p].kind = "apply" /\ job[p].cfg \in Configs /\ Valid(job[p].cfg) /\ job[p].exp \in {"any", pointer}
  BY DEF JudgeApply, Inv, ProcOK, Judged, Expected
<1>3. pointer # None => OnRecord(pointer) /\ job[p].by \in Grants[pointer]
  BY DEF JudgeApply, Permitted, Vouched, Allowed
<1>4. "commit" \in Places /\ "commit" \notin Shared /\ pc[p] \in Exclusive
  BY DEF Places, Exclusive, Shared, JudgeApply
<1>5. /\ ProcTypes' /\ \A q \in Procs \ {p} : Same(q)
      /\ pc'[p] = "commit" /\ job'[p] = job[p] /\ seen'[p] = pointer /\ ver'[p] = ver[p]
  BY <1>1, <1>4, Kept, Moved, Zenon
<1>6. ProcOK(p)'
  BY <1>1, <1>2, <1>3, <1>5, Zenon DEF ProcOK, Judged, Knows, Pulls, OnRecord, Installs
<1>7. QED
  BY <1>1, <1>4, <1>5, <1>6, Kept, GoQuiet, Zenon

LEMMA JudgeFlipStep ==
  ASSUME Inv, NEW p \in Procs, JudgeFlip(p)
  PROVE  Inv'
<1> DEFINE j == [job[p] EXCEPT !.cfg = Flipped[pointer]]
<1>1. /\ UNCHANGED <<ledger, logid, sig, floor, backup, verified>>
      /\ pointer' = pointer /\ faults' = faults /\ ver' = ver /\ job' = [job EXCEPT ![p] = j]
      /\ Goto(p, "commit") /\ seen' = [seen EXCEPT ![p] = pointer]
  BY DEF JudgeFlip, root, posture, history
<1>2. OnRecord(pointer) /\ job[p].by \in Grants[pointer] /\ pointer \in Configs
  BY Kept DEF JudgeFlip, Permitted, Vouched, Allowed, Config
<1>3. Flipped[pointer] \in Configs /\ Valid(Flipped[pointer])
  BY <1>2, InstalledAssumption DEF Valid
<1>4. j \in Job /\ j.kind = "flip" /\ j.cfg = Flipped[pointer] /\ j.by = job[p].by
  BY <1>3, Kept DEF Job, JudgeFlip, Config
<1> HIDE DEF j
<1>5. "commit" \in Places /\ "commit" \notin Shared /\ pc[p] \in Exclusive
  BY DEF Places, Exclusive, Shared, JudgeFlip
<1>6. /\ ProcTypes' /\ \A q \in Procs \ {p} : Same(q)
      /\ pc'[p] = "commit" /\ job'[p] = j /\ seen'[p] = pointer /\ ver'[p] = ver[p]
  BY <1>1, <1>4, <1>5, Kept, Moved, Zenon
<1>7. ProcOK(p)'
  BY <1>1, <1>2, <1>3, <1>4, <1>6, Zenon DEF ProcOK, Judged, Knows, Pulls, OnRecord, Installs
<1>8. QED
  BY <1>1, <1>5, <1>6, <1>7, Kept, GoQuiet, Zenon

LEMMA JudgeVouchStep ==
  ASSUME Inv, NEW p \in Procs, JudgeVouch(p)
  PROVE  Inv'
<1>1. /\ UNCHANGED <<pointer, ledger, logid, sig, floor, backup>>
      /\ pointer' = pointer /\ faults' = faults /\ verified' = verified
  BY DEF JudgeVouch, root, posture, history
<1>2. CASE Leave(p)
  BY <1>1, <1>2, Kept, LeaveQuiet
<1>3. CASE pointer # None /\ job' = [job EXCEPT ![p].cfg = pointer] /\ Goto(p, "record") /\ UNCHANGED <<seen, ver>>
  <2> DEFINE j == [job[p] EXCEPT !.cfg = pointer]
  <2>1. pointer \in Configs /\ Valid(pointer)
    BY <1>3, Kept DEF JudgeVouch, Config
  <2>2. j \in Job /\ j.kind = "vouch" /\ j.cfg = pointer
    BY <2>1, Kept DEF Job, JudgeVouch, Config
  <2>3. job' = [job EXCEPT ![p] = j] /\ seen' = seen /\ ver' = ver
    BY <1>3
  <2> HIDE DEF j
  <2>4. "record" \in Places /\ "record" \notin Shared /\ pc[p] \in Exclusive
    BY DEF Places, Exclusive, Shared, JudgeVouch
  <2>5. /\ ProcTypes' /\ \A q \in Procs \ {p} : Same(q)
        /\ pc'[p] = "record" /\ job'[p] = j /\ seen'[p] = seen[p] /\ ver'[p] = ver[p]
    BY <1>3, <2>2, <2>3, <2>4, Kept, Moved, Zenon
  <2>6. ProcOK(p)'
    BY <2>1, <2>2, <2>5, Zenon DEF ProcOK, Judged, Knows, Pulls, Installs
  <2>7. QED
    BY <1>1, <2>4, <2>5, <2>6, Kept, GoQuiet, Zenon
<1>4. QED
  BY <1>2, <1>3, Zenon DEF JudgeVouch

LEMMA CommitStep ==
  ASSUME Inv, NEW p \in Procs, CommitSnapshot(p)
  PROVE  Inv'
<1>1. /\ UNCHANGED <<ledger, logid, sig, floor, backup, verified>>
      /\ pointer' = job[p].cfg /\ faults' = faults /\ seen' = seen /\ ver' = ver /\ job' = job
      /\ Goto(p, "record") /\ pc[p] = "commit"
  BY DEF CommitSnapshot, root, posture, history
<1>2. ProcOK(p) /\ pc[p] \in {"commit", "record"}
  BY <1>1 DEF Inv
<1>3. "record" \in Places /\ "record" \notin Shared /\ pc[p] \in Exclusive
  BY <1>1 DEF Places, Exclusive, Shared
<1>4. pointer' \in Config
  BY <1>1, <1>2 DEF ProcOK, Judged, Config
<1>5. /\ ProcTypes' /\ \A q \in Procs \ {p} : Same(q)
      /\ pc'[p] = "record" /\ job'[p] = job[p] /\ seen'[p] = seen[p] /\ ver'[p] = ver[p]
  BY <1>1, <1>3, Kept, Moved, Zenon
<1>6. ProcOK(p)'
  BY <1>1, <1>2, <1>5, Zenon DEF ProcOK, Judged, Knows, Pulls, OnRecord
<1>7. QED
  BY <1>1, <1>3, <1>4, <1>5, <1>6, Kept, GoQuiet, Zenon

(* The install goes on record, under the lock. *)
LEMMA AppendStep ==
  ASSUME Inv, NEW p \in Procs, AppendSuccess(p)
  PROVE  Inv'
<1> DEFINE boot == job[p].kind # "vouch" /\ seen[p] = None
           r == Record(job[p].kind, job[p].cfg, job[p].by, boot, job[p].exp)
<1>1. /\ ledger' = Append(ledger, r) /\ pc[p] = "record"
      /\ UNCHANGED <<pointer, logid, sig, floor, backup, faults, verified>>
  BY DEF AppendSuccess, Log, posture, history
<1>2. /\ job[p].kind \in Installs /\ job[p].cfg \in Configs /\ Valid(job[p].cfg)
      /\ job[p].kind # "vouch" /\ seen[p] # None => OnRecord(seen[p]) /\ job[p].by \in Grants[seen[p]]
      /\ job[p].kind = "apply" => job[p].exp \in {"any", seen[p]}
  BY <1>1 DEF Inv, ProcOK, Judged
<1>3. r \in Entry /\ r.act = job[p].kind /\ r.hash = job[p].cfg /\ r.by = job[p].by /\ r.boot = boot /\ r.exp = job[p].exp
  BY <1>2, Kept, Zenon DEF Record, Entry, Acts, Job
<1>4. ledger \in Seq(Entry) /\ LedgerOK(ledger) /\ ProcTypes /\ Locks
  BY Zenon DEF Inv, RootTypes, Roots
<1> HIDE DEF r
<1>5. LedgerOK(Append(ledger, r))
  <2>1. Installing(r) => r.hash \in Configs /\ Valid(r.hash)
    BY <1>2, <1>3
  <2>2. r.act \in {"apply", "flip"} /\ ~r.boot =>
          LastInstalling(ledger) > 0 /\ r.by \in Grants[ledger[LastInstalling(ledger)].hash]
    BY <1>2, <1>3, Zenon DEF OnRecord
  <2>3. r.act = "apply" /\ r.exp # "any" =>
          IF r.exp = None THEN r.boot
          ELSE LastInstalling(ledger) > 0 /\ ledger[LastInstalling(ledger)].hash = r.exp
    BY <1>2, <1>3, Zenon DEF OnRecord
  <2>4. QED
    BY <1>3, <1>4, <2>1, <2>2, <2>3, LedgerAppend, Zenon
<1>6. ProcTypes' /\ (\A q \in Procs \ {p} : Same(q)) /\ Locks' /\ ProcOK(p)'
  <2>1. CASE Leave(p)
    <3>1. ProcTypes' /\ Locks' /\ (\A q \in Procs : Same(q) \/ ProcOK(q)')
      BY <1>4, <2>1, LeaveStep, Zenon
    <3>2. pc'[p] = "idle" /\ \A q \in Procs \ {p} : Same(q)
      BY <1>4, <2>1 DEF Leave, ProcTypes, Same
    <3>3. ~Same(p)
      BY <1>1, <3>2 DEF Same
    <3>4. QED
      BY <3>1, <3>2, <3>3, Zenon
  <2>2. CASE Goto(p, "sign") /\ UNCHANGED <<job, seen, ver>>
    <3>1. "sign" \in Places /\ "sign" \in Exclusive /\ "sign" \notin Shared /\ pc[p] \in Exclusive
      BY <1>1 DEF Places, Exclusive, Shared
    <3>2. job' = job /\ seen' = seen /\ ver' = ver
      BY <2>2
    <3>3. /\ ProcTypes' /\ \A q \in Procs \ {p} : Same(q)
          /\ pc'[p] = "sign" /\ job'[p] = job[p] /\ seen'[p] = seen[p] /\ ver'[p] = ver[p]
      BY <2>2, <3>1, <3>2, Kept, Moved, Zenon
    <3>4. ProcOK(p)'
      BY <1>2, <3>3, Zenon DEF ProcOK, Judged, Knows, Pulls
    <3>5. Locks'
      BY <1>4, <3>1, <3>3, LocksStep, Zenon DEF Same
    <3>6. QED
      BY <3>3, <3>4, <3>5
  <2>3. QED
    BY <2>1, <2>2 DEF AppendSuccess
<1>7. ASSUME NEW q \in Procs \ {p} PROVE ProcOK(q)'
  <2>1. pc[q] \notin Exclusive \cup Shared
    <3>1. pc[p] \in Exclusive
      BY <1>1 DEF Exclusive
    <3>2. QED
      BY <1>4, <3>1, Zenon DEF Locks
  <2>2. ProcOK(q) /\ Same(q) /\ UNCHANGED logid
    BY <1>1, <1>6 DEF Inv
  <2>3. QED
    BY <1>1, <1>3, <1>4, <2>1, <2>2, SameProcInstall
<1>8. QED
  BY <1>1, <1>3, <1>5, <1>6, <1>7, Logged, Zenon

(* What the ledger vouches for, a signer and a reader hold as they read it. *)
LEMMA BuildStep ==
  ASSUME Inv, NEW p \in Procs, BuildSignature(p)
  PROVE  Inv'
<1>1. /\ UNCHANGED <<pointer, ledger, logid, sig, floor, backup, verified>>
      /\ pointer' = pointer /\ faults' = faults /\ pc[p] = "sign"
  BY DEF BuildSignature, root, posture, history
<1>2. CASE Leave(p)
  BY <1>1, <1>2, Kept, LeaveQuiet
<1>3. CASE /\ Vouched /\ seen' = [seen EXCEPT ![p] = pointer] /\ ver' = [ver EXCEPT ![p] = Facts]
           /\ Goto(p, "signWrite") /\ UNCHANGED job
  <2>1. pointer \in Configs /\ OnRecord(pointer)
    BY <1>3, Kept DEF Vouched, Config
  <2>2. "signWrite" \in Places /\ "signWrite" \notin Shared /\ pc[p] \in Exclusive
    BY <1>1 DEF Places, Exclusive, Shared
  <2>3. /\ ProcTypes' /\ \A q \in Procs \ {p} : Same(q)
        /\ pc'[p] = "signWrite" /\ job'[p] = job[p] /\ seen'[p] = pointer /\ ver'[p] = Facts
    BY <1>3, <2>2, Kept, FactsType, Moved, Zenon
  <2>4. ProcOK(p)'
    <3>1. job[p].kind = "apply" => job[p].cfg \in Configs
      BY DEF Inv, ProcOK, Judged
    <3>2. QED
      BY <1>1, <2>1, <2>3, <3>1, Zenon DEF ProcOK, Judged, Knows, Pulls, OnRecord, Facts
  <2>5. QED
    BY <1>1, <2>2, <2>3, <2>4, Kept, GoQuiet, Zenon
<1>4. QED
  BY <1>2, <1>3 DEF BuildSignature

LEMMA FactsRecorded ==
  ASSUME Inv, NEW c, OnRecord(c)
  PROVE  Recorded(Facts, c, logid, ledger)
<1>1. ledger \in Seq(Entry) /\ LastInstalling(ledger) > 0 /\ ledger[LastInstalling(ledger)].hash = c
  BY DEF Inv, RootTypes, OnRecord
<1>2. LastInstalling(ledger) \in DOMAIN ledger /\ Installing(ledger[LastInstalling(ledger)])
  BY <1>1, LastInstall
<1>3. Facts.log = logid /\ Facts.ver = LastInstalling(ledger)
  BY DEF Facts
<1>4. QED
  BY <1>1, <1>2, <1>3 DEF Recorded

LEMMA WriteSignatureStep ==
  ASSUME Inv, NEW p \in Procs, WriteSignatureFile(p)
  PROVE  Inv'
<1>1. /\ UNCHANGED <<pointer, ledger, logid, floor, backup, verified, faults>>
      /\ sig' = [sig EXCEPT ![seen[p]] = ver[p]] /\ pc[p] = "signWrite" /\ Leave(p)
  BY DEF WriteSignatureFile, posture, history
<1>2. seen[p] \in Configs /\ OnRecord(seen[p]) /\ ver[p] = Facts
  BY <1>1 DEF Inv, ProcOK, Knows
<1>3. ProcTypes' /\ Locks' /\ (\A q \in Procs : Same(q) \/ ProcOK(q)')
  BY <1>1, LeaveStep, Zenon DEF Inv
<1>4. RootTypes'
  BY <1>1, <1>2, Kept DEF Inv, RootTypes
<1>5. Roots'
  <2>1. Recorded(Facts, seen[p], logid, ledger)
    BY <1>2, FactsRecorded
  <2>2. ASSUME NEW c \in Configs, sig'[c].log = logid PROVE Recorded(sig'[c], c, logid, ledger)
    <3>1. CASE c = seen[p]
      <4>1. sig'[c] = Facts
        BY <1>1, <1>2, <3>1 DEF Inv, RootTypes
      <4>2. QED
        BY <2>1, <3>1, <4>1, Zenon
    <3>2. CASE c # seen[p]
      <4>1. sig'[c] = sig[c]
        BY <1>1, <1>2, <3>2 DEF Inv, RootTypes
      <4>2. QED
        BY <2>2, <4>1, Zenon DEF Inv, Roots, SigsOK
    <3>3. QED
      BY <3>1, <3>2
  <2>3. SigsOK(sig', logid, ledger)
    BY <2>2, Zenon DEF SigsOK
  <2>4. QED
    BY <1>1, <2>3, Zenon DEF Inv, Roots
<1>6. \A q \in Procs : ProcOK(q)'
  BY <1>1, <1>3, SameProc, Zenon DEF Inv
<1>7. verified' = floor'
  BY <1>1 DEF Inv
<1>8. QED
  BY <1>3, <1>4, <1>5, <1>6, <1>7, Zenon DEF Inv

(* A run that loads what is installed, and a pull that reads it. *)
LEMMA LoadSteps ==
  ASSUME Inv, NEW p \in Procs, LoadInstalled(p) \/ PullRead(p)
  PROVE  Inv'
<1>1. /\ UNCHANGED <<pointer, ledger, logid, sig, floor, backup, verified>>
      /\ pointer' = pointer /\ faults' = faults
  BY DEF LoadInstalled, PullRead, root, posture, history
<1>2. CASE Leave(p)
  BY <1>1, <1>2, Kept, LeaveQuiet
<1>3. ASSUME NEW l \in {"vouch", "pullLedger"}, pointer # None, pc[p] \in Shared \/ l \notin Shared,
             seen' = [seen EXCEPT ![p] = pointer], Goto(p, l), UNCHANGED <<job, ver>>
      PROVE  Inv'
  <2>1. l \in Places /\ l \notin Exclusive /\ l \notin {"commit", "record", "signWrite", "verify", "advance", "pullSig"}
    BY DEF Places, Exclusive, Shared
  <2>2. /\ ProcTypes' /\ \A q \in Procs \ {p} : Same(q)
        /\ pc'[p] = l /\ job'[p] = job[p] /\ seen'[p] = pointer /\ ver'[p] = ver[p]
    BY <1>3, <2>1, Kept, Moved, Zenon
  <2>3. ProcOK(p)'
    <3>1. job[p].kind = "apply" => job[p].cfg \in Configs
      BY Zenon DEF Inv, ProcOK, Judged
    <3>2. pointer \in Configs
      BY <1>3, Kept DEF Config
    <3>3. QED
      BY <2>1, <2>2, <3>1, <3>2, Zenon DEF ProcOK, Judged, Knows, Pulls
  <2>4. QED
    BY <1>1, <1>3, <2>1, <2>2, <2>3, Kept, GoQuiet, Zenon
<1>4. CASE LoadInstalled(p)
  <2>1. pc[p] \in Shared
    BY <1>4 DEF LoadInstalled, Shared
  <2>2. QED
    BY <1>2, <1>3, <1>4, <2>1 DEF LoadInstalled
<1>5. CASE PullRead(p)
  <2>1. "pullLedger" \notin Shared
    BY DEF Shared
  <2>2. QED
    BY <1>2, <1>3, <1>5, <2>1 DEF PullRead
<1>6. QED
  BY <1>4, <1>5

(* A run, and a pull, that finds what it read on record. *)
LEMMA FoundSteps ==
  ASSUME Inv, NEW p \in Procs, VouchInstalled(p) \/ PullLedger(p)
  PROVE  Inv'
<1>1. /\ UNCHANGED <<pointer, ledger, logid, sig, floor, backup, verified>>
      /\ pointer' = pointer /\ faults' = faults /\ pc[p] \in {"vouch", "pullLedger"}
  BY DEF VouchInstalled, PullLedger, root, posture
<1>2. CASE Leave(p)
  BY <1>1, <1>2, Kept, LeaveQuiet, Zenon
<1>3. ASSUME NEW l \in {"verify", "pullSig"}, OnRecord(seen[p]), pc[p] \in Shared \/ l \notin Shared,
             ver' = [ver EXCEPT ![p] = Facts], Goto(p, l), UNCHANGED <<job, seen>>
      PROVE  Inv'
  <2>1. l \in Places /\ l \notin Exclusive /\ l \notin {"commit", "record", "signWrite", "advance", "vouch", "pullLedger"}
    BY DEF Places, Exclusive, Shared
  <2>2. /\ ProcTypes' /\ \A q \in Procs \ {p} : Same(q)
        /\ pc'[p] = l /\ job'[p] = job[p] /\ seen'[p] = seen[p] /\ ver'[p] = Facts
    BY <1>3, <2>1, Kept, FactsType, Moved, Zenon
  <2>3. ProcOK(p)'
    <3>1. (job[p].kind = "apply" => job[p].cfg \in Configs) /\ seen[p] \in Configs
      BY <1>1 DEF Inv, ProcOK, Judged, Knows
    <3>2. Recorded(Facts, seen[p], logid, ledger)
      BY <1>3, FactsRecorded
    <3>3. OnRecord(seen[p])' /\ Facts' = Facts
      BY <1>1, <1>3, <2>2 DEF OnRecord, Facts
    <3>4. Judged(p)' /\ Knows(p)'
      BY <2>1, <2>2, <3>1, <3>3, Zenon DEF Judged, Knows
    <3>5. Pulls(p)'
      BY <1>1, <2>2, <3>1, <3>2, Zenon DEF Pulls
    <3>6. QED
      BY <3>4, <3>5 DEF ProcOK
  <2>4. QED
    BY <1>1, <1>3, <2>1, <2>2, <2>3, Kept, GoQuiet, Zenon
<1>4. CASE VouchInstalled(p)
  <2>1. pc[p] \in Shared
    BY <1>4 DEF VouchInstalled, Shared
  <2>2. QED
    BY <1>2, <1>3, <1>4, <2>1, Zenon DEF VouchInstalled
<1>5. CASE PullLedger(p)
  <2>1. "pullSig" \notin Shared
    BY DEF Shared
  <2>2. QED
    BY <1>2, <1>3, <1>5, <2>1 DEF PullLedger
<1>6. QED
  BY <1>4, <1>5

LEMMA PinnedVerifyStep ==
  ASSUME Inv, NEW p \in Procs, PinnedVerify(p)
  PROVE  Inv'
<1>1. /\ UNCHANGED <<pointer, ledger, logid, sig, floor, backup>>
      /\ pointer' = pointer /\ faults' = faults /\ pc[p] = "verify"
  BY DEF PinnedVerify, root, posture
<1>2. CASE ResolvePinned(p) /\ AtFloor(p)
  <2>1. verified' \in {verified, floor} /\ Leave(p)
    BY <1>2 DEF ResolvePinned, AtFloor
  <2>2. QED
    BY <1>1, <2>1, Kept, LeaveQuiet
<1>3. CASE Leave(p) /\ UNCHANGED <<ran, verified>>
  BY <1>1, <1>3, Kept, LeaveQuiet
<1>4. CASE AboveFloor(p) /\ Goto(p, "advance") /\ UNCHANGED <<job, seen, ver, ran, verified>>
  <2>1. "advance" \in Places /\ "advance" \notin Exclusive /\ pc[p] \in Shared
    BY <1>1 DEF Places, Exclusive, Shared
  <2>2. job' = job /\ seen' = seen /\ ver' = ver /\ verified' = verified
    BY <1>4
  <2>3. /\ ProcTypes' /\ \A q \in Procs \ {p} : Same(q)
        /\ pc'[p] = "advance" /\ job'[p] = job[p] /\ seen'[p] = seen[p] /\ ver'[p] = ver[p]
    BY <1>4, <2>1, <2>2, Kept, Moved, Zenon
  <2>4. ProcOK(p)'
    <3>1. ProcOK(p) /\ (floor = NoInstall \/ (floor.log = ver[p].log /\ floor.ver < ver[p].ver))
      BY <1>4 DEF Inv, AboveFloor
    <3>2. QED
      BY <1>1, <2>3, <3>1, Zenon DEF ProcOK, Judged, Knows, Pulls, OnRecord, Facts
  <2>5. QED
    BY <1>1, <2>1, <2>2, <2>3, <2>4, Kept, GoQuiet, Zenon
<1>5. QED
  <2>1. \/ Signed(p) /\ AtFloor(p) /\ ResolvePinned(p)
        \/ Signed(p) /\ ~AtFloor(p) /\ AboveFloor(p)
             /\ Goto(p, "advance") /\ UNCHANGED <<job, seen, ver, ran, verified>>
        \/ Leave(p) /\ UNCHANGED <<ran, verified>>
    BY DEF PinnedVerify
  <2>2. QED
    BY <1>2, <1>3, <1>4, <2>1

(* Runs that advance the floor together advance it to the same install. *)
LEMMA FloorStep ==
  ASSUME Inv, NEW p \in Procs, WriteVerifyFloor(p)
  PROVE  Inv'
<1>1. /\ UNCHANGED <<pointer, ledger, logid, sig, backup, faults>>
      /\ floor' = ver[p] /\ verified' = ver[p] /\ pc[p] = "advance" /\ Leave(p)
  BY DEF WriteVerifyFloor, root, ResolvePinned
<1>2. ver[p] = Facts
  BY <1>1 DEF Inv, ProcOK, Knows
<1>3. ProcTypes' /\ Locks' /\ (\A q \in Procs : Same(q) \/ ProcOK(q)')
  BY <1>1, LeaveStep, Zenon DEF Inv
<1>4. RootTypes'
  BY <1>1, Kept DEF Inv, RootTypes
<1>5. Roots'
  BY <1>1, Zenon DEF Inv, Roots
<1>6. ASSUME NEW q \in Procs, Same(q) PROVE ProcOK(q)'
  <2>1. ProcOK(q)
    BY DEF Inv
  <2>2. Judged(q)' /\ Pulls(q)'
    BY <1>1, <1>6, <2>1, Zenon DEF ProcOK, Same, Judged, Pulls, Recorded, OnRecord
  <2>3. pc[q] = "advance" => ver[q] = floor'
    BY <1>1, <1>2, <2>1, Zenon DEF ProcOK, Knows
  <2>4. Knows(q)'
    BY <1>1, <1>6, <2>1, <2>3, Zenon DEF ProcOK, Same, Knows, OnRecord, Facts
  <2>5. QED
    BY <2>2, <2>4 DEF ProcOK
<1>7. QED
  BY <1>1, <1>3, <1>4, <1>5, <1>6, Zenon DEF Inv

(* Commands that leave. *)
LEMMA LeaveSteps ==
  ASSUME Inv, NEW p \in Procs,
         JudgeStaleClient(p) \/ Busy(p) \/ AppendFails(p) \/ Crash(p) \/ PullSignature(p)
  PROVE  Inv'
<1>1. Leave(p) /\ UNCHANGED <<pointer, ledger, logid, sig, floor, backup>> /\ verified' = verified
  BY Zenon DEF JudgeStaleClient, Busy, AppendFails, Crash, PullSignature, root, posture, history
<1>2. faults' \in Nat
  <2>1. faults' = faults \/ faults' = faults + 1
    BY Zenon DEF JudgeStaleClient, Busy, AppendFails, Crash, PullSignature, Fault
  <2>2. faults \in Nat
    BY Kept, Zenon
  <2>3. QED
    BY <2>1, <2>2
<1>3. QED
  BY <1>1, <1>2, LeaveQuiet

-----------------------------------------------------------------------------
(* The operator, and the whole next-state relation.                         *)

LEMMA UnchangedProcs ==
  ASSUME Inv, UNCHANGED procs
  PROVE  ProcTypes' /\ Locks' /\ \A q \in Procs : Same(q)
<1>1. pc' = pc /\ job' = job /\ seen' = seen /\ ver' = ver
  BY DEF procs
<1>2. QED
  BY <1>1, Zenon DEF Inv, ProcTypes, Locks, Same

(* With no command running, nothing is known that the operator could void. *)
LEMMA IdleProcs ==
  ASSUME Inv, UNCHANGED procs, \A q \in Procs : pc[q] = "idle"
  PROVE  \A q \in Procs : ProcOK(q)'
<1>1. pc' = pc /\ job' = job /\ seen' = seen /\ ver' = ver
  BY DEF procs
<1>2. QED
  BY <1>1, Zenon DEF Inv, ProcOK, Judged, Knows, Pulls

LEMMA NoteRecordStep ==
  ASSUME Inv, Note
  PROVE  Inv'
<1> DEFINE r == Record("note", None, None, FALSE, "any")
<1>1. r \in Entry /\ ~Installing(r)
  BY DEF Record, Entry, Acts, Installs, Installing, Config, Invoker, Expectation
<1>2. ledger' = Append(ledger, r) /\ UNCHANGED <<pointer, logid, sig, floor, backup, faults, verified>> /\ UNCHANGED procs
  BY DEF Note, Log, posture, history
<1> HIDE DEF r
<1>3. QED
  BY <1>1, <1>2, UnchangedProcs, NoteStep, Zenon

LEMMA QuietOperator ==
  ASSUME Inv, HandEdit \/ Keygen \/ Pin
  PROVE  Inv'
<1>1. UNCHANGED <<ledger, logid, sig, floor, backup>> /\ verified' = verified /\ UNCHANGED procs
  BY DEF HandEdit, Keygen, Pin, root, posture, history
<1>2. pointer' \in Config /\ faults' \in Nat
  BY DEF HandEdit, Keygen, Pin, root, Fault, Config, Inv, RootTypes
<1>3. QED
  BY <1>1, <1>2, UnchangedProcs, Quiet, Zenon

LEMMA RemoveFloorStep ==
  ASSUME Inv, RemoveFloor
  PROVE  Inv'
<1>1. /\ UNCHANGED <<pointer, ledger, logid, sig, backup>> /\ UNCHANGED procs
      /\ floor' = NoInstall /\ verified' = NoInstall /\ faults' = faults + 1
      /\ \A q \in Procs : pc[q] = "idle"
  BY DEF RemoveFloor, root, Fault
<1>2. RootTypes'
  BY <1>1 DEF Inv, RootTypes, NoInstall, Version
<1>3. Roots'
  BY <1>1, Zenon DEF Inv, Roots
<1>4. QED
  BY <1>1, <1>2, <1>3, UnchangedProcs, IdleProcs, Zenon DEF Inv

LEMMA TakeBackupStep ==
  ASSUME Inv, TakeBackup
  PROVE  Inv'
<1>1. /\ UNCHANGED <<pointer, ledger, logid, sig, floor, faults, verified>> /\ UNCHANGED procs
      /\ backup' = [pointer |-> pointer, ledger |-> ledger, logid |-> logid, sig |-> sig]
      /\ \A q \in Procs : pc[q] = "idle"
  BY DEF TakeBackup, root, posture, history
<1>2. RootTypes'
  BY <1>1 DEF Inv, RootTypes, Root
<1>3. Roots'
  <2>1. backup'.logid = logid /\ backup'.ledger = ledger /\ backup'.sig = sig /\ logid # 0
    BY <1>1 DEF Inv, RootTypes
  <2>2. QED
    BY <1>1, <2>1, Zenon DEF Inv, Roots
<1>4. QED
  BY <1>1, <1>2, <1>3, UnchangedProcs, IdleProcs, Zenon DEF Inv

LEMMA RestoreBackupStep ==
  ASSUME Inv, RestoreBackup
  PROVE  Inv'
<1>1. /\ UNCHANGED <<floor, backup, verified>> /\ UNCHANGED procs
      /\ pointer' = backup.pointer /\ ledger' = backup.ledger /\ logid' = backup.logid /\ sig' = backup.sig
      /\ faults' = faults + 1 /\ backup # NoRoot
      /\ \A q \in Procs : pc[q] = "idle"
  BY DEF RestoreBackup, posture, history, Fault
<1>2. backup \in Root /\ backup.logid # 0 /\ floor \in Version /\ faults \in Nat
  BY <1>1 DEF Inv, Roots, RootTypes
<1>3. RootTypes'
  BY <1>1, <1>2 DEF RootTypes, Root
<1>4. Roots'
  BY <1>1, Zenon DEF Inv, Roots
<1>5. QED
  BY <1>1, <1>3, <1>4, UnchangedProcs, IdleProcs, Zenon DEF Inv

LEMMA EmptyRoot ==
  ASSUME NEW id \in Nat \ {0}
  PROVE  /\ LedgerOK(<<>>) /\ SigsOK([c \in Configs |-> NoInstall], id, <<>>)
         /\ [c \in Configs |-> NoInstall] \in [Configs -> Version] /\ NoInstall \in Version
<1>1. DOMAIN <<>> = {}
  OBVIOUS
<1>2. LedgerOK(<<>>)
  BY <1>1, Zenon DEF LedgerOK
<1>3. SigsOK([c \in Configs |-> NoInstall], id, <<>>)
  BY DEF SigsOK, NoInstall
<1>4. NoInstall \in Version
  BY DEF NoInstall, Version
<1>5. QED
  BY <1>2, <1>3, <1>4

LEMMA RecreateStep ==
  ASSUME Inv, Recreate
  PROVE  Inv'
<1>1. /\ UNCHANGED <<floor, backup, verified>> /\ UNCHANGED procs
      /\ pointer' = None /\ ledger' = <<>> /\ logid' = faults' + 1 /\ sig' = [c \in Configs |-> NoInstall]
      /\ faults' = faults + 1
      /\ \A q \in Procs : pc[q] = "idle"
  BY DEF Recreate, posture, history, Fault
<1>2. logid' \in Nat \ {0} /\ faults' \in Nat
  BY <1>1 DEF Inv, RootTypes
<1>3. RootTypes'
  BY <1>1, <1>2, EmptyRoot DEF Inv, RootTypes, Config
<1>4. LedgerOK(ledger') /\ SigsOK(sig', logid', ledger')
  BY <1>1, <1>2, EmptyRoot, Zenon
<1>5. Roots'
  BY <1>1, <1>4, Zenon DEF Inv, Roots
<1>6. QED
  BY <1>1, <1>3, <1>5, UnchangedProcs, IdleProcs, Zenon DEF Inv

LEMMA InitInv ==
  ASSUME Init
  PROVE  Inv
<1>1. RootTypes /\ ProcTypes
  <2>1. NoRoot \in Root /\ NoJob \in Job /\ NoInstall \in Version /\ None \in Config /\ "idle" \in Places
    <3>1. NoInstall \in Version
      BY DEF NoInstall, Version
    <3>2. None \in Config /\ None \in Invoker /\ None \in Expectation /\ "idle" \in Places
      BY Zenon DEF Config, Invoker, Expectation, Places
    <3>3. NoJob \in Job
      BY <3>2 DEF NoJob, Job
    <3>4. [c \in Configs |-> NoInstall] \in [Configs -> Version] /\ <<>> \in Seq(Entry)
      BY <3>1
    <3>5. NoRoot \in Root
      BY <3>2, <3>4 DEF NoRoot, Root
    <3>6. QED
      BY <3>1, <3>2, <3>3, <3>5, Zenon
  <2>2. ProcTypes
    BY <2>1 DEF Init, ProcTypes
  <2>3. RootTypes
    BY <2>1 DEF Init, RootTypes
  <2>4. QED
    BY <2>2, <2>3
<1>2. Roots
  <2>1. backup = NoRoot /\ ledger = <<>> /\ logid = 1 /\ sig = [c \in Configs |-> NoInstall] /\ 1 \in Nat \ {0}
    BY DEF Init
  <2>2. QED
    BY <2>1, EmptyRoot, Zenon DEF Roots
<1>3. \A p \in Procs : pc[p] = "idle" /\ job[p] = NoJob
  BY Zenon DEF Init
<1>4. Locks
  BY <1>3 DEF Locks, Exclusive
<1>5. \A p \in Procs : ProcOK(p)
  <2>1. NoJob.kind # "apply"
    BY DEF NoJob
  <2>2. QED
    BY <1>3, <2>1, Zenon DEF ProcOK, Judged, Knows, Pulls
<1>6. verified = floor
  BY DEF Init
<1>7. QED
  BY <1>1, <1>2, <1>4, <1>5, <1>6 DEF Inv

LEMMA RefusalSteps ==
  ASSUME Inv, NEW p \in Procs, JudgeRefused(p) \/ JudgeRejected(p) \/ JudgeFlipDirectory(p)
  PROVE  Inv'
<1>1. \E act \in {"refused", "rejected", "directory"} : Refuse(p, act)
  BY DEF JudgeRefused, JudgeRejected, JudgeFlipDirectory
<1>2. QED
  BY <1>1, RefuseStep

LEMMA NextInv ==
  ASSUME Inv, [Next]_vars
  PROVE  Inv'
<1>1. CASE UNCHANGED vars
  <2>1. /\ UNCHANGED <<ledger, logid, sig, floor, backup>> /\ pointer' = pointer /\ faults' = faults
        /\ verified' = verified /\ UNCHANGED procs
    BY <1>1 DEF vars, root, posture, procs, history
  <2>2. pointer' \in Config /\ faults' \in Nat
    BY <2>1 DEF Inv, RootTypes
  <2>3. QED
    BY <2>1, <2>2, UnchangedProcs, Quiet, Zenon
<1>2. CASE Operator
  BY <1>2, NoteRecordStep, QuietOperator, RemoveFloorStep, TakeBackupStep, RestoreBackupStep, RecreateStep, Zenon
     DEF Operator
<1>3. ASSUME NEW p \in Procs, NEW k \in CommandKinds, Start(p, k) PROVE Inv'
  BY <1>3, StartStep
<1>4. ASSUME NEW p \in Procs, Writer(p) PROVE Inv'
  BY <1>4, LockSteps, RefusalSteps, LeaveSteps, JudgeApplyStep, JudgeFlipStep, JudgeVouchStep, CommitStep,
     AppendStep, BuildStep, WriteSignatureStep, Zenon DEF Writer
<1>5. ASSUME NEW p \in Procs, Run(p) PROVE Inv'
  BY <1>5, LockSteps, LoadSteps, FoundSteps, PinnedVerifyStep, FloorStep, Zenon DEF Run
<1>6. ASSUME NEW p \in Procs, Pull(p) \/ Busy(p) \/ AppendFails(p) \/ Crash(p) PROVE Inv'
  BY <1>6, LoadSteps, FoundSteps, LeaveSteps, Zenon DEF Pull
<1>7. QED
  BY <1>1, <1>2, <1>3, <1>4, <1>5, <1>6, Zenon DEF Next

(* The inductive invariant holds of every behaviour of the commands and    *)
(* the operator (internal/config, cmd/agenthof).                           *)
THEOREM InstalledInvariance == Spec => []Inv
<1>1. Init => Inv
  BY InitInv
<1>2. Inv /\ [Next]_vars => Inv'
  BY NextInv
<1>3. QED
  BY <1>1, <1>2, PTL DEF Spec

LEMMA InvAuthorized == Inv => AuthorizedByPredecessor
<1> SUFFICES ASSUME Inv PROVE AuthorizedByPredecessor
  OBVIOUS
<1>1. ledger \in Seq(Entry) /\ LedgerOK(ledger)
  BY Zenon DEF Inv, RootTypes, Roots
<1>2. \A k \in DOMAIN ledger : Authorized(ledger, k)
  BY <1>1, Zenon DEF LedgerOK
<1>3. LastInstalling(ledger) > 0 => Valid(ledger[LastInstalling(ledger)].hash)
  BY <1>1, LastInstall DEF LedgerOK
<1>4. QED
  BY <1>2, <1>3, Zenon DEF AuthorizedByPredecessor, Previous, Authorized, Before

LEMMA InvUpdates == Inv => NoLostUpdate
<1> SUFFICES ASSUME Inv PROVE NoLostUpdate
  OBVIOUS
<1>1. \A k \in DOMAIN ledger : Updates(ledger, k)
  BY Zenon DEF Inv, Roots, LedgerOK
<1>2. QED
  BY <1>1, Zenon DEF NoLostUpdate, Previous, Updates, Before

(* Nobody grants themselves anything, whatever races: every apply and flip *)
(* on record is by an invoker the configuration before it allowed, or a    *)
(* bootstrap, and somebody may make the next one (applyConfig,             *)
(* flipInstalled).                                                         *)
THEOREM InstallsAreAuthorized == Spec => []AuthorizedByPredecessor
  BY InstalledInvariance, InvAuthorized, PTL

(* An apply that named what it meant to replace replaced exactly that      *)
(* (applyConfig's precondition under installed.lock).                      *)
THEOREM UpdatesAreNotLost == Spec => []NoLostUpdate
  BY InstalledInvariance, InvUpdates, PTL

-----------------------------------------------------------------------------
(* Action properties: what a step may do to signatures, floor and answers.  *)

(* The steps that touch none of them. *)
Bystander == UNCHANGED <<sig, floor, ran, served>>

LEMMA Effects ==
  ASSUME Next
  PROVE  \/ Bystander
         \/ UNCHANGED <<floor, ran, served, procs>>
         \/ RemoveFloor
         \/ \E p \in Procs : \/ WriteSignatureFile(p) \/ VouchInstalled(p) \/ PinnedVerify(p)
                             \/ WriteVerifyFloor(p) \/ PullLedger(p) \/ PullSignature(p)
<1>1. ASSUME Operator PROVE Bystander \/ UNCHANGED <<floor, ran, served, procs>> \/ RemoveFloor
  BY <1>1, Zenon DEF Operator, Note, HandEdit, Keygen, Pin, TakeBackup, RestoreBackup, Recreate, Bystander, root, posture, history
<1>2. ASSUME NEW p \in Procs, NEW k \in CommandKinds, Start(p, k) PROVE Bystander
  BY <1>2 DEF Start, Bystander, root, posture, history
<1>3. ASSUME NEW p \in Procs, Writer(p) PROVE Bystander \/ WriteSignatureFile(p)
  <2>1. CASE LockFile(p) \/ JudgeStaleClient(p) \/ JudgeApply(p) \/ JudgeFlip(p) \/ JudgeVouch(p) \/ JudgeSign(p)
    BY <2>1 DEF LockFile, JudgeStaleClient, JudgeApply, JudgeFlip, JudgeVouch, JudgeSign, Bystander, root, posture, history
  <2>2. CASE JudgeRefused(p) \/ JudgeRejected(p) \/ JudgeFlipDirectory(p)
    BY <2>2, Zenon DEF JudgeRefused, JudgeRejected, JudgeFlipDirectory, Refuse, Bystander, posture, history
  <2>3. CASE CommitSnapshot(p) \/ AppendSuccess(p) \/ BuildSignature(p)
    BY <2>3, Zenon DEF CommitSnapshot, AppendSuccess, BuildSignature, Bystander, root, posture, history
  <2>4. QED
    BY <1>3, <2>1, <2>2, <2>3, Zenon DEF Writer
<1>4. ASSUME NEW p \in Procs, LockFileShared(p) \/ LoadInstalled(p) \/ PullRead(p) \/ Busy(p) \/ AppendFails(p) \/ Crash(p)
      PROVE  Bystander
  BY <1>4, Zenon DEF LockFileShared, LoadInstalled, PullRead, Busy, AppendFails, Crash, Bystander, root, posture, history
<1>5. QED
  BY <1>1, <1>2, <1>3, <1>4, Zenon DEF Next, Run, Pull

SignatureStep ==
  procs' # procs => \A c \in Configs : sig'[c].log = sig[c].log => sig'[c].ver >= sig[c].ver

LEMMA SignatureSteps ==
  ASSUME Inv, [Next]_vars
  PROVE  SignatureStep
<1>1. sig \in [Configs -> Version]
  BY DEF Inv, RootTypes
<1>2. CASE sig' = sig
  <2>1. \A c \in Configs : sig[c].ver \in Nat
    BY <1>1 DEF Version
  <2>2. QED
    BY <1>2, <2>1 DEF SignatureStep
<1>3. ASSUME NEW p \in Procs, WriteSignatureFile(p) PROVE SignatureStep
  <2>1. /\ sig' = [sig EXCEPT ![seen[p]] = Facts] /\ seen[p] \in Configs
    BY <1>3, Zenon DEF WriteSignatureFile, Inv, ProcOK, Knows
  <2>2. ASSUME NEW c \in Configs, sig'[c].log = sig[c].log PROVE sig'[c].ver >= sig[c].ver
    <3>1. CASE c # seen[p]
      <4>1. sig'[c] = sig[c] /\ sig[c].ver \in Nat
        BY <1>1, <2>1, <3>1 DEF Version
      <4>2. QED
        BY <4>1
    <3>2. CASE c = seen[p]
      <4>1. sig'[c] = Facts /\ Facts.log = logid /\ Facts.ver = LastInstalling(ledger)
        BY <1>1, <2>1, <3>2 DEF Facts
      <4>2. Recorded(sig[c], c, logid, ledger)
        BY <2>2, <4>1, Zenon DEF Inv, Roots, SigsOK
      <4>3. sig[c].ver \in DOMAIN ledger /\ Installing(ledger[sig[c].ver]) /\ ledger \in Seq(Entry)
        BY <4>2, Zenon DEF Recorded, Inv, RootTypes
      <4>4. sig[c].ver <= LastInstalling(ledger) /\ LastInstalling(ledger) \in 0..Len(ledger)
        BY <4>3, LastInstall
      <4>5. sig[c].ver \in Nat /\ LastInstalling(ledger) \in Nat
        BY <4>3, <4>4
      <4>6. QED
        BY <4>1, <4>4, <4>5
    <3>3. QED
      BY <3>1, <3>2
  <2>3. QED
    BY <2>2 DEF SignatureStep
<1>4. CASE procs' = procs
  BY <1>4 DEF SignatureStep
<1>5. CASE Next
  <2>1. ASSUME NEW p \in Procs, VouchInstalled(p) \/ PinnedVerify(p) \/ WriteVerifyFloor(p) \/ PullLedger(p) \/ PullSignature(p)
        PROVE  sig' = sig
    BY <2>1 DEF VouchInstalled, PinnedVerify, WriteVerifyFloor, PullLedger, PullSignature, root
  <2>2. RemoveFloor => sig' = sig
    BY DEF RemoveFloor, root
  <2>3. Bystander => sig' = sig
    BY DEF Bystander
  <2>4. UNCHANGED <<floor, ran, served, procs>> => procs' = procs
    OBVIOUS
  <2>5. QED
    BY <1>2, <1>3, <1>4, <1>5, <2>1, <2>2, <2>3, <2>4, Effects, Zenon
<1>6. CASE UNCHANGED vars
  <2>1. sig' = sig
    BY <1>6 DEF vars, root
  <2>2. QED
    BY <1>2, <2>1
<1>7. QED
  BY <1>5, <1>6

FloorForward == NotBefore(floor, floor')

LEMMA FloorSteps ==
  ASSUME Inv, [Next]_vars
  PROVE  FloorForward
<1>1. floor \in Version
  BY DEF Inv, RootTypes
<1>2. CASE floor' = floor
  <2>1. floor.ver \in Nat
    BY <1>1 DEF Version
  <2>2. QED
    BY <1>2, <2>1 DEF FloorForward, NotBefore
<1>3. ASSUME NEW p \in Procs, WriteVerifyFloor(p) PROVE FloorForward
  <2>1. floor' = ver[p] /\ pc[p] = "advance"
    BY <1>3 DEF WriteVerifyFloor
  <2>2. floor = NoInstall \/ floor = ver[p] \/ (floor.log = ver[p].log /\ floor.ver < ver[p].ver)
    BY <2>1, Zenon DEF Inv, ProcOK, Knows
  <2>3. ver[p].ver \in Nat /\ floor.ver \in Nat
    BY <1>1, Kept DEF Version
  <2>4. QED
    BY <2>1, <2>2, <2>3 DEF FloorForward, NotBefore
<1>4. CASE RemoveFloor
  BY <1>4 DEF RemoveFloor, FloorForward, NotBefore
<1>5. CASE Next
  <2>1. ASSUME NEW p \in Procs, WriteSignatureFile(p) \/ VouchInstalled(p) \/ PinnedVerify(p) \/ PullLedger(p) \/ PullSignature(p)
        PROVE  floor' = floor
    BY <2>1 DEF WriteSignatureFile, VouchInstalled, PinnedVerify, PullLedger, PullSignature, posture
  <2>2. Bystander \/ UNCHANGED <<floor, ran, served, procs>> => floor' = floor
    BY DEF Bystander
  <2>3. QED
    BY <1>2, <1>3, <1>4, <1>5, <2>1, <2>2, Effects, Zenon
<1>6. CASE UNCHANGED vars
  <2>1. floor' = floor
    BY <1>6 DEF vars, posture
  <2>2. QED
    BY <1>2, <2>1
<1>7. QED
  BY <1>5, <1>6

LEMMA RanSteps ==
  ASSUME Inv, [Next]_vars
  PROVE  RanOnRecord
<1>1. CASE ran' = ran
  BY <1>1 DEF RanOnRecord
<1>2. ASSUME NEW p \in Procs, OnRecord(seen[p]), Resolve(p, Facts) PROVE RanOnRecord
  <2>1. ran'.cfg = seen[p] /\ [log |-> ran'.log, ver |-> ran'.ver] = Facts
    BY <1>2 DEF Resolve, Facts
  <2>2. QED
    BY <1>2, <2>1, Zenon DEF RanOnRecord
<1>3. ASSUME NEW p \in Procs, VouchInstalled(p) PROVE RanOnRecord
  BY <1>1, <1>2, <1>3, Zenon DEF VouchInstalled
<1>4. ASSUME NEW p \in Procs, PinnedVerify(p) \/ WriteVerifyFloor(p) PROVE RanOnRecord
  <2>1. pc[p] \in {"signWrite", "verify", "advance"}
    BY <1>4 DEF PinnedVerify, WriteVerifyFloor
  <2>2. OnRecord(seen[p]) /\ ver[p] = Facts
    BY <2>1, Zenon DEF Inv, ProcOK, Knows
  <2>3. ran' = ran \/ Resolve(p, ver[p])
    BY <1>4 DEF PinnedVerify, WriteVerifyFloor, ResolvePinned
  <2>4. QED
    BY <1>1, <1>2, <2>2, <2>3, Zenon
<1>5. CASE Next
  <2>1. ASSUME NEW p \in Procs, WriteSignatureFile(p) \/ PullLedger(p) \/ PullSignature(p) PROVE ran' = ran
    BY <2>1, Zenon DEF WriteSignatureFile, PullLedger, PullSignature, history
  <2>2. Bystander \/ UNCHANGED <<floor, ran, served, procs>> \/ RemoveFloor => ran' = ran
    BY DEF Bystander, RemoveFloor
  <2>3. QED
    BY <1>1, <1>3, <1>4, <1>5, <2>1, <2>2, Effects, Zenon
<1>6. CASE UNCHANGED vars
  <2>1. ran' = ran
    BY <1>6 DEF vars, history
  <2>2. QED
    BY <1>1, <2>1
<1>7. QED
  BY <1>5, <1>6

LEMMA ServedSteps ==
  ASSUME Inv, [Next]_vars
  PROVE  ServedOnRecord
<1>1. CASE served' = served
  BY <1>1 DEF ServedOnRecord
<1>2. ASSUME NEW p \in Procs, NEW f \in Version, NEW s \in {NoInstall, f}, Recorded(f, seen[p], logid, ledger),
             served' = Answer(p, f, s)
      PROVE  ServedOnRecord
  <2>1. served'.cfg = seen[p] /\ served'.log = f.log /\ served'.ver = f.ver /\ served'.sig = s
    BY <1>2 DEF Answer
  <2>2. f = [log |-> f.log, ver |-> f.ver]
    BY DEF Version
  <2>3. QED
    BY <1>2, <2>1, <2>2 DEF ServedOnRecord, Recorded
<1>3. ASSUME NEW p \in Procs, PullLedger(p) PROVE ServedOnRecord
  <2>1. served' = served \/ (OnRecord(seen[p]) /\ served' = Answer(p, Facts, NoInstall))
    BY <1>3 DEF PullLedger
  <2>2. OnRecord(seen[p]) => Recorded(Facts, seen[p], logid, ledger)
    BY FactsRecorded
  <2>3. QED
    BY <1>1, <1>2, <2>1, <2>2, FactsType
<1>4. ASSUME NEW p \in Procs, PullSignature(p) PROVE ServedOnRecord
  <2>1. Recorded(ver[p], seen[p], logid, ledger) /\ ver[p] \in Version
    BY <1>4, Kept, Zenon DEF PullSignature, Inv, ProcOK, Pulls
  <2>2. served' = served \/ served' = Answer(p, ver[p], ver[p])
    BY <1>4 DEF PullSignature, Signed
  <2>3. QED
    BY <1>1, <1>2, <2>1, <2>2, Zenon
<1>5. CASE Next
  <2>1. ASSUME NEW p \in Procs, WriteSignatureFile(p) \/ VouchInstalled(p) \/ PinnedVerify(p) \/ WriteVerifyFloor(p)
        PROVE  served' = served
    BY <2>1 DEF WriteSignatureFile, VouchInstalled, PinnedVerify, WriteVerifyFloor, history
  <2>2. Bystander \/ UNCHANGED <<floor, ran, served, procs>> \/ RemoveFloor => served' = served
    BY DEF Bystander, RemoveFloor
  <2>3. QED
    BY <1>1, <1>3, <1>4, <1>5, <2>1, <2>2, Effects, Zenon
<1>6. CASE UNCHANGED vars
  <2>1. served' = served
    BY <1>6 DEF vars, history
  <2>2. QED
    BY <1>1, <2>1
<1>7. QED
  BY <1>5, <1>6

(* Every signature file is of an install on record, and no command ever    *)
(* puts an earlier install's signature over a later one's (buildSignature, *)
(* signInstalled, under installed.lock).                                   *)
THEOREM SignaturesMoveForward == Spec => SignatureNeverRegresses
<1>1. Inv => SignaturesOnRecord
  BY Zenon DEF Inv, Roots, SigsOK, Recorded, SignaturesOnRecord
<1>2. Inv /\ [Next]_vars => [SignatureStep]_vars
  BY SignatureSteps
<1>3. Spec => []SignaturesOnRecord
  BY <1>1, InstalledInvariance, PTL
<1>4. Spec => [][SignatureStep]_vars
  BY <1>2, InstalledInvariance, PTL DEF Spec
<1>5. QED
  BY <1>3, <1>4 DEF SignatureNeverRegresses, SignatureStep

(* A pinned execution point never goes back to an earlier install or to    *)
(* another ledger, through restores and re-created roots, until the        *)
(* operator removes its floor (judgeFloor, writeVerifyFloor).              *)
THEOREM FloorNeverMovesBack == Spec => NoRollback
<1>1. Inv /\ Inv' /\ [Next]_vars => [NotBefore(verified, verified') /\ NotBefore(floor, floor')]_vars
  BY FloorSteps DEF FloorForward, Inv
<1>2. QED
  BY <1>1, InstalledInvariance, PTL DEF Spec, NoRollback

(* A run resolves to the last recorded install, and a pull answers with    *)
(* one recorded install's hash, version and signature (vouchInstalled,     *)
(* pullConfig).                                                            *)
THEOREM AnswersAreOnRecord == Spec => UsedIsOnRecord
<1>1. Inv /\ [Next]_vars => [RanOnRecord /\ ServedOnRecord]_vars
  BY RanSteps, ServedSteps
<1>2. QED
  BY <1>1, InstalledInvariance, PTL DEF Spec, UsedIsOnRecord

=============================================================================
