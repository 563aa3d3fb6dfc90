------------------------------ MODULE Recovery ------------------------------
(***************************************************************************)
(* The write-once sink, and what is done with it: audit seal's protected   *)
(* copy, audit verify control's sink pass, audit restore control and its   *)
(* --rebuild (internal/control/restore.go, internal/sink/sink.go,          *)
(* cmd/agenthof/sink.go).                                                  *)
(*                                                                         *)
(* seal, restore and rebuild hold installed.lock for their whole run, so   *)
(* one of them runs at a time (cmd); a verification (ver) and the appends  *)
(* of other commands run beside it and take the active's lock only.        *)
(* ControlLedger has the rotation's races and torn writes; here a sealed   *)
(* segment is one value, told apart by its uid, which stands for the hash  *)
(* of its seal line.  Files are lost and corrupted, an older snapshot of   *)
(* the root is put back, the sink fails, and other writers of the bucket   *)
(* land versions at this ledger's keys.                                    *)
(***************************************************************************)
EXTENDS Integers, Sequences, FiniteSets, FiniteSetsExt, SequencesExt

CONSTANTS MaxSegments,    \* bound: the ordinals of sealed segments
          MaxSeals,       \* bound: the seal records ever written
          MaxFaults,      \* bound: faults of files, sink and processes
          Faults          \* the kinds of fault that happen

VARIABLES
  seg,        \* the segment files: ordinal -> body
  man,        \* the manifest: the digest of each listed segment
  active,     \* the active segment: [st, prev, uid]
  linked,     \* the ordinal whose name is the active's own inode, or 0
  copies,     \* the sink: ordinal -> the versions at its key, oldest first
  cmd,        \* the command that holds installed.lock
  ver,        \* audit verify control
  committed,  \* ghost: the segments some rotation listed
  sound,      \* ghost: no fault since the start, or since a recorded rebuild
  uids, faults

local == <<seg, man, active, linked>>
ghosts == <<committed, sound>>
vars == <<seg, man, active, linked, copies, cmd, ver, committed, sound, uids, faults>>

Ordinals == 1..MaxSegments

(* A sealed segment k: the head it chains from and its seal line's hash. *)
Body(k, p, u) == [n |-> k, prev |-> p, uid |-> u]
Junk == Body(0, 0, 0)            \* bytes that are no segment of this ledger

(* A manifest that does not parse; an entry 0 is a figure that is wrong. *)
Unusable == <<-1>>

Active(s, p, u) == [st |-> s, prev |-> p, uid |-> u]
NoActive == Active("none", 0, 0)
Empty == Active("empty", 0, 0)
Fresh == Active("fresh", 0, 0)   \* a new ledger, begun by a genesis of its own

Idle == [op |-> "none", pc |-> "idle", n |-> 0, last |-> 0, body |-> Junk, chain |-> <<>>, next |-> <<>>, held |-> FALSE]
Resting == [pc |-> "idle", view |-> <<>>, log |-> "own", st |-> "open", bad |-> FALSE, undecided |-> FALSE, keys |-> {}, owed |-> {}]

Init ==
  /\ seg = <<>> /\ man = <<>> /\ active = Active("open", 0, 0) /\ linked = 0
  /\ copies = [k \in Ordinals |-> <<>>]
  /\ cmd = Idle /\ ver = Resting
  /\ committed = {} /\ sound = TRUE
  /\ uids = 0 /\ faults = 0

-----------------------------------------------------------------------------
(* Reading the set (segments.go).                                           *)

Has(k) == k \in DOMAIN seg
listSiblings == DOMAIN seg
hasHistory == man # <<>> \/ listSiblings # {}
Listed == IF man = Unusable THEN 0 ELSE Len(man)

(* verifySealed: segment k judged from the head p, its entry last. *)
verifySealed(k, p) ==
  IF ~Has(k) THEN "missing"
  ELSE IF seg[k] = Junk THEN "broken"
  ELSE IF seg[k].prev # p THEN IF k = 1 THEN "broken" ELSE "boundary"
  ELSE IF man[k] # seg[k].uid THEN "manifest"
  ELSE "ok"

HeadOf(k) == IF k = 0 THEN 0 ELSE seg[k].uid

(* walkSealed: how many of the listed segments verify, in order. *)
Verifies(k) == \A j \in 1..k : verifySealed(j, HeadOf(j - 1)) = "ok"
walkSealed == Max({k \in 0..Listed : Verifies(k)})

Verdict(f, k) == [fault |-> f, n |-> k]

(* The active from the verified head (readActive, mapActiveFault, finishActive). *)
readActive ==
  IF Listed > 0 /\ linked = Listed THEN Verdict("listed", 0)
  ELSE IF active.st = "empty" THEN Verdict("open", 0)
  ELSE IF active.prev # HeadOf(Listed) \/ (active.st = "fresh" /\ Listed > 0)
       THEN Verdict("activeBoundary", 0)
  ELSE IF active.st = "sealed" THEN Verdict("sealed", 0)
  ELSE Verdict("open", 0)

(* Read's order: the active by name, the manifest, the listed segments,    *)
(* the siblings it does not explain, the active.                           *)
Read ==
  IF active.st = "none" THEN Verdict(IF hasHistory THEN "activeMissing" ELSE "absent", 0)
  ELSE IF man = Unusable THEN Verdict("manifest", 0)
  ELSE IF walkSealed < Listed
       THEN Verdict(verifySealed(walkSealed + 1, HeadOf(walkSealed)), walkSealed + 1)
  ELSE IF \E k \in listSiblings : k > Listed /\ ~(k = Listed + 1 /\ linked = k)
       THEN Verdict(IF man = <<>> THEN "noManifest" ELSE "unexpected", 0)
  ELSE readActive

Open == Read.fault = "open"
Clean == Read.fault \in {"open", "sealed", "listed"}

(* The active's exclusive lock, which restore and rebuild take when there  *)
(* is an active and a seal from its record to its swap.                    *)
Locked == cmd.held

Fault(f) == f \in Faults /\ faults < MaxFaults /\ faults' = faults + 1

(* incompleteRotation: decided from the active alone. *)
incompleteRotation ==
  active.st # "none" /\ (active.st = "sealed" \/ (Listed > 0 /\ linked = Listed))

(* A command ends, its locks with it. *)
Free == cmd.op = "none"
At(o, l) == cmd.op = o /\ cmd.pc = l
Goto(l) == cmd' = [cmd EXCEPT !.pc = l]
Leave == cmd' = Idle

SetFile(k, b) == [j \in DOMAIN seg \cup {k} |-> IF j = k THEN b ELSE seg[j]]
DropFile(k) == [j \in DOMAIN seg \ {k} |-> seg[j]]

(* A record appended by any command; the set must read clean and open.  On  *)
(* an empty root it begins a ledger of its own.                            *)
Appended ==
  IF active.st \in {"none", "empty"}
  THEN IF man = <<>> THEN Fresh ELSE Active("open", HeadOf(Listed), 0)
  ELSE active

AppendEvent ==
  /\ ~Locked /\ Read.fault \in {"open", "absent"}
  /\ active.st \in {"none", "empty"} /\ active' = Appended
  /\ UNCHANGED <<seg, man, linked, copies, cmd, ver, ghosts, uids, faults>>

-----------------------------------------------------------------------------
(* audit seal and its protected copy (seal.go, sink.go).                    *)

(* Prepare: a fresh seal's key holds no version. *)
Prepare(k) == copies[k] = <<>>

(* SealActive to its record, under the lock: preflight, link, seal line.   *)
(* A new ledger's seals go to keys of its own and are not followed.        *)
SealActive ==
  /\ Free /\ Open /\ active.st = "open"
  /\ Len(man) < MaxSegments /\ uids < MaxSeals
  /\ LET k == Len(man) + 1
         b == Body(k, active.prev, uids + 1)
     IN  /\ Prepare(k)
         /\ active' = Active("sealed", active.prev, uids + 1)
         /\ seg' = SetFile(k, b) /\ linked' = k
         /\ cmd' = [Idle EXCEPT !.op = "seal", !.pc = "list", !.n = k, !.body = b,
                                !.next = Append(man, b.uid), !.held = TRUE]
  /\ uids' = uids + 1
  /\ UNCHANGED <<man, copies, ver, ghosts, faults>>

(* CompleteSeal: state B goes through the copy again, state C to the swap. *)
CompleteSeal ==
  /\ Free /\ Read.fault \in {"sealed", "listed"}
  /\ LET k == IF Read.fault = "listed" THEN Listed ELSE Listed + 1
         b == Body(k, active.prev, active.uid)
     IN  /\ seg' = SetFile(k, b) /\ linked' = k
         /\ cmd' = [Idle EXCEPT !.op = "seal", !.n = k, !.body = b, !.held = TRUE,
                               !.next = Append(man, b.uid),
                               !.pc = IF Read.fault = "listed" THEN "swap" ELSE "list"]
  /\ UNCHANGED <<man, active, copies, ver, ghosts, uids, faults>>

Version(b, l) == [body |-> b, locked |-> l]

(* Put's listing: an empty key is written; a key that holds only these     *)
(* bytes is the seal's own copy, confirmed by the oldest version's lock;   *)
(* anything else is occupied, and the seal never writes on top.            *)
Occupied(vs, b) == \E i \in DOMAIN vs : vs[i].body # b
PutList ==
  /\ At("seal", "list")
  /\ LET vs == copies[cmd.n]
     IN  IF vs = <<>> THEN Goto("put")
         ELSE IF ~Occupied(vs, cmd.body) /\ vs[1].locked THEN Goto("manifest")
         ELSE Leave
  /\ UNCHANGED <<local, copies, ver, ghosts, uids, faults>>

(* putLocked.  A store that is not what the posture claims locks short. *)
Put ==
  /\ At("seal", "put")
  /\ \/ /\ copies' = [copies EXCEPT ![cmd.n] = Append(@, Version(cmd.body, TRUE))]
        /\ UNCHANGED <<sound, faults>>
     \/ /\ Fault("short") /\ sound' = FALSE
        /\ copies' = [copies EXCEPT ![cmd.n] = Append(@, Version(cmd.body, FALSE))]
  /\ Goto("confirm")
  /\ UNCHANGED <<local, ver, committed, uids>>

(* The version written must list as the oldest, its lock read back whole. *)
Mut_Confirmed(k, b) == \E i \in DOMAIN copies[k] : copies[k][i] = Version(b, TRUE)
Confirmed(k, b) == copies[k][1] = Version(b, TRUE)
PutConfirm ==
  /\ At("seal", "confirm")
  /\ IF Confirmed(cmd.n, cmd.body) THEN Goto("manifest") ELSE Leave
  /\ UNCHANGED <<local, copies, ver, ghosts, uids, faults>>

(* rotate's commit: the manifest of the set it read, and the segment. *)
Mut_SealManifest ==
  /\ At("seal", "manifest")
  /\ man' = <<cmd.body.uid>>
  /\ committed' = committed \cup {cmd.body}
  /\ Goto("swap")
  /\ UNCHANGED <<seg, active, linked, copies, ver, sound, uids, faults>>
SealManifest ==
  /\ At("seal", "manifest")
  /\ man' = cmd.next
  /\ committed' = committed \cup {cmd.body}
  /\ Goto("swap")
  /\ UNCHANGED <<seg, active, linked, copies, ver, sound, uids, faults>>

swapActive == active' = Empty /\ linked' = 0
SealSwap ==
  /\ At("seal", "swap")
  /\ swapActive /\ Leave
  /\ UNCHANGED <<seg, man, copies, ver, ghosts, uids, faults>>

-----------------------------------------------------------------------------
(* audit restore control (Restore).                                         *)

(* restorable: a fault in a sealed segment the manifest lists. *)
Restorable(v) == v.n > 0 /\ v.fault \in {"missing", "broken", "boundary", "manifest"}

(* One turn of Restore's loop: stop, refuse, or go on to segment k.  Once  *)
(* the set reads clean, one record for what was restored.                  *)
RestoreRead ==
  /\ IF Free THEN Restorable(Read) ELSE At("restore", "read")
  /\ LET v == Read
     IN  IF Restorable(v) /\ v.n > cmd.last /\ ~incompleteRotation
         THEN /\ cmd' = [cmd EXCEPT !.op = "restore", !.pc = "select", !.n = v.n]
              /\ UNCHANGED active
         ELSE /\ Leave
              /\ active' = IF Open /\ cmd.last > 0 THEN Appended ELSE active
  /\ UNCHANGED <<seg, man, linked, copies, ver, ghosts, uids, faults>>

(* verifyFetchedSegment: sealed segment k of this ledger, from the head p. *)
verifyFetchedSegment(b, k, p) == b # Junk /\ b.n = k /\ b.prev = p

(* firstPrev: what the file after segment k chains from; 0 constrains nothing. *)
firstPrev(k) ==
  IF k = Listed THEN IF active.st \in {"open", "sealed"} THEN active.prev ELSE 0
  ELSE IF Has(k + 1) THEN seg[k + 1].prev ELSE 0

Chaining(k) ==
  {i \in DOMAIN copies[k] :
     LET b == copies[k][i].body
     IN  verifyFetchedSegment(b, k, HeadOf(k - 1)) /\ firstPrev(k) \in {0, b.uid}}

(* restoreSegment's selection, no lock held: the oldest version that       *)
(* chains both ways.                                                       *)
Mut_RestoreSelect ==
  /\ At("restore", "select")
  /\ LET k == cmd.n
     IN  IF Chaining(k) = {} THEN Leave
         ELSE cmd' = [cmd EXCEPT !.pc = "hold", !.body = copies[k][Max(Chaining(k))].body]
  /\ UNCHANGED <<local, copies, ver, ghosts, uids, faults>>
RestoreSelect ==
  /\ At("restore", "select")
  /\ LET k == cmd.n
     IN  IF Chaining(k) = {} THEN Leave
         ELSE cmd' = [cmd EXCEPT !.pc = "hold", !.body = copies[k][Min(Chaining(k))].body]
  /\ UNCHANGED <<local, copies, ver, ghosts, uids, faults>>

(* holdActive, then what is under the name moved aside. *)
RestoreHold ==
  /\ At("restore", "hold")
  /\ IF active.st = "none" THEN Leave /\ UNCHANGED <<seg, linked>>
     ELSE /\ cmd' = [cmd EXCEPT !.pc = "write", !.held = TRUE]
          /\ seg' = DropFile(cmd.n)
          /\ linked' = IF linked = cmd.n THEN 0 ELSE linked
  /\ UNCHANGED <<man, active, copies, ver, ghosts, uids, faults>>

RestoreWrite ==
  /\ At("restore", "write")
  /\ seg' = SetFile(cmd.n, cmd.body)
  /\ cmd' = [cmd EXCEPT !.pc = "read", !.last = cmd.n, !.held = FALSE]
  /\ UNCHANGED <<man, active, linked, copies, ver, ghosts, uids, faults>>

-----------------------------------------------------------------------------
(* audit restore control --rebuild (Rebuild).                               *)

(* Any verdict is an input but an incomplete rotation, and a root that is  *)
(* readably another ledger's.                                              *)
RebuildRead ==
  /\ Free /\ ~incompleteRotation
  /\ ~(Open /\ active.st = "fresh")
  /\ cmd' = [Idle EXCEPT !.op = "rebuild", !.pc = "fetch"]
  /\ UNCHANGED <<local, copies, ver, ghosts, uids, faults>>

(* fetchChain: the oldest version at each key, 1..N without a hole and     *)
(* each the next link, or the whole rebuild is refused.                    *)
Keys == {k \in Ordinals : copies[k] # <<>>}
Oldest(k) == copies[k][1].body
SinkChains ==
  /\ Keys # {} /\ Keys = 1..Max(Keys)
  /\ \A k \in Keys : verifyFetchedSegment(Oldest(k), k, IF k = 1 THEN 0 ELSE Oldest(k - 1).uid)
fetchChain ==
  /\ At("rebuild", "fetch")
  /\ IF SinkChains
     THEN cmd' = [cmd EXCEPT !.pc = "hold", !.chain = [k \in 1..Max(Keys) |-> Oldest(k)]]
     ELSE Leave
  /\ UNCHANGED <<local, copies, ver, ghosts, uids, faults>>

(* holdActive; a missing active is tolerated, and nothing is then held. *)
RebuildHold ==
  /\ At("rebuild", "hold")
  /\ cmd' = [cmd EXCEPT !.pc = "segment", !.n = 1, !.held = active.st # "none"]
  /\ UNCHANGED <<local, copies, ver, ghosts, uids, faults>>

(* rebuildWrite, ascending: an identical file is left, a differing one is  *)
(* moved aside, an absent one written.                                     *)
Mut_RebuildSegment ==
  /\ At("rebuild", "segment") /\ cmd.n <= Len(cmd.chain)
  /\ seg' = (IF Has(cmd.n) THEN seg ELSE SetFile(cmd.n, cmd.chain[cmd.n]))
  /\ cmd' = [cmd EXCEPT !.n = @ + 1]
  /\ UNCHANGED <<man, active, linked, copies, ver, committed, sound, uids, faults>>
RebuildSegment ==
  /\ At("rebuild", "segment") /\ cmd.n <= Len(cmd.chain)
  /\ LET k == cmd.n
         b == cmd.chain[k]
     IN  IF Has(k) /\ seg[k] # b
         THEN /\ seg' = DropFile(k) /\ linked' = (IF linked = k THEN 0 ELSE linked)
              /\ UNCHANGED cmd
         ELSE /\ seg' = SetFile(k, b) /\ cmd' = [cmd EXCEPT !.n = k + 1]
              /\ UNCHANGED linked
  /\ UNCHANGED <<man, active, copies, ver, committed, sound, uids, faults>>

(* The manifest of the fetched bytes, with the local entries beyond them   *)
(* kept while they verify from the rebuilt head.                           *)
Trailing(c) ==
  LET N == Len(c)
      from(j) == IF j = N + 1 THEN c[N].uid ELSE HeadOf(j - 1)
      good == {m \in N..Listed : \A j \in N + 1..m : verifySealed(j, from(j)) = "ok"}
  IN  IF Listed <= N THEN <<>> ELSE SubSeq(man, N + 1, Max(good))
Rebuilt(c) == [k \in DOMAIN c |-> c[k].uid] \o Trailing(c)

RebuildManifest ==
  /\ At("rebuild", "segment") /\ cmd.n > Len(cmd.chain)
  /\ IF man = Rebuilt(cmd.chain) THEN Goto("active") /\ man' = man
     ELSE /\ cmd' = [cmd EXCEPT !.pc = "manifest", !.next = Rebuilt(cmd.chain)]
          /\ man' = <<>>
  /\ UNCHANGED <<seg, active, linked, copies, ver, committed, sound, uids, faults>>

RebuildManifestWrite ==
  /\ At("rebuild", "manifest")
  /\ man' = cmd.next
  /\ committed' = committed \cup ToSet(cmd.chain)
  /\ Goto("active")
  /\ UNCHANGED <<seg, active, linked, copies, ver, sound, uids, faults>>

(* An active that was absent when the lock was to be taken is created      *)
(* empty, last; then the lock is let go.                                   *)
RebuildActive ==
  /\ At("rebuild", "active")
  /\ IF cmd.held THEN UNCHANGED <<active, linked>> ELSE swapActive
  /\ cmd' = [cmd EXCEPT !.pc = "read", !.held = FALSE]
  /\ UNCHANGED <<seg, man, copies, ver, ghosts, uids, faults>>

(* The set read again: recorded when clean and open, a RebuildError else. *)
RebuildRecord ==
  /\ At("rebuild", "read")
  /\ IF Open THEN /\ active' = Appended
                  /\ sound' = (Keys = DOMAIN cmd.chain /\ \A k \in Keys : copies[k][1].locked)
     ELSE UNCHANGED <<active, sound>>
  /\ Leave
  /\ UNCHANGED <<seg, man, linked, copies, ver, committed, uids, faults>>

-----------------------------------------------------------------------------
(* audit verify control --integrity: the sink pass (verifySink).            *)

(* The log id whose prefix is listed: the manifest's, or the genesis' of a *)
(* set that has not sealed.  A ledger begun anew in an emptied root has    *)
(* one of its own; an empty active without a manifest names none.          *)
LogID ==
  CASE Listed > 0 \/ active.st \in {"open", "sealed"} -> "own"
    [] Listed = 0 /\ active.st = "fresh" -> "other"
    [] Listed = 0 /\ active.st = "empty" -> "none"

(* The view, read under the shared lock that is then let go. *)
VerifyRead ==
  /\ ver.pc = "idle" /\ ~Locked /\ Clean
  /\ ver' = [Resting EXCEPT !.pc = "copies", !.view = [k \in 1..Listed |-> seg[k]],
                           !.log = LogID, !.st = Read.fault, !.owed = committed]
  /\ UNCHANGED <<local, copies, cmd, ghosts, uids, faults>>

(* verifyCopy: the oldest version at the record's key against the segment. *)
verifyCopy(b) ==
  /\ copies[b.n] # <<>>
  /\ copies[b.n][1].body = b
  /\ copies[b.n][1].locked

(* Chain-first: each copy judged from its record. *)
VerifyCopies ==
  /\ ver.pc = "copies"
  /\ ver' = [ver EXCEPT !.pc = "list", !.bad = \E b \in ToSet(ver.view) : ~verifyCopy(b)]
  /\ UNCHANGED <<local, copies, cmd, ghosts, uids, faults>>

(* Bucket-first: every object under the prefix; another ledger's holds     *)
(* none, and without a log id the sink is not listed.                      *)
VerifyList ==
  /\ ver.pc = "list"
  /\ ver' = [ver EXCEPT !.pc = "judge", !.keys = IF ver.log = "own" THEN Keys ELSE {},
                        !.undecided = @ \/ ver.log = "none"]
  /\ UNCHANGED <<local, copies, cmd, ghosts, uids, faults>>

(* An ordinal past the view is judged against the set read again: listed   *)
(* by now, or unreadable, it is in flight; a rotating segment's is owed;   *)
(* any other is not accounted for.                                         *)
Past == {k \in ver.keys : k > Len(ver.view)}
Mut_InFlight == {}
InFlight == {k \in Past : Locked \/ ~Clean \/ k <= Listed}
Pending == {k \in Past : Clean /\ Read.fault = "sealed" /\ k = Listed + 1}
Mut_Unaccounted == {}
Unaccounted == Past \ (InFlight \cup Pending)

Exit ==
  IF ver.bad \/ Unaccounted # {} THEN 9
  ELSE IF ver.undecided \/ InFlight # {} THEN 10
  ELSE IF ver.st # "open" THEN 8
  ELSE 0

VerifyJudge ==
  /\ ver.pc = "judge"
  /\ ver' = Resting
  /\ UNCHANGED <<local, copies, cmd, ghosts, uids, faults>>

-----------------------------------------------------------------------------
(* Faults, other writers of the bucket, and the operator.                   *)

Crash ==
  /\ ~Free /\ Fault("crash") /\ Leave
  /\ UNCHANGED <<local, copies, ver, ghosts, uids>>

(* A sink call fails: a command ends with nothing written, a verification  *)
(* goes on without a verdict on that copy, or without the listing.         *)
SinkFails ==
  /\ Fault("sink")
  /\ \/ /\ cmd.pc \in {"list", "put", "confirm", "select", "fetch"} /\ Leave
        /\ UNCHANGED ver
     \/ /\ ver.pc = "copies"
        /\ \E c \in ToSet(ver.view) :
             ver' = [ver EXCEPT !.pc = "list", !.undecided = TRUE,
                               !.bad = \E b \in ToSet(ver.view) \ {c} : ~verifyCopy(b)]
        /\ UNCHANGED cmd
     \/ /\ ver.pc = "list" /\ ver.log # "none"
        /\ ver' = [ver EXCEPT !.pc = "judge", !.undecided = TRUE]
        /\ UNCHANGED cmd
  /\ UNCHANGED <<local, copies, ghosts, uids>>

(* A local file is damaged, between commands: damage done while one runs   *)
(* is found by the next.                                                   *)
Damage(f) == Free /\ Fault(f) /\ sound' = FALSE
Unlinked(k) == IF linked = k THEN 0 ELSE linked

LoseSegment(k) ==
  /\ Damage("lose") /\ Has(k)
  /\ seg' = DropFile(k) /\ linked' = Unlinked(k)
  /\ UNCHANGED <<man, active, copies, cmd, ver, committed, uids>>

CorruptSegment(k) ==
  /\ Damage("corrupt") /\ Has(k) /\ seg[k] # Junk /\ linked # k
  /\ seg' = SetFile(k, Junk)
  /\ UNCHANGED <<man, active, linked, copies, cmd, ver, committed, uids>>

(* The manifest is lost, unreadable, or wrong in one figure. *)
DamageManifest ==
  /\ Damage("manifest") /\ man \notin {<<>>, Unusable}
  /\ man' \in {<<>>, Unusable} \cup {[man EXCEPT ![k] = 0] : k \in DOMAIN man}
  /\ UNCHANGED <<seg, active, linked, copies, cmd, ver, committed, uids>>

LoseActive ==
  /\ Damage("active") /\ active.st # "none"
  /\ active' = NoActive /\ linked' = 0
  /\ UNCHANGED <<seg, man, copies, cmd, ver, committed, uids>>

Wipe ==
  /\ Damage("wipe") /\ hasHistory
  /\ seg' = <<>> /\ man' = <<>> /\ active' = NoActive /\ linked' = 0
  /\ UNCHANGED <<copies, cmd, ver, committed, uids>>

(* A snapshot of the root from before segment j + 1 was sealed comes back. *)
Rollback(j) ==
  /\ Damage("rollback") /\ Clean /\ j < Len(man)
  /\ seg' = [k \in 1..j |-> seg[k]] /\ man' = SubSeq(man, 1, j)
  /\ active' = Active("open", HeadOf(j), 0) /\ linked' = 0
  /\ UNCHANGED <<copies, cmd, ver, committed, uids>>

(* Another writer puts an object at a key of this ledger. *)
Foreign(k) ==
  /\ Fault("foreign") /\ sound' = FALSE
  /\ \E b \in {Junk} \cup {Body(k, p.prev, MaxSeals + 1) : p \in {c \in committed : c.n = k}} :
       copies' = [copies EXCEPT ![k] = Append(@, Version(b, FALSE))]
  /\ UNCHANGED <<local, cmd, ver, committed, uids>>

(* A restored snapshot of this host seals the next ordinal beside it. *)
CloneSeals ==
  /\ Fault("clone") /\ sound' = FALSE
  /\ Cardinality(committed) < MaxSegments /\ uids < MaxSeals
  /\ LET k == Cardinality(committed) + 1
         p == IF k = 1 THEN 0 ELSE (CHOOSE c \in committed : c.n = k - 1).uid
         b == Body(k, p, uids + 1)
     IN  /\ Prepare(k)
         /\ copies' = [copies EXCEPT ![k] = <<Version(b, TRUE)>>]
         /\ committed' = committed \cup {b}
  /\ uids' = uids + 1
  /\ UNCHANGED <<local, cmd, ver>>

(* The remedy printRebuilt names for an active that no longer chains: move *)
(* it aside and create an empty one.                                       *)
MoveActiveAside ==
  /\ Free /\ Read.fault = "activeBoundary"
  /\ swapActive
  /\ UNCHANGED <<seg, man, copies, cmd, ver, ghosts, uids, faults>>

SealStep == PutList \/ Put \/ PutConfirm \/ SealManifest \/ SealSwap
RestoreStep == RestoreSelect \/ RestoreHold \/ RestoreWrite
RebuildStep ==
  \/ fetchChain \/ RebuildHold \/ RebuildSegment
  \/ RebuildManifest \/ RebuildManifestWrite \/ RebuildActive \/ RebuildRecord
Step == SealStep \/ RestoreStep \/ RebuildStep
Verify == VerifyRead \/ VerifyCopies \/ VerifyList \/ VerifyJudge
Trouble ==
  \/ Crash \/ SinkFails \/ DamageManifest \/ LoseActive \/ Wipe \/ CloneSeals
  \/ \E k \in Ordinals : LoseSegment(k) \/ CorruptSegment(k) \/ Foreign(k)
  \/ \E j \in 0..MaxSegments : Rollback(j)

Next ==
  \/ AppendEvent \/ SealActive \/ CompleteSeal \/ RestoreRead \/ RebuildRead
  \/ Step \/ Verify \/ MoveActiveAside \/ Trouble

Spec == Init /\ [][Next]_vars

(* A command that runs is scheduled; the operator runs the rebuild again   *)
(* until installed.lock is free for it, and follows the remedy it names.   *)
FairSpec ==
  /\ Spec
  /\ WF_vars(Step) /\ WF_vars(~Free /\ RestoreRead)
  /\ SF_vars(RebuildRead) /\ SF_vars(MoveActiveAside)

-----------------------------------------------------------------------------
(* Properties.                                                              *)

Lists(b) == Has(b.n) /\ seg[b.n] = b /\ b.n <= Listed /\ man[b.n] = b.uid
Whole == \A b \in committed : Lists(b)

(* The oldest version at a committed segment's key is that segment, though *)
(* other writers may land a version between the seal's listing and its     *)
(* PUT, and a snapshot put back may seal an ordinal again: no ordinal is   *)
(* ever committed twice (Prepare, Put's oldest-version rule).              *)
CommittedIsOldest == \A b \in committed : copies[b.n] # <<>> /\ copies[b.n][1].body = b

(* Unless a file was damaged since, every committed segment is on disk as  *)
(* it was committed: no seal, restore or rebuild, cut off at any step,     *)
(* loses one, and a rebuild that records success has put all of them back. *)
WholeUnlessDamaged == sound => Whole

(* What a restore writes is the segment that was committed, never another  *)
(* version at its key (restoreSegment's selection by the chain).           *)
RestoredIsCommitted == cmd.op = "restore" /\ cmd.pc \in {"hold", "write"} => cmd.body \in committed

(* A verification that exits 0 has seen every segment that was committed   *)
(* when it began: a root put back to an older snapshot is not clean.  It   *)
(* is of one ledger: over a ledger begun anew in an emptied or half        *)
(* rebuilt root, which lists another prefix, it exits 0 with none of the   *)
(* committed segments seen (verifySink's log id).                          *)
VerifyIsHonest ==
  [][VerifyJudge /\ Exit = 0 /\ ver.log = "own" => ver.owed \subseteq ToSet(ver.view)]_vars

(* A verification never takes a seal or a rebuild that runs beside it for  *)
(* tampering: exit 9 only after a fault (the view read again, verifySink). *)
NoFalseTamper == [][VerifyJudge /\ Exit = 9 => ~sound]_vars

(* What a rebuild does not put right.  It is refused over a rotation to    *)
(* complete, over copies that do not chain and in another ledger's root;   *)
(* over a segment beyond its manifest it writes the set and then reports   *)
(* that it does not verify, and the segment is the operator's to remove.   *)
Blocked ==
  \/ incompleteRotation \/ ~SinkChains
  \/ Read.fault = "unexpected" \/ active.st = "fresh"

(* A damaged set is whole again once the faults stop and the rebuild is    *)
(* run again, with the remedy it names, but for what a rebuild does not    *)
(* put right: a re-run finds the written files identical and completes.    *)
RebuildCompletes == ~(Clean /\ Whole) ~> (Clean /\ Whole) \/ Blocked
=============================================================================
