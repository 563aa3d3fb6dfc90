---------------------------- MODULE ControlLedger ----------------------------
(***************************************************************************)
(* The segmented control ledger of internal/control over internal/ledger:  *)
(* the active file, the sealed segment files, the manifest that lists      *)
(* them, the protected copies in the WORM sink, and the commands that      *)
(* append, seal, complete a seal, repair and read, each a process that     *)
(* takes the code's steps one file operation at a time, may lose the race  *)
(* for a lock, and may die between any two of them.                        *)
(*                                                                         *)
(* A file is an inode: files[i] holds its whole lines, and i is in `torn`  *)
(* when an incomplete line follows them; the names `active` and `seg[k]`   *)
(* point at inodes (0: no such name), so a handle opened before a rename   *)
(* keeps its inode, and a hard link is two names with one inode.  An       *)
(* advisory lock belongs to the handle: who holds it follows from pc, and  *)
(* it goes with the process.                                               *)
(* The hash of a record is its uid, fresh for each line written (a record  *)
(* carries time and witness), the digest of a whole file is its lines.     *)
(***************************************************************************)
EXTENDS Integers, Sequences, FiniteSets

CONSTANTS
  Procs,       \* the running commands
  Ops,         \* which operations they start: a subset of OpKinds
  Postures,    \* the integrity postures an operator sets: of {"floor", "worm"}
  OlderWriter, \* whether a binary older than segment sets may append
  MaxFaults,   \* bound on crashes, failed writes and sink failures
  MaxOps       \* bound on the commands started, completions aside

OpKinds == {"append", "seal", "complete", "repair", "read"}

ASSUME ConstantsAssumption ==
  /\ Ops \subseteq OpKinds
  /\ Postures \subseteq {"floor", "worm"} /\ Postures # {}
  /\ OlderWriter \in BOOLEAN
  /\ MaxFaults \in Nat /\ MaxOps \in Nat

VARIABLES
  files,     \* inode -> its whole lines
  torn,      \* the inodes that end in an incomplete line
  foreign,   \* the inodes to which an older binary added lines of no chain
  active,    \* the inode the active name is bound to, 0 before the first open
  seg,       \* ordinal -> the inode its segment name is bound to
  manifest,  \* the entries of the manifest, in order
  copies,    \* ordinal -> the lines of its protected copy in the sink
  posture,   \* the root's integrity posture
  pc, op,    \* per process: where it is, which operation it performs
  try,       \* its attempt at opening by name (two are made)
  wk,        \* the manifest its walk of the sealed segments verified
  h,         \* its handle's inode
  ch,        \* its ledger.Chain: base, count and head; for repair, the cut
  snk,       \* the posture it built its sink from
  pre,       \* the bytes whose copy repair confirmed before it rotates
  log,       \* history: the lines written and not cut, in order of writing
  acked,     \* history: uids of the lines whose append was acknowledged
  aside,     \* history: uids of the lines preserved in torn fragments
  heads,     \* history: the heads clean reads have published
  lines, faults, nops   \* lines written, faults met, commands started

disk == <<files, torn, foreign, active, seg, manifest, copies, posture>>
procs == <<pc, op, try, wk, h, ch, snk, pre>>
history == <<log, acked, aside, heads>>
vars == <<disk, procs, history, lines, faults, nops>>

History == INSTANCE ControlHistory WITH log <- log, aside <- aside

Line == History!Line
EmptyFile == <<>>
NoChain == [base |-> 0, count |-> 0, prev |-> 0]

(* The steps of a process, by what it holds.  "shared" is LOCK_SH on its   *)
(* handle, the Exclusive ones LOCK_EX.                                     *)
Exclusive == {"locked", "ready", "linked", "sealed", "copied", "listed", "xlocked", "fragged"}
Steps == Exclusive \cup
         {"idle", "start", "walked", "opened", "ropened", "shared", "rcopy", "cut", "xopened"}

RepairOps == {"repair", "repairComplete", "repairAppend"}
Completing == {"complete", "repairComplete"}
Appending == {"append", "repairAppend"}

Attempts == 2

-----------------------------------------------------------------------------
(* Reading the set.                                                         *)

(* ledger.Start of what follows the manifest's last segment. *)
Base(m) == IF m = <<>> THEN 0 ELSE m[Len(m)].head
Prev(m) == IF m = <<>> THEN 0 ELSE m[Len(m)].hash
Before(m, k) == SubSeq(m, 1, k - 1)

HeadOf(m, ls) == IF ls = <<>> THEN Prev(m) ELSE ls[Len(ls)].uid

Verifies(m, ls) ==
  \A k \in DOMAIN ls :
    /\ ls[k].seq = Base(m) + k
    /\ ls[k].prev = (IF k = 1 THEN Prev(m) ELSE ls[k - 1].uid)

Seals(ls) == {k \in DOMAIN ls : ls[k].act = "seal"}

Entry(m, ls) == [first |-> Base(m) + 1, head |-> Base(m) + Len(ls),
                 hash |-> ls[Len(ls)].uid, sha |-> ls]

SealedOK(m, k) ==
  /\ k \in DOMAIN seg
  /\ seg[k] \notin torn \cup foreign
  /\ LET ls == files[seg[k]]
     IN  /\ Verifies(Before(m, k), ls)
         /\ ls # <<>> /\ Seals(ls) = {Len(ls)} /\ ls[Len(ls)].seg = k
         /\ m[k] = Entry(Before(m, k), ls)

WalkOK(m) == \A k \in DOMAIN m : SealedOK(m, k)

(* What readActive says of handle i behind the sealed segments of m;       *)
(* "foreign" is the boundary fault that names an older writer.             *)
Unexpected(m, i) ==
  \E k \in DOMAIN seg : k > Len(m) /\ ~(k = Len(m) + 1 /\ seg[k] = i)

(* Mutant: the active that is already a listed segment is not recognised. *)
Mut_Listed(m, i) == FALSE

Listed(m, i) == m # <<>> /\ Len(m) \in DOMAIN seg /\ seg[Len(m)] = i

FinishActive(m, ls) ==
  IF \E k \in Seals(ls) : k < Len(ls) THEN "sealNotLast"
  ELSE IF Seals(ls) = {} THEN "open"
  ELSE IF ls[Len(ls)].seg = Len(m) + 1 THEN "sealed" ELSE "manifest"

Verdict(m, i) ==
  IF Unexpected(m, i) THEN "unexpected"
  ELSE IF Listed(m, i) THEN "listed"
  ELSE IF i \in foreign THEN "foreign"
  ELSE IF ~Verifies(m, files[i]) THEN "broken"
  ELSE IF i \in torn THEN "torn"
  ELSE FinishActive(m, files[i])

-----------------------------------------------------------------------------
(* Locks and bookkeeping.                                                   *)

HoldsEx(p, i) == pc[p] \in Exclusive /\ h[p] = i
HoldsSh(p, i) == pc[p] = "shared" /\ h[p] = i

Leave(p) ==
  /\ pc' = [pc EXCEPT ![p] = "idle"]  /\ op' = [op EXCEPT ![p] = "none"]
  /\ try' = [try EXCEPT ![p] = 0]     /\ wk' = [wk EXCEPT ![p] = <<>>]
  /\ h' = [h EXCEPT ![p] = 0]         /\ ch' = [ch EXCEPT ![p] = NoChain]
  /\ snk' = [snk EXCEPT ![p] = "floor"] /\ pre' = [pre EXCEPT ![p] = <<>>]

Goto(p, l) == pc' = [pc EXCEPT ![p] = l]

Fault == faults < MaxFaults /\ faults' = faults + 1

Init ==
  /\ files = <<>> /\ torn = {} /\ foreign = {} /\ active = 0 /\ seg = <<>> /\ manifest = <<>> /\ copies = <<>>
  /\ posture \in Postures
  /\ pc = [p \in Procs |-> "idle"] /\ op = [p \in Procs |-> "none"]
  /\ try = [p \in Procs |-> 0] /\ wk = [p \in Procs |-> <<>>]
  /\ h = [p \in Procs |-> 0] /\ ch = [p \in Procs |-> NoChain]
  /\ snk = [p \in Procs |-> "floor"] /\ pre = [p \in Procs |-> <<>>]
  /\ log = <<>> /\ acked = {} /\ aside = {} /\ heads = {}
  /\ lines = 0 /\ faults = 0 /\ nops = 0

(* The operator edits integrity.yaml. *)
SetPosture ==
  /\ posture' \in Postures \ {posture}
  /\ UNCHANGED <<files, torn, foreign, active, seg, manifest, copies, procs, history, lines, faults, nops>>

(* A command starts.  A completion is asked for when the command's own     *)
(* Writable found the active sealed; repair runs under installed.lock,     *)
(* which no other repair shares; read and repair need a ledger to read.    *)
RotationPending ==
  /\ active # 0
  /\ Verdict(manifest, active) \in {"sealed", "listed"}
  /\ ~\E q \in Procs : HoldsEx(q, active)

(* Mutant: two repairs at once. *)
Mut_NoOtherRepair == TRUE

NoOtherRepair == \A q \in Procs : op[q] \notin RepairOps

Invoke(p, o) ==
  /\ pc[p] = "idle"
  /\ o = "complete" => RotationPending
  /\ o = "repair" => NoOtherRepair
  /\ o \in {"read", "repair"} => active # 0
  /\ IF o = "complete" THEN UNCHANGED nops ELSE nops < MaxOps /\ nops' = nops + 1
  /\ Goto(p, "start") /\ op' = [op EXCEPT ![p] = o] /\ try' = [try EXCEPT ![p] = 1]
  /\ snk' = [snk EXCEPT ![p] = IF o \in {"seal", "complete", "repair"} THEN posture ELSE "floor"]
  /\ UNCHANGED <<disk, wk, h, ch, pre, history, lines, faults>>

-----------------------------------------------------------------------------
(* lockActive: walk the sealed segments without a lock, open the active by *)
(* name, lock it, and trust neither until both are confirmed under it.     *)

Walk(p) ==
  /\ pc[p] = "start" /\ op[p] \notin {"read", "repair"}
  /\ WalkOK(manifest)
  /\ wk' = [wk EXCEPT ![p] = manifest]
  /\ Goto(p, "walked")
  /\ UNCHANGED <<disk, op, try, h, ch, snk, pre, history, lines, faults, nops>>

WalkFails(p) ==
  /\ pc[p] = "start" /\ op[p] \notin {"read", "repair"}
  /\ ~WalkOK(manifest)
  /\ Leave(p)
  /\ UNCHANGED <<disk, history, lines, faults, nops>>

OpenForAppend(p) ==
  /\ pc[p] = "walked"
  /\ \/ /\ active = 0 /\ op[p] \notin Completing
        /\ files' = Append(files, EmptyFile) /\ active' = Len(files) + 1
     \/ active # 0 /\ UNCHANGED <<files, active>>
  /\ h' = [h EXCEPT ![p] = active']
  /\ Goto(p, "opened")
  /\ UNCHANGED <<torn, foreign, seg, manifest, copies, posture, op, try, wk, ch, snk, pre, history, lines, faults, nops>>

LockExclusive(p) ==
  /\ pc[p] \in {"opened", "xopened"}
  /\ ~\E q \in Procs : HoldsEx(q, h[p]) \/ HoldsSh(q, h[p])
  /\ Goto(p, IF pc[p] = "opened" THEN "locked" ELSE "xlocked")
  /\ UNCHANGED <<disk, op, try, wk, h, ch, snk, pre, history, lines, faults, nops>>

LockShared(p) ==
  /\ pc[p] = "ropened"
  /\ ~\E q \in Procs : HoldsEx(q, h[p])
  /\ Goto(p, "shared")
  /\ UNCHANGED <<disk, op, try, wk, h, ch, snk, pre, history, lines, faults, nops>>

(* The bounded wait for the lock ends without it. *)
Busy(p) ==
  /\ pc[p] \in {"opened", "xopened", "ropened"}
  /\ \E q \in Procs : HoldsEx(q, h[p]) \/ (pc[p] # "ropened" /\ HoldsSh(q, h[p]))
  /\ Leave(p)
  /\ UNCHANGED <<disk, history, lines, faults, nops>>

(* Mutants: the re-stat, or the second reading of the manifest, left out. *)
Mut_SameFile(p) == TRUE
Mut_ManifestEqual(p) == TRUE

SameFile(p) == h[p] = active
ManifestEqual(p) == Len(wk[p]) = Len(manifest) /\ Prev(wk[p]) = Prev(manifest)
Confirmed(p) == SameFile(p) /\ ManifestEqual(p)

(* A rotation went by: unlock and start over, once. *)
Retry(p) ==
  IF try[p] < Attempts
  THEN /\ Goto(p, "start") /\ try' = [try EXCEPT ![p] = @ + 1]
       /\ h' = [h EXCEPT ![p] = 0] /\ wk' = [wk EXCEPT ![p] = <<>>]
       /\ UNCHANGED <<op, ch, snk, pre>>
  ELSE Leave(p)

Stale(p) ==
  /\ pc[p] = "locked" /\ ~Confirmed(p)
  /\ Retry(p)
  /\ UNCHANGED <<disk, history, lines, faults, nops>>

ActiveVerdict(p) == Verdict(wk[p], h[p])

(* Mutant: state C is not completed. *)
Mut_Acceptable(p) ==
  \/ op[p] \in Appending /\ ActiveVerdict(p) = "open"
  \/ op[p] = "seal" /\ ActiveVerdict(p) = "open" /\ files[h[p]] # <<>>
  \/ op[p] \in Completing /\ ActiveVerdict(p) = "sealed"

(* The set is damaged, sealed or (for a completion) open, or the active is *)
(* empty and there is nothing to seal.                                     *)
Acceptable(p) ==
  LET v == ActiveVerdict(p)
  IN  \/ op[p] \in Appending /\ v = "open"
      \/ op[p] = "seal" /\ v = "open" /\ files[h[p]] # <<>>
      \/ op[p] \in Completing /\ v \in {"sealed", "listed"}

Refuse(p) ==
  /\ pc[p] = "locked" /\ Confirmed(p) /\ ~Acceptable(p)
  /\ Leave(p)
  /\ UNCHANGED <<disk, history, lines, faults, nops>>

Admit(p) ==
  /\ pc[p] = "locked" /\ Confirmed(p) /\ Acceptable(p)
  /\ ch' = [ch EXCEPT ![p] = [base |-> Base(wk[p]), count |-> Len(files[h[p]]),
                              prev |-> HeadOf(wk[p], files[h[p]])]]
  /\ Goto(p, CASE ActiveVerdict(p) = "open" -> "ready"
               [] ActiveVerdict(p) = "sealed" -> "sealed"
               [] OTHER -> "listed")
  /\ UNCHANGED <<disk, op, try, wk, h, snk, pre, history, lines, faults, nops>>

-----------------------------------------------------------------------------
(* Appending.                                                               *)

(* Mutant: positions count from the start of the file. *)
Mut_NextLine(p, a, n, w) ==
  [seq |-> ch[p].count + 1, prev |-> ch[p].prev, uid |-> lines + 1,
   act |-> a, seg |-> n, worm |-> w]

NextLine(p, a, n, w) ==
  [seq |-> ch[p].base + ch[p].count + 1, prev |-> ch[p].prev, uid |-> lines + 1,
   act |-> a, seg |-> n, worm |-> w]

Write(i, l) ==
  /\ files' = [files EXCEPT ![i] = Append(@, l)]
  /\ log' = Append(log, l)
  /\ lines' = lines + 1

EventLine(p) == NextLine(p, IF op[p] = "append" THEN "event" ELSE "repair", 0, FALSE)

AppendEvent(p) ==
  /\ pc[p] = "ready" /\ op[p] \in Appending
  /\ Write(h[p], EventLine(p))
  /\ \/ acked' = acked \cup {EventLine(p).uid} /\ UNCHANGED faults
     \/ Fault /\ UNCHANGED acked        \* it dies before it can say so
  /\ Leave(p)
  /\ UNCHANGED <<torn, foreign, active, seg, manifest, copies, posture, aside, heads, nops>>

(* The write ends short, with the process or only the call failing. *)
AppendTorn(p) ==
  /\ pc[p] = "linked" \/ (pc[p] = "ready" /\ op[p] \in Appending)
  /\ Fault
  /\ torn' = torn \cup {h[p]}
  /\ Leave(p)
  /\ UNCHANGED <<files, foreign, active, seg, manifest, copies, posture, history, lines, nops>>

-----------------------------------------------------------------------------
(* Sealing and rotating: link, seal record (commit 1), protected copy,     *)
(* manifest (commit 2), swap.                                              *)

Ordinal(p) == Len(wk[p]) + 1

(* linkSegment links the inode the active NAME has; EEXIST is fine on the  *)
(* same inode.                                                             *)
LinkSegment(n) ==
  /\ n \in DOMAIN seg => seg[n] = active
  /\ seg' = [k \in DOMAIN seg \cup {n} |-> IF k = n THEN active ELSE seg[k]]

(* sink.Put: a key that holds these bytes is the confirmation, one that    *)
(* holds others refuses.                                                   *)
Put(n, ls) ==
  /\ n \in DOMAIN copies => copies[n] = ls
  /\ copies' = [k \in DOMAIN copies \cup {n} |-> IF k = n THEN ls ELSE copies[k]]

SealLink(p) ==
  /\ pc[p] = "ready" /\ op[p] = "seal"
  /\ snk[p] = "worm" => Ordinal(p) \notin DOMAIN copies
  /\ LinkSegment(Ordinal(p))
  /\ Goto(p, "linked")
  /\ UNCHANGED <<files, torn, foreign, active, manifest, copies, posture, op, try, wk, h, ch, snk, pre,
                 history, lines, faults, nops>>

SealLine(p) == NextLine(p, "seal", Ordinal(p), snk[p] = "worm")

SealAppend(p) ==
  /\ pc[p] = "linked"
  /\ Write(h[p], SealLine(p))
  /\ acked' = acked \cup {SealLine(p).uid}
  /\ ch' = [ch EXCEPT ![p] = [base |-> @.base, count |-> @.count + 1, prev |-> SealLine(p).uid]]
  /\ Goto(p, "sealed")
  /\ UNCHANGED <<torn, foreign, active, seg, manifest, copies, posture, op, try, wk, h, snk, pre,
                 aside, heads, faults, nops>>

SealedLines(p) == files[h[p]]

(* Mutant: the posture decides whether a copy is owed, not the record. *)
Mut_Block(p) == snk[p] = "worm"

Block(p) == SealedLines(p)[Len(SealedLines(p))].worm

RotateCopy(p) ==
  /\ pc[p] = "sealed"
  /\ LinkSegment(Ordinal(p))
  /\ \/ Block(p) /\ snk[p] = "worm" /\ pre[p] # SealedLines(p) /\ Put(Ordinal(p), SealedLines(p))
     \/ (~Block(p) \/ (snk[p] = "worm" /\ pre[p] = SealedLines(p))) /\ UNCHANGED copies
  /\ Goto(p, "copied")
  /\ UNCHANGED <<files, torn, foreign, active, manifest, posture, op, try, wk, h, ch, snk, pre,
                 history, lines, faults, nops>>

(* The posture no longer names the record's sink, or the sink fails. *)
RotateCopyFails(p) ==
  /\ pc[p] = "sealed" /\ Block(p)
  /\ \/ snk[p] # "worm" /\ UNCHANGED faults
     \/ snk[p] = "worm" /\ pre[p] # SealedLines(p) /\ Fault
  /\ Leave(p)
  /\ UNCHANGED <<disk, history, lines, nops>>

RotateManifest(p) ==
  /\ pc[p] = "copied"
  /\ manifest' = Append(wk[p], Entry(wk[p], SealedLines(p)))
  /\ Goto(p, "listed")
  /\ UNCHANGED <<files, torn, foreign, active, seg, copies, posture, op, try, wk, h, ch, snk, pre,
                 history, lines, faults, nops>>

(* A fresh empty file is renamed over the active name; repair goes on to   *)
(* append its record.                                                      *)
RotateSwap(p) ==
  /\ pc[p] = "listed"
  /\ files' = Append(files, EmptyFile) /\ active' = Len(files) + 1
  /\ IF op[p] = "repairComplete"
     THEN /\ Goto(p, "start") /\ op' = [op EXCEPT ![p] = "repairAppend"]
          /\ try' = [try EXCEPT ![p] = 1] /\ h' = [h EXCEPT ![p] = 0]
          /\ wk' = [wk EXCEPT ![p] = <<>>] /\ ch' = [ch EXCEPT ![p] = NoChain]
          /\ UNCHANGED <<snk, pre>>
     ELSE Leave(p)
  /\ UNCHANGED <<torn, foreign, seg, manifest, copies, posture, history, lines, faults, nops>>

-----------------------------------------------------------------------------
(* Reading, and the repair that starts from a read.                         *)

OpenByName(p) ==
  /\ pc[p] = "start" /\ op[p] \in {"read", "repair"}
  /\ h' = [h EXCEPT ![p] = active]
  /\ Goto(p, "ropened")
  /\ UNCHANGED <<disk, op, try, wk, ch, snk, pre, history, lines, faults, nops>>

ReadStale(p) ==
  /\ pc[p] = "shared" /\ ~SameFile(p)
  /\ Retry(p)
  /\ UNCHANGED <<disk, history, lines, faults, nops>>

ReadVerdict(p) == Verdict(manifest, h[p])

Clean == {"open", "sealed", "listed"}
Repairable == {"torn", "sealNotLast"}

ReadHead(p) ==
  LET ls == IF ReadVerdict(p) = "listed" THEN <<>> ELSE files[h[p]]
  IN  [seq |-> Base(manifest) + Len(ls), uid |-> HeadOf(manifest, ls)]

(* A read that is not a repair's ends here, and so does a repair that      *)
(* finds nothing it may repair: a sealed segment's fault comes first.      *)
ReadDone(p) ==
  /\ pc[p] = "shared" /\ SameFile(p)
  /\ op[p] = "read" \/ ~WalkOK(manifest) \/ ReadVerdict(p) \notin Repairable
  /\ heads' = IF WalkOK(manifest) /\ ReadVerdict(p) \in Clean THEN heads \cup {ReadHead(p)} ELSE heads
  /\ Leave(p)
  /\ UNCHANGED <<disk, log, acked, aside, lines, faults, nops>>

(* Where repair cuts: behind the first seal, else behind the last whole    *)
(* line.  ch holds the cut and the line that must still end there.         *)
CutsAt(ls, k) == IF Seals(ls) = {} THEN k = Len(ls)
                 ELSE k \in Seals(ls) /\ \A j \in Seals(ls) : k <= j

RepairRead(p) ==
  /\ pc[p] = "shared" /\ SameFile(p) /\ WalkOK(manifest)
  /\ op[p] = "repair" /\ ReadVerdict(p) \in Repairable
  /\ \E k \in 0..Len(files[h[p]]) :
       LET ls == files[h[p]]
           block == k > 0 /\ ls[k].act = "seal" /\ ls[k].worm
       IN  /\ CutsAt(ls, k)
           /\ k \in Seals(ls) => ls[k].seg = Len(manifest) + 1
           /\ ch' = [ch EXCEPT ![p] = [base |-> Base(manifest), count |-> k,
                                       prev |-> HeadOf(manifest, SubSeq(ls, 1, k))]]
           /\ pre' = [pre EXCEPT ![p] = IF block THEN SubSeq(ls, 1, k) ELSE <<>>]
           /\ Goto(p, IF block THEN "rcopy" ELSE "cut")
  /\ wk' = [wk EXCEPT ![p] = manifest]
  /\ h' = [h EXCEPT ![p] = 0]
  /\ UNCHANGED <<disk, op, try, snk, history, lines, faults, nops>>

(* The protected copy first, with no lock held and nothing local touched. *)
RepairCopy(p) ==
  /\ pc[p] = "rcopy" /\ snk[p] = "worm"
  /\ Put(Ordinal(p), pre[p])
  /\ Goto(p, "cut")
  /\ UNCHANGED <<files, torn, foreign, active, seg, manifest, posture, op, try, wk, h, ch, snk, pre,
                 history, lines, faults, nops>>

RepairCopyFails(p) ==
  /\ pc[p] = "rcopy"
  /\ \/ snk[p] # "worm" /\ UNCHANGED faults
     \/ snk[p] = "worm" /\ Fault
  /\ Leave(p)
  /\ UNCHANGED <<disk, history, lines, nops>>

OpenForRepair(p) ==
  /\ pc[p] = "cut"
  /\ h' = [h EXCEPT ![p] = active]
  /\ Goto(p, "xopened")
  /\ UNCHANGED <<disk, op, try, wk, ch, snk, pre, history, lines, faults, nops>>

(* The name still has the handle's file, and the verified prefix still     *)
(* ends at the cut.                                                        *)
PrefixStands(p) ==
  LET ls == files[h[p]]
      k == ch[p].count
  IN  SameFile(p) /\ k <= Len(ls) /\ (k > 0 => ls[k].uid = ch[p].prev)

CutOff(p) == SubSeq(files[h[p]], ch[p].count + 1, Len(files[h[p]]))

FragmentUids(p) == History!Uids(CutOff(p))

WriteTornFragment(p) ==
  /\ pc[p] = "xlocked" /\ PrefixStands(p)
  /\ aside' = aside \cup FragmentUids(p)
  /\ Goto(p, "fragged")
  /\ UNCHANGED <<disk, op, try, wk, h, ch, snk, pre, log, acked, heads, lines, faults, nops>>

RepairRefuse(p) ==
  /\ pc[p] = "xlocked" /\ ~PrefixStands(p)
  /\ Leave(p)
  /\ UNCHANGED <<disk, history, lines, faults, nops>>

(* The refusal is a second line of defence: no append is admitted behind   *)
(* the damage, so the prefix falls only to a second repair.                *)
MoveTailAside(p) ==
  /\ pc[p] = "xlocked"
  /\ IF PrefixStands(p) THEN WriteTornFragment(p) ELSE RepairRefuse(p)

Truncate(p) ==
  /\ pc[p] = "fragged"
  /\ files' = [files EXCEPT ![h[p]] = SubSeq(@, 1, ch[p].count)]
  /\ torn' = torn \ {h[p]}
  /\ log' = SubSeq(log, 1, Len(log) - Len(CutOff(p)))
  /\ Goto(p, "start")
  /\ op' = [op EXCEPT ![p] = IF Seals(SubSeq(files[h[p]], 1, ch[p].count)) = {}
                             THEN "repairAppend" ELSE "repairComplete"]
  /\ try' = [try EXCEPT ![p] = 1] /\ h' = [h EXCEPT ![p] = 0]
  /\ wk' = [wk EXCEPT ![p] = <<>>] /\ ch' = [ch EXCEPT ![p] = NoChain]
  /\ UNCHANGED <<foreign, active, seg, manifest, copies, posture, snk, pre,
                 acked, aside, heads, lines, faults, nops>>

-----------------------------------------------------------------------------
(* The environment.                                                         *)

(* A command dies; its locks go with it. *)
Crash(p) ==
  /\ pc[p] # "idle"
  /\ Fault
  /\ Leave(p)
  /\ UNCHANGED <<disk, history, lines, nops>>

(* A binary that knows nothing of segment sets takes the active for a      *)
(* whole chain of its own: it appends to a file that verifies from         *)
(* position 1 and refuses any other.  To a first segment sealed and not    *)
(* yet rotated it adds a line of the chain (before the seal its append is  *)
(* AppendEvent); in the empty active behind a rotation it mints a fresh    *)
(* genesis, and to segment 1 listed and not yet swapped it writes behind   *)
(* the seal: lines of no chain, and more of them change nothing.           *)
OlderAppend ==
  /\ OlderWriter /\ nops < MaxOps
  /\ active # 0 /\ active \notin torn \cup foreign
  /\ ~\E q \in Procs : HoldsEx(q, active) \/ HoldsSh(q, active)
  /\ LET ls == files[active]
         sealed == manifest = <<>> /\ Seals(ls) # {}
         empty == manifest # <<>> /\ ls = <<>>
         first == Len(manifest) = 1 /\ Listed(manifest, active)
     IN  \/ /\ sealed
            /\ Write(active, [seq |-> Len(ls) + 1, prev |-> HeadOf(manifest, ls), uid |-> lines + 1,
                              act |-> "older", seg |-> 0, worm |-> FALSE])
            /\ UNCHANGED <<torn, foreign, faults>>
         \/ /\ sealed \/ empty
            /\ Fault
            /\ torn' = torn \cup {active}
            /\ UNCHANGED <<files, foreign, log, lines>>
         \/ /\ empty \/ first
            /\ foreign' = foreign \cup {active}
            /\ UNCHANGED <<files, torn, log, lines, faults>>
  /\ nops' = nops + 1
  /\ UNCHANGED <<active, seg, manifest, copies, posture, procs, acked, aside, heads>>

(* The remedies the two faults print: the operator moves the active that   *)
(* an older writer began aside and creates an empty one in its place, or   *)
(* writes the bytes of a sealed segment back from a copy.                  *)
MoveAside ==
  /\ active \in foreign /\ ~Listed(manifest, active)
  /\ files' = Append(files, EmptyFile) /\ active' = Len(files) + 1
  /\ UNCHANGED <<torn, foreign, seg, manifest, copies, posture, procs, history, lines, faults, nops>>

RestoreSegment ==
  /\ \E k \in DOMAIN manifest : seg[k] \in foreign /\ foreign' = foreign \ {seg[k]}
  /\ UNCHANGED <<files, torn, active, seg, manifest, copies, posture, procs, history, lines, faults, nops>>

LockActive(p) == Walk(p) \/ WalkFails(p) \/ OpenForAppend(p) \/ LockExclusive(p) \/ Stale(p) \/ Refuse(p) \/ Admit(p)
SealActive(p) == SealLink(p) \/ SealAppend(p)
Rotate(p) == RotateCopy(p) \/ RotateManifest(p) \/ RotateSwap(p)
Read(p) == OpenByName(p) \/ LockShared(p) \/ ReadStale(p) \/ ReadDone(p)
Repair(p) == RepairRead(p) \/ RepairCopy(p) \/ OpenForRepair(p) \/ MoveTailAside(p) \/ Truncate(p)
Fails(p) == Busy(p) \/ AppendTorn(p) \/ RotateCopyFails(p) \/ RepairCopyFails(p) \/ Crash(p)

Work(p) == LockActive(p) \/ AppendEvent(p) \/ SealActive(p) \/ Rotate(p) \/ Read(p) \/ Repair(p)

Next ==
  \/ SetPosture
  \/ OlderAppend
  \/ MoveAside \/ RestoreSegment
  \/ \E p \in Procs : (\E o \in Ops : Invoke(p, o)) \/ Work(p) \/ Fails(p)

Spec == Init /\ [][Next]_vars

(* A command that runs is scheduled, and the operator's timer runs audit   *)
(* seal again while a rotation is incomplete.                              *)
Progress(p) == Work(p) \/ Busy(p) \/ RotateCopyFails(p) \/ RepairCopyFails(p)

FairSpec == Spec /\ \A p \in Procs : WF_vars(Progress(p)) /\ WF_vars(Invoke(p, "complete"))

-----------------------------------------------------------------------------
(* Properties.                                                              *)

ManifestEntry == [first : Nat, head : Nat, hash : Nat, sha : Seq(Line)]
Chain == [base : Nat, count : Nat, prev : Nat]

DiskOK ==
  /\ files \in Seq(Seq(Line)) /\ torn \cup foreign \subseteq DOMAIN files /\ active \in 0..Len(files)
  /\ DOMAIN seg \subseteq Nat \ {0} /\ \A k \in DOMAIN seg : seg[k] \in 1..Len(files)
  /\ manifest \in Seq(ManifestEntry)
  /\ DOMAIN copies \subseteq Nat \ {0} /\ \A k \in DOMAIN copies : copies[k] \in Seq(Line)
  /\ posture \in Postures

ProcsOK ==
  /\ pc \in [Procs -> Steps]
  /\ op \in [Procs -> OpKinds \cup RepairOps \cup {"none"}]
  /\ try \in [Procs -> 0..Attempts]
  /\ wk \in [Procs -> Seq(ManifestEntry)]
  /\ h \in [Procs -> 0..Len(files)]
  /\ ch \in [Procs -> Chain]
  /\ snk \in [Procs -> {"floor", "worm"}]
  /\ pre \in [Procs -> Seq(Line)]

HistoryOK ==
  /\ log \in Seq(Line)
  /\ acked \subseteq Nat /\ aside \subseteq Nat
  /\ \A x \in heads : x.seq \in Nat /\ x.uid \in Nat
  /\ lines \in Nat /\ faults \in Nat /\ nops \in Nat

(* Every variable has its type; names and handles are bound to inodes that *)
(* exist.                                                                  *)
TypeOK == DiskOK /\ ProcsOK /\ HistoryOK

(* Concurrent writers, rotations and crashes never fork the chain: the     *)
(* lines in the order they were written carry the positions 1, 2, 3 ...,   *)
(* each with the hash of the line before it (appendOn, Chain.Append, and   *)
(* lockActive's two checks under the lock).                                *)
ChainIntact ==
  \A k \in DOMAIN log :
    /\ log[k].seq = k
    /\ log[k].prev = (IF k = 1 THEN 0 ELSE log[k - 1].uid)

(* A file holds the lines of the chain that follow its first b. *)
Stores(ls, b) == b + Len(ls) <= Len(log) /\ \A j \in DOMAIN ls : ls[j] = log[b + j]

(* The set on disk is that chain at every instant, cut where the manifest  *)
(* says: each listed segment file still holds exactly the lines its entry  *)
(* digested, and the active holds the rest (rotate, writeManifest,         *)
(* swapActive).                                                            *)
DiskIsLog ==
  /\ \A k \in DOMAIN manifest :
       /\ k \in DOMAIN seg
       /\ files[seg[k]] = manifest[k].sha /\ seg[k] \notin torn
       /\ manifest[k] = Entry(Before(manifest, k), manifest[k].sha)
       /\ Stores(manifest[k].sha, Base(Before(manifest, k)))
  /\ active = 0 \/ Listed(manifest, active) => Len(log) = Base(manifest)
  /\ active # 0 /\ ~Listed(manifest, active) =>
       Stores(files[active], Base(manifest)) /\ Len(log) = Base(manifest) + Len(files[active])

(* Nothing written is lost: a record whose append was acknowledged stays   *)
(* in the chain through crashes, rotations and another process's repair, a *)
(* head that a clean read published stays at its position, so a later      *)
(* audit verify --expect-head or an anchor over it still holds, and any    *)
(* other line is in the chain or in a torn fragment (moveTailAside writes  *)
(* the fragment before it truncates).                                      *)
NothingLost ==
  /\ acked \subseteq History!Uids(log)
  /\ \A x \in heads : x.seq > 0 => x.seq \in DOMAIN log /\ log[x.seq].uid = x.uid
  /\ 1..lines \subseteq History!Uids(log) \cup aside

(* A segment the manifest lists has a protected copy of exactly its bytes, *)
(* or its seal record names none, whatever integrity.yaml said since       *)
(* (rotate writes the manifest only after a confirmed Put); and the sink   *)
(* holds no other copy than those and, for the segment being rotated, the  *)
(* active's lines through its seal, so a retry finds its own bytes and     *)
(* Prepare a free key.                                                     *)
CopiesProtect ==
  /\ \A k \in DOMAIN manifest :
       LET ls == manifest[k].sha
       IN  ls[Len(ls)].worm => k \in DOMAIN copies
  /\ \A n \in DOMAIN copies :
       IF n \in DOMAIN manifest THEN copies[n] = manifest[n].sha
       ELSE /\ n = Len(manifest) + 1
            /\ LET ls == files[active]
               IN  \E k \in Seals(ls) : copies[n] = SubSeq(ls, 1, k)

(* Whatever a crash left, the set reads as open, sealed-not-rotated or     *)
(* rotated-not-swapped, or with one of the two faults repair handles; no   *)
(* rotation in progress is visible to a reader that got its lock (Read,    *)
(* readActive, finishActive); only an older binary's lines ever follow a   *)
(* seal (ErrSealed); and every sealed segment verifies.  Where an older    *)
(* binary wrote outside the chain the set is refused, and there only: in   *)
(* segment 1, or in an active that has no line of the chain, so the        *)
(* printed remedy, to move that file aside, loses none.                    *)
AlwaysReadable ==
  /\ \A k \in DOMAIN manifest : SealedOK(manifest, k) \/ (OlderWriter /\ k = 1 /\ seg[k] \in foreign)
  /\ \A i \in DOMAIN files : \A k \in Seals(files[i]) :
       \A j \in k + 1 .. Len(files[i]) : files[i][j].act = "older"
  /\ active # 0 /\ ~(\E q \in Procs : HoldsEx(q, active))
       => \/ Verdict(manifest, active) \in Clean \cup Repairable
          \/ OlderWriter /\ Verdict(manifest, active) = "foreign" /\ files[active] = <<>>

(* A writer that raced a rotation never takes it for damage: once the      *)
(* handle and the walk are confirmed under the lock, what it judges is the *)
(* set as it is, and a set that no older binary wrote to is never refused  *)
(* as an unexpected or inconsistent segment (lockActive's retry).          *)
NoFalseAlarm ==
  \A p \in Procs : pc[p] = "locked" /\ Confirmed(p) =>
    \/ ActiveVerdict(p) \in Clean \cup Repairable
    \/ OlderWriter /\ ActiveVerdict(p) = "foreign"

(* The segment set implements the abstract history: every step extends the *)
(* chain by one well-formed record, preserves a suffix, cuts a preserved   *)
(* suffix behind a seal, or changes nothing of it; what an older binary    *)
(* writes outside the chain never enters it.                               *)
ImplementsHistory == History!Spec

(* A rotation that a crash or a sink failure interrupts after its seal     *)
(* record is completed, once faults and competing commands stop and audit  *)
(* seal is run again (CompleteSeal finishes states B and C).               *)
RotationCompletes ==
  (active # 0 /\ Verdict(manifest, active) \in {"sealed", "listed"})
    ~> (active # 0 /\ Verdict(manifest, active) = "open")
=============================================================================
