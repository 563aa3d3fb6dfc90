------------------------------ MODULE Installed ------------------------------
(***************************************************************************)
(* The installed configuration of a control root: the pointer `current`,   *)
(* the control ledger's record of what was installed, the operator's       *)
(* signature files, the execution point's verify.floor, and the commands   *)
(* that move or read them: apply, registry enable/disable, config vouch,   *)
(* config sign, a run's resolve, and the lock-free configuration pull      *)
(* (cmd/agenthof, internal/config).                                        *)
(*                                                                         *)
(* A configuration is its hash.  The ledger is its sequence of records, so *)
(* a record's position is its seq, the version a signature binds.  Appends *)
(* and reads of the ledger are single steps (ControlLedger is their        *)
(* model); installed.lock is held exclusive or shared as pc says and goes  *)
(* with the process that dies.                                             *)
(***************************************************************************)
EXTENDS Integers, Sequences

CONSTANTS
  Procs,      \* the running commands
  Kinds,      \* which commands they are: a subset of CommandKinds
  Configs,    \* configurations, by hash
  Grants,     \* configuration -> the invokers its roles allow every control action
  Flipped,    \* configuration -> the one a registry flip makes of it
  Invokers,   \* who runs commands
  None,       \* no configuration
  Events,     \* what the operator does besides: a subset of OperatorEvents
  MaxOps,     \* bound on the commands started, vouches aside, and on other records
  MaxFaults   \* bound on crashes and operator's hand edits

CommandKinds == {"apply", "update", "flip", "vouch", "sign", "run", "pull"}
OperatorEvents == {"note", "edit", "keygen", "pin", "unfloor", "backup", "recreate"}

ASSUME InstalledAssumption ==
  /\ Kinds \subseteq CommandKinds /\ Events \subseteq OperatorEvents
  /\ Grants \in [Configs -> SUBSET Invokers]
  /\ Flipped \in [Configs -> Configs]
  /\ \A c \in Configs : Grants[Flipped[c]] = Grants[c]   \* a flip edits no role
  /\ None \notin Configs
  /\ MaxOps \in Nat /\ MaxFaults \in Nat

VARIABLES
  pointer,   \* the installed configuration
  ledger,    \* the control ledger's records
  logid,     \* the identity the ledger's genesis minted
  sig,       \* configuration -> the [log, ver] its signature file binds
  signing,   \* whether the signing pair is beside the ledger
  pinned,    \* whether this execution point pins verify.pub
  floor,     \* verify.floor: the [log, ver] last verified
  backup,    \* an operator's copy of the root, floor excepted
  pc, job,   \* per process: where it is, what it was asked
  seen,      \* the pointer it read
  ver,       \* the [log, ver] of the install it found on record
  ran,       \* history: the last run resolved, [cfg, log, ver]
  verified,  \* history: [log, ver] of the last pinned run since the floor was removed
  served,    \* history: what the last pull answered
  ops, faults

root == <<pointer, ledger, logid, sig>>
posture == <<signing, pinned, floor>>
procs == <<pc, job, seen, ver>>
history == <<ran, verified, served>>
vars == <<root, posture, backup, procs, history, ops, faults>>

Installs == {"apply", "flip", "vouch"}
NoInstall == [log |-> 0, ver |-> 0]
NoRun == [cfg |-> None, log |-> 0, ver |-> 0]
NoAnswer == [cfg |-> None, log |-> 0, ver |-> 0, sig |-> NoInstall]
NoRoot == [pointer |-> None, ledger |-> <<>>, logid |-> 0, sig |-> [c \in Configs |-> NoInstall]]
NoJob == [kind |-> "none", cfg |-> None, by |-> None, exp |-> None]

Runs == {"run", "pinned"}
Exclusive == {"judge", "commit", "record", "sign", "signWrite"}
Shared == {"load", "vouch", "verify", "advance"}

-----------------------------------------------------------------------------
(* Reading the ledger.                                                      *)

Installing(r) == r.act \in Installs

LastInstalling(l) ==
  LET is == {k \in DOMAIN l : Installing(l[k])}
  IN  IF is = {} THEN 0 ELSE CHOOSE k \in is : \A j \in is : j <= k

OnRecord(c) == LastInstalling(ledger) > 0 /\ ledger[LastInstalling(ledger)].hash = c

Facts == [log |-> logid, ver |-> LastInstalling(ledger)]

Record(act, c, i, boot, exp) == [act |-> act, hash |-> c, by |-> i, boot |-> boot, exp |-> exp]

Log(r) == ledger' = Append(ledger, r)

-----------------------------------------------------------------------------
(* Commands begin and end.                                                  *)

Leave(p) ==
  /\ pc' = [pc EXCEPT ![p] = "idle"] /\ job' = [job EXCEPT ![p] = NoJob]
  /\ seen' = [seen EXCEPT ![p] = None] /\ ver' = [ver EXCEPT ![p] = NoInstall]

Goto(p, l) == pc' = [pc EXCEPT ![p] = l]

NoExclusive == \A q \in Procs : pc[q] \notin Exclusive
Mut_NoHolder == TRUE
NoHolder == \A q \in Procs : pc[q] \notin Exclusive \cup Shared

Init ==
  /\ pointer = None /\ ledger = <<>> /\ logid = 1 /\ sig = [c \in Configs |-> NoInstall]
  /\ signing = FALSE /\ pinned = FALSE /\ floor = NoInstall
  /\ backup = NoRoot
  /\ pc = [p \in Procs |-> "idle"] /\ job = [p \in Procs |-> NoJob]
  /\ seen = [p \in Procs |-> None] /\ ver = [p \in Procs |-> NoInstall]
  /\ ran = NoRun /\ verified = NoInstall /\ served = NoAnswer /\ ops = 0 /\ faults = 0

(* A command is given its arguments: an apply its proposal and, when it is *)
(* an update by a client that wants no change of another lost, the         *)
(* configuration that client last saw installed; the commands that         *)
(* authorize, their invoker.  A vouch can be run again and again: what     *)
(* bounds it is the records there is room for, one for each command and    *)
(* one for each fault, with room at any time for an install to vouch for.  *)
Vouchable ==
  \/ Len(ledger) < MaxOps + MaxFaults
  \/ pointer # None /\ ~OnRecord(pointer) /\ Grants[pointer] # {}

Start(p, k) ==
  /\ pc[p] = "idle" /\ k \in Kinds
  /\ IF k = "vouch" THEN Vouchable /\ UNCHANGED ops
     ELSE ops < MaxOps /\ ops' = ops + 1
  /\ \E c \in (IF k \in {"apply", "update"} THEN Configs ELSE {None}),
        i \in (IF k \in {"apply", "update", "flip", "pull"} THEN Invokers ELSE {None}) :
       job' = [job EXCEPT ![p] = [kind |-> CASE k = "update" -> "apply"
                                             [] k = "run" /\ pinned -> "pinned"
                                             [] OTHER -> k,
                                  cfg |-> c, by |-> i,
                                  exp |-> IF k = "update" THEN pointer ELSE "any"]]
  /\ Goto(p, "want")
  /\ UNCHANGED <<root, posture, backup, seen, ver, history, faults>>

LockFile(p) ==
  /\ pc[p] = "want" /\ job[p].kind \in {"apply", "flip", "vouch", "sign"} /\ NoHolder
  /\ Goto(p, "judge")
  /\ UNCHANGED <<root, posture, backup, job, seen, ver, history, ops, faults>>

LockFileShared(p) ==
  /\ pc[p] = "want" /\ job[p].kind \in Runs /\ NoExclusive
  /\ Goto(p, "load")
  /\ UNCHANGED <<root, posture, backup, job, seen, ver, history, ops, faults>>

(* installed.lock stays held past the bounded wait. *)
Busy(p) ==
  /\ pc[p] = "want"
  /\ IF job[p].kind \in Runs THEN ~NoExclusive ELSE job[p].kind # "pull" /\ ~NoHolder
  /\ Leave(p)
  /\ UNCHANGED <<root, posture, backup, history, ops, faults>>

-----------------------------------------------------------------------------
(* The writers, under installed.lock exclusive.  Judging comes in the      *)
(* code's order: the ledger vouches for the pointer, the roles of that     *)
(* configuration allow the invoker, the precondition holds, the proposal   *)
(* is valid.                                                               *)

Vouched == pointer # None /\ OnRecord(pointer)
Allowed(p) == job[p].by \in Grants[pointer]
Mut_Expected(p) == TRUE
Expected(p) == job[p].exp \in {"any", pointer}
Valid(c) == Grants[c] # {}         \* the floor: somebody may apply

Mut_Permitted(p) == IF pointer = None THEN TRUE ELSE Allowed(p)
Permitted(p) == pointer = None \/ (Vouched /\ Allowed(p))

Refuse(p, act) ==
  /\ Log(Record(act, None, job[p].by, FALSE, job[p].exp))
  /\ Leave(p)
  /\ UNCHANGED <<pointer, logid, sig, posture, backup, history, ops, faults>>

JudgeRefused(p) ==
  /\ pc[p] = "judge" /\ job[p].kind \in {"apply", "flip"}
  /\ ~Permitted(p) \/ (job[p].kind = "apply" /\ pointer = None)  \* no bootstrap over the API
  /\ Refuse(p, "refused")

JudgeStaleClient(p) ==
  /\ pc[p] = "judge" /\ job[p].kind = "apply" /\ Permitted(p) /\ ~Expected(p)
  /\ Leave(p)
  /\ UNCHANGED <<root, posture, backup, history, ops, faults>>

JudgeRejected(p) ==
  /\ pc[p] = "judge"
  /\ \/ job[p].kind = "apply" /\ Permitted(p) /\ Expected(p) /\ ~Valid(job[p].cfg)
     \/ job[p].kind = "vouch" /\ pointer # None /\ ~Valid(pointer)
  /\ Refuse(p, "rejected")

JudgeApply(p) ==
  /\ pc[p] = "judge" /\ job[p].kind = "apply"
  /\ Permitted(p) /\ Expected(p) /\ Valid(job[p].cfg)
  /\ seen' = [seen EXCEPT ![p] = pointer]
  /\ Goto(p, "commit")
  /\ UNCHANGED <<root, posture, backup, job, ver, history, ops, faults>>

JudgeFlip(p) ==
  /\ pc[p] = "judge" /\ job[p].kind = "flip" /\ pointer # None
  /\ Permitted(p)
  /\ job' = [job EXCEPT ![p].cfg = Flipped[pointer]]
  /\ seen' = [seen EXCEPT ![p] = pointer]
  /\ Goto(p, "commit")
  /\ UNCHANGED <<root, posture, backup, ver, history, ops, faults>>

(* Nothing installed: a flip edits the directory, and its record installs  *)
(* nothing.                                                                *)
JudgeFlipDirectory(p) ==
  /\ pc[p] = "judge" /\ job[p].kind = "flip" /\ pointer = None
  /\ Refuse(p, "directory")

(* Mutant: an earlier install of the same configuration is record enough. *)
Mut_JudgeVouch(p) ==
  /\ pc[p] = "judge" /\ job[p].kind = "vouch"
  /\ pointer # None => Valid(pointer)
  /\ IF pointer = None \/ \E k \in DOMAIN ledger : Installing(ledger[k]) /\ ledger[k].hash = pointer
     THEN Leave(p)
     ELSE /\ job' = [job EXCEPT ![p].cfg = pointer]
          /\ Goto(p, "record") /\ UNCHANGED <<seen, ver>>
  /\ UNCHANGED <<root, posture, backup, history, ops, faults>>

JudgeVouch(p) ==
  /\ pc[p] = "judge" /\ job[p].kind = "vouch"
  /\ pointer # None => Valid(pointer)
  /\ IF pointer = None \/ Vouched THEN Leave(p)
     ELSE /\ job' = [job EXCEPT ![p].cfg = pointer]
          /\ Goto(p, "record") /\ UNCHANGED <<seen, ver>>
  /\ UNCHANGED <<root, posture, backup, history, ops, faults>>

JudgeSign(p) ==
  /\ pc[p] = "judge" /\ job[p].kind = "sign"
  /\ Goto(p, "sign")
  /\ UNCHANGED <<root, posture, backup, job, seen, ver, history, ops, faults>>

CommitSnapshot(p) ==
  /\ pc[p] = "commit"
  /\ pointer' = job[p].cfg
  /\ Goto(p, "record")
  /\ UNCHANGED <<ledger, logid, sig, posture, backup, job, seen, ver, history, ops, faults>>

AppendSuccess(p) ==
  /\ pc[p] = "record"
  /\ Log(Record(job[p].kind, job[p].cfg, job[p].by,
                job[p].kind # "vouch" /\ seen[p] = None, job[p].exp))
  /\ IF signing THEN Goto(p, "sign") /\ UNCHANGED <<job, seen, ver>> ELSE Leave(p)
  /\ UNCHANGED <<pointer, logid, sig, posture, backup, history, ops, faults>>

(* The append fails, with the pointer already moved. *)
AppendFails(p) ==
  /\ pc[p] = "record" /\ faults < MaxFaults /\ faults' = faults + 1
  /\ Leave(p)
  /\ UNCHANGED <<root, posture, backup, history, ops>>

BuildSignature(p) ==
  /\ pc[p] = "sign"
  /\ IF signing /\ Vouched
     THEN /\ seen' = [seen EXCEPT ![p] = pointer] /\ ver' = [ver EXCEPT ![p] = Facts]
          /\ Goto(p, "signWrite") /\ UNCHANGED job
     ELSE Leave(p)
  /\ UNCHANGED <<root, posture, backup, history, ops, faults>>

WriteSignatureFile(p) ==
  /\ pc[p] = "signWrite"
  /\ sig' = [sig EXCEPT ![seen[p]] = ver[p]]
  /\ Leave(p)
  /\ UNCHANGED <<pointer, ledger, logid, posture, backup, history, ops, faults>>

-----------------------------------------------------------------------------
(* A run resolves its configuration under installed.lock shared.           *)

LoadInstalled(p) ==
  /\ pc[p] = "load"
  /\ IF pointer = None THEN Leave(p)
     ELSE seen' = [seen EXCEPT ![p] = pointer] /\ Goto(p, "vouch") /\ UNCHANGED <<job, ver>>
  /\ UNCHANGED <<root, posture, backup, history, ops, faults>>

Resolve(p, f) == ran' = [cfg |-> seen[p], log |-> f.log, ver |-> f.ver]

(* vouchInstalled; an unpinned run is resolved by it alone. *)
VouchInstalled(p) ==
  /\ pc[p] = "vouch"
  /\ \/ /\ OnRecord(seen[p]) /\ job[p].kind = "pinned"
        /\ ver' = [ver EXCEPT ![p] = Facts]
        /\ Goto(p, "verify") /\ UNCHANGED <<job, seen, ran>>
     \/ OnRecord(seen[p]) /\ job[p].kind = "run" /\ Resolve(p, Facts) /\ Leave(p)
     \/ ~OnRecord(seen[p]) /\ Leave(p) /\ UNCHANGED ran
  /\ UNCHANGED <<root, posture, backup, verified, served, ops, faults>>

ResolvePinned(p) == Resolve(p, ver[p]) /\ verified' = ver[p] /\ Leave(p)

(* The signature must be this install's; then the floor is judged. *)
Mut_Signed(p) == sig[seen[p]] # NoInstall
Signed(p) == sig[seen[p]] = ver[p]
Mut_AtFloor(p) == floor # NoInstall /\ ver[p].ver <= floor.ver
AtFloor(p) == floor = ver[p]
AboveFloor(p) == floor = NoInstall \/ (floor.log = ver[p].log /\ floor.ver < ver[p].ver)

PinnedVerify(p) ==
  /\ pc[p] = "verify"
  /\ CASE Signed(p) /\ AtFloor(p) -> ResolvePinned(p)
       [] Signed(p) /\ ~AtFloor(p) /\ AboveFloor(p) ->
            Goto(p, "advance") /\ UNCHANGED <<job, seen, ver, ran, verified>>
       [] OTHER -> Leave(p) /\ UNCHANGED <<ran, verified>>
  /\ UNCHANGED <<root, posture, backup, served, ops, faults>>

WriteVerifyFloor(p) ==
  /\ pc[p] = "advance"
  /\ floor' = ver[p]
  /\ ResolvePinned(p)
  /\ UNCHANGED <<root, signing, pinned, backup, served, ops, faults>>

-----------------------------------------------------------------------------
(* The pull takes no lock: it reads the pointer and its roles once, the    *)
(* ledger after that, the signature last.                                  *)

PullRead(p) ==
  /\ pc[p] = "want" /\ job[p].kind = "pull"
  /\ IF pointer = None \/ ~Allowed(p) THEN Leave(p)
     ELSE seen' = [seen EXCEPT ![p] = pointer] /\ Goto(p, "pullLedger") /\ UNCHANGED <<job, ver>>
  /\ UNCHANGED <<root, posture, backup, history, ops, faults>>

Answer(p, f, s) == [cfg |-> seen[p], log |-> f.log, ver |-> f.ver, sig |-> s]

PullLedger(p) ==
  /\ pc[p] = "pullLedger"
  /\ \/ OnRecord(seen[p]) /\ signing
        /\ ver' = [ver EXCEPT ![p] = Facts] /\ Goto(p, "pullSig") /\ UNCHANGED <<job, seen, served>>
     \/ OnRecord(seen[p]) /\ ~signing /\ served' = Answer(p, Facts, NoInstall) /\ Leave(p)
     \/ ~OnRecord(seen[p]) /\ Leave(p) /\ UNCHANGED served
  /\ UNCHANGED <<root, posture, backup, ran, verified, ops, faults>>

PullSignature(p) ==
  /\ pc[p] = "pullSig"
  /\ served' = IF Signed(p) THEN Answer(p, ver[p], sig[seen[p]]) ELSE served
  /\ Leave(p)
  /\ UNCHANGED <<root, posture, backup, ran, verified, ops, faults>>

-----------------------------------------------------------------------------
(* The environment.                                                         *)

Fault == faults < MaxFaults /\ faults' = faults + 1

Crash(p) ==
  /\ pc[p] \notin {"idle", "want"} /\ Fault
  /\ Leave(p)
  /\ UNCHANGED <<root, posture, backup, history, ops>>

(* Records that install nothing are appended without installed.lock: a     *)
(* refused token, a seal, an anchor.                                       *)
Note ==
  /\ "note" \in Events /\ ops < MaxOps /\ ops' = ops + 1
  /\ Log(Record("note", None, None, FALSE, "any"))
  /\ UNCHANGED <<pointer, logid, sig, posture, backup, procs, history, faults>>

(* The operator re-aims or removes the pointer by hand, whoever holds the  *)
(* lock.                                                                   *)
HandEdit ==
  /\ "edit" \in Events /\ Fault
  /\ pointer' \in (Configs \cup {None}) \ {pointer}
  /\ UNCHANGED <<ledger, logid, sig, posture, backup, procs, history, ops>>

Keygen ==
  /\ "keygen" \in Events /\ ~signing /\ signing' = TRUE
  /\ UNCHANGED <<root, pinned, floor, backup, procs, history, ops, faults>>

Pin ==
  /\ "pin" \in Events /\ ~pinned /\ pinned' = TRUE
  /\ UNCHANGED <<root, signing, floor, backup, procs, history, ops, faults>>

RemoveFloor ==
  /\ \A q \in Procs : pc[q] = "idle"
  /\ "unfloor" \in Events /\ Fault /\ floor # NoInstall
  /\ floor' = NoInstall /\ verified' = NoInstall
  /\ UNCHANGED <<root, signing, pinned, backup, procs, ran, served, ops>>

(* The root is copied, and put back later, with no command running; the    *)
(* floor is this execution point's own and is not part of the copy.        *)
TakeBackup ==
  /\ \A q \in Procs : pc[q] = "idle"
  /\ "backup" \in Events /\ backup = NoRoot /\ pointer # None
  /\ backup' = [pointer |-> pointer, ledger |-> ledger, logid |-> logid, sig |-> sig]
  /\ UNCHANGED <<root, posture, procs, history, ops, faults>>

RestoreBackup ==
  /\ \A q \in Procs : pc[q] = "idle"
  /\ Fault /\ backup # NoRoot
  /\ pointer' = backup.pointer /\ ledger' = backup.ledger
  /\ logid' = backup.logid /\ sig' = backup.sig
  /\ UNCHANGED <<posture, backup, procs, history, ops>>

(* The root is thrown away and a new ledger mints an identity no ledger has. *)
Recreate ==
  /\ \A q \in Procs : pc[q] = "idle"
  /\ "recreate" \in Events /\ Fault /\ ledger # <<>>
  /\ pointer' = None /\ ledger' = <<>> /\ logid' = faults' + 1
  /\ sig' = [c \in Configs |-> NoInstall]
  /\ UNCHANGED <<posture, backup, procs, history, ops>>

Writer(p) ==
  \/ LockFile(p) \/ JudgeRefused(p) \/ JudgeStaleClient(p) \/ JudgeRejected(p) \/ JudgeApply(p)
  \/ JudgeFlip(p) \/ JudgeFlipDirectory(p) \/ JudgeVouch(p) \/ JudgeSign(p) \/ CommitSnapshot(p)
  \/ AppendSuccess(p) \/ BuildSignature(p) \/ WriteSignatureFile(p)
Run(p) == LockFileShared(p) \/ LoadInstalled(p) \/ VouchInstalled(p) \/ PinnedVerify(p) \/ WriteVerifyFloor(p)
Pull(p) == PullRead(p) \/ PullLedger(p) \/ PullSignature(p)

Operator == Note \/ HandEdit \/ Keygen \/ Pin \/ RemoveFloor \/ TakeBackup \/ RestoreBackup \/ Recreate

Next ==
  \/ Operator
  \/ \E p \in Procs : \/ \E k \in CommandKinds : Start(p, k)
                      \/ Writer(p) \/ Run(p) \/ Pull(p) \/ Busy(p) \/ AppendFails(p) \/ Crash(p)

Spec == Init /\ [][Next]_vars
(* Commands that run are scheduled, and config vouch, the remedy every     *)
(* refusal of an unrecorded install names, is run again until it is on     *)
(* record.                                                                 *)
FairSpec ==
  /\ Spec
  /\ \A p \in Procs : /\ WF_vars(Writer(p) \/ Run(p) \/ Pull(p) \/ Busy(p))
                      /\ WF_vars(Start(p, "vouch"))

-----------------------------------------------------------------------------
(* Properties.                                                              *)

Previous(k) == LastInstalling(SubSeq(ledger, 1, k - 1))

(* Nobody grants themselves anything: each apply and each flip on record   *)
(* was made by an invoker whom the configuration recorded before it        *)
(* allowed, or is marked as a bootstrap (applyConfig's steps 3, 3b and 4   *)
(* under one hold of installed.lock); and the last one, even if it came in *)
(* by hand and was vouched for, leaves somebody who may make the next      *)
(* (applyFloorErrors).                                                     *)
AuthorizedByPredecessor ==
  /\ \A k \in DOMAIN ledger :
       ledger[k].act \in {"apply", "flip"} /\ ~ledger[k].boot =>
         Previous(k) > 0 /\ ledger[k].by \in Grants[ledger[Previous(k)].hash]
  /\ LastInstalling(ledger) > 0 => Valid(ledger[LastInstalling(ledger)].hash)

(* An apply that named the configuration it expected to replace replaced   *)
(* that one on the record, whatever raced it (step 5's precondition).      *)
NoLostUpdate ==
  \A k \in DOMAIN ledger :
    ledger[k].act = "apply" /\ ledger[k].exp # "any" =>
      IF ledger[k].exp = None THEN ledger[k].boot
      ELSE Previous(k) > 0 /\ ledger[Previous(k)].hash = ledger[k].exp

SignaturesOnRecord ==
  \A c \in Configs :
    sig[c].log = logid =>
      /\ sig[c].ver \in DOMAIN ledger
      /\ Installing(ledger[sig[c].ver]) /\ ledger[sig[c].ver].hash = c

(* A signature file is of an install the ledger recorded, at that version  *)
(* (buildSignature signs only what the ledger vouches for), and no command *)
(* overwrites a later install's signature with an earlier one's (config    *)
(* sign holds installed.lock from its reads to its write); an operator who *)
(* puts a backup back puts its signatures back.                            *)
SignatureNeverRegresses ==
  /\ []SignaturesOnRecord
  /\ [][procs' # procs => \A c \in Configs :
          sig'[c].log = sig[c].log => sig'[c].ver >= sig[c].ver]_vars

NotBefore(old, new) == old # NoInstall /\ new # NoInstall => new.log = old.log /\ new.ver >= old.ver

(* A pinned execution point never runs an install older than one it        *)
(* verified before, nor another ledger's, even after the root is restored  *)
(* from a backup or re-created, until the operator removes the floor       *)
(* (judgeFloor); and two runs advancing verify.floor under the shared lock *)
(* never move it back (writeVerifyFloor: "never a regression").            *)
NoRollback == [][NotBefore(verified, verified') /\ NotBefore(floor, floor')]_vars

(* What a run resolves to, and what a pull answers with, is on record. *)
RanOnRecord == ran' # ran => OnRecord(ran'.cfg) /\ Facts = [log |-> ran'.log, ver |-> ran'.ver]
ServedOnRecord ==
  served' # served =>
    /\ served'.log = logid /\ served'.ver \in DOMAIN ledger
    /\ Installing(ledger[served'.ver]) /\ ledger[served'.ver].hash = served'.cfg
    /\ served'.sig \in {NoInstall, [log |-> served'.log, ver |-> served'.ver]}

(* A run resolves only to the configuration that is the ledger's last      *)
(* install at that instant, still under the shared lock (vouchInstalled);  *)
(* and a pull, which takes no lock, answers with a hash, version and       *)
(* signature of one and the same recorded install (pullConfig's order of   *)
(* reads).                                                                 *)
UsedIsOnRecord == [][RanOnRecord /\ ServedOnRecord]_vars

(* An install that a crash left unrecorded gets on record: config vouch    *)
(* heals it unless the operator takes it away or it would lock everybody   *)
(* out.                                                                    *)
GapHeals ==
  (pointer # None /\ ~OnRecord(pointer))
    ~> (pointer = None \/ OnRecord(pointer) \/ ~Valid(pointer))
=============================================================================
