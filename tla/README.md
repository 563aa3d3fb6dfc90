# Agenthof in TLA+

Agenthof runs agents behind a gateway and keeps a tamper-evident record of what was
configured and what was done. This directory holds TLA+ modules translated from the Go
source, TLC configurations that check them on small instances, and theorems that TLAPS
proves for every value of the constants. `PROJECT.json` lists the components, the runs,
the source lines behind each definition, the hazards of the code and the theorems.

## The system and its parts

| Part | Source | Here |
|---|---|---|
| Control ledger: a hash chain in a set of segment files; append, seal, rotate, repair, read | `internal/control`, `internal/ledger` | `ControlLedger` |
| Installed configuration: `apply`, `registry enable/disable`, `config vouch` | `cmd/agenthof/{apply,main,config_vouch,installed}.go`, `internal/config` | `Installed` |
| Signing and the execution point's verification | `cmd/agenthof/{signing,verify}.go` | `Installed` |
| Configuration pull | `cmd/agenthof/pull.go` | `Installed` |
| Resolution of a run's configuration | `cmd/agenthof/main.go` | `Installed` |
| WORM sink | `internal/sink`, `cmd/agenthof/sink.go` | `ControlLedger` (as a seal uses it), `Recovery` (versions, locks, verification) |
| Restore and rebuild of a control root | `internal/control/restore.go`, `cmd/agenthof/restore.go` | `Recovery` |
| Run engine and the gateway's doors (model, tool, exec, spawn) | `internal/engine`, `internal/rungateway`, `internal/gateway` | `RunEngine` |
| Completeness of a run's ledger | `internal/completeness` | `Completeness`, its tree in `RunStore` |
| Run directory: prune, anchoring of runs, sidecars, audit of a tree | `cmd/agenthof/{main,anchor,anchor_runs}.go`, `internal/sidecar`, `internal/anchor`, `internal/anchorverify` | `RunStore` |
| Server: authentication, admission, slots, run table, shutdown | `internal/serve`, `cmd/agenthof/serve.go` | `Serve` |
| Spawn supervisor, command runner, confiner backends, lease | `deploy/refspawn`, `deploy/refexec`, `deploy/internal/confiner`, `internal/refspawn` | `Runtimes` |
| Bridge, broker, artifact store, registry validation, views, transport | | not modelled, see the end |

How they interact: an installing command moves the pointer `installed/current` under
`installed.lock` and then appends a record to the control ledger. The position of that
record is the version that a signature binds and that the verify floor compares. A run, a
pull and the next installing command trust the pointer only when the ledger's last
installing record has its hash. The ledger is one chain over several files. When a segment
is sealed, a copy goes to the WORM sink if the posture in `integrity.yaml` asks for it,
and only then does the manifest list the segment. A run has a ledger of its own, written by
the engine and, while a step executes, by the gateway's doors; completeness judges whether
that ledger accounts for every call the gateway admitted. The server starts such runs in
goroutines of its own and answers from a table in memory, or from the ledgers once the
process that hosted a run is gone. Finished runs are anchored at a transparency log and
pruned. The spawn door's children live in compartments that a supervisor on the host
starts, watches and removes, each with a runner for its commands. When files of the control
root are lost, the sink's copies are what it is restored or rebuilt from.

## Modules

**`ControlHistory`** is what the control ledger promises, without files: a chain that
grows at its end, whose suffix is cut only behind a seal and only once it is preserved.

**`ControlLedger`** is the segment set. A file is an inode: `files[i]` are its whole lines
and `torn` the inodes that end in an incomplete one. `active` and `seg[k]` are names, so a
handle opened before a rename keeps its file and a hard link is two names of one inode.
An advisory lock belongs to the handle and follows from `pc`. Each process takes the
code's steps one file operation at a time:

| Code | Actions |
|---|---|
| `lockActive`, `openForAppend`, `openActive` | `Walk`, `WalkFails`, `OpenForAppend`, `LockExclusive`, `Busy`, `Stale`, `Refuse`, `Admit` |
| `Append`, `appendOn`, `Chain.Append` | `AppendEvent`, `AppendTorn` |
| `SealActive` | `SealLink`, `SealAppend` |
| `rotate`, `completeSealWith` | `RotateCopy`, `RotateCopyFails`, `RotateManifest`, `RotateSwap` |
| `Read` | `OpenByName`, `LockShared`, `ReadStale`, `ReadDone` |
| `Repair`, `moveTailAside` | `RepairRead`, `RepairCopy`, `RepairCopyFails`, `OpenForRepair`, `MoveTailAside` (`WriteTornFragment` or `RepairRefuse`), `Truncate` |
| the environment | `SetPosture`, `OlderAppend`, `MoveAside`, `RestoreSegment`, `Crash` |

The hash of a record is its uid, fresh for every line, and the digest of a file is its
lines: collisions are not modelled. `foreign` are the inodes to which a binary older than
seals added lines that belong to no chain. `log`, `acked`, `aside` and `heads` are history
variables that no action's guard reads.

**`Installed`** is one control root: pointer, ledger (here a sequence, whose appends and
reads are single steps), signature files, verify floor, and the commands that use them. A
configuration is its hash together with the invokers its roles allow (`Grants`) and the
configuration a registry flip makes of it (`Flipped`). `Exclusive` and `Shared` are the
steps taken under `installed.lock`. The operator may edit the pointer by hand, make keys,
pin an execution point, remove the floor, put a backup back or start a new ledger.

**`Completeness`** is `completeness.Check`: a fold over the events of a verified ledger.
It has no machine of its own: `RunEngine` applies it to the ledgers that a run can leave,
and to those ledgers with events taken out.

**`RunEngine`** is one run: `engine.Run`, the gateway it starts and stops around each
fronted step, the goroutines of the requests agents send, and the ledger. It uses
`Completeness` to judge what it wrote.

| Code | Actions |
|---|---|
| `Run`, opening and refusal | `OpenFails`, `Refuse`, `Begin`, `LedgerFailed` |
| `Run`, a step | `Between`, `StartStep`, `Execute`, `StepSucceeds`, `StepFailsRun`, `StepFails` |
| `Run`, after a failure, and the end | `GiveUp`, `Bounce`, `Finish` |
| `Gateway.Start`, `Stop` | `GatewayStart`, `GatewayStartFails`, `StopClose`, `StopWait` |
| authentication, body, `admit`, its release | `Arrive`, `admit`, `release` |
| tool and exec doors | `toolsCallMiddleware`, `forward`, `execRunHandler`, `execAnswer` |
| model door | `modelHandler`, `ModifyResponse`, `RoundTripFails`, `ErrorHandler` |
| spawn door | `RefuseSpawn`, `Reserve`, `SpawnReturns`, `RecordSpawn`, `GiveBack` |
| the environment | `Cancel`, `Crash` |

The ledger is the events its reader verifies and the state of its end. A failed append may
leave nothing, a torn line, or a whole line that the writer's chain does not know of
(`ahead`); in the last case the next line breaks the chain. `admitted`, `provisioned` (sets
reported as provisioned), `sets` (sets that were) and `late` are history variables.

**`Serve`** is the API server over several lives of its process. A POST's handler is in
`req`, a run's goroutine in `run`; `slots` and `wg` are the channel and the WaitGroup. A
ledger is who created it, whether its last record is torn, and its final event.

| Code | Actions |
|---|---|
| `authed`, `admit`, `reserve` | `Authenticate`, `Admit`, `Reserve` |
| `startRun` before the goroutine | `Drop`, `Refuse`, `Refused`, `Mint` |
| the goroutine: `Run`, `finish`, the deferred releases | `OpenLog`, `Write`, `Written`, `WriteFails`, `Panic`, `Finish`, `Release` |
| `applyConfig` | `Admit`, `Apply`, `Applied` |
| `getRun`, `listRuns`, `cancelRun` | `GetRun`, `CancelRun` |
| `Shutdown`, the end of `cmdServe`, a later start | `Shutdown`, `Deadline`, `Exit`, `Restart` |
| the environment | `Crash`, `OtherRun` |

**`RunStore`** is the run directory: `Start`, `Emit`, `Name`, `End`, `Break` write ledgers,
`PruneList` to `PruneOrphans` are `pruneRuns` one removal at a time, `AnchorStart` to
`AnchorDone` are an anchoring pass under `.anchor.lock`, `Submit` is the log, and
`runExitCode` is what an audit of a run and its descendants makes of it all, by `Check`,
`Verify`, `decide` and `State`. A pass files under the key that was pinned when it began
(`pub`): once the log's key is another one, it refuses each proof (`Accepts`).

**`Recovery`** is the set of segment files again, with damage. A sealed segment is one value,
its `uid` standing for the hash of its seal line; `copies[k]` are the versions at a key of
the sink. `Read` gives the code's faults in the code's order.

| Code | Actions |
|---|---|
| `SealActive`, `CompleteSeal`, `rotate` | `SealActive`, `CompleteSeal`, `SealManifest`, `SealSwap` |
| `S3.Put` | `PutList`, `Put`, `PutConfirm` |
| `Restore`, `restoreSegment` | `RestoreRead`, `RestoreSelect`, `RestoreHold`, `RestoreWrite` |
| `Rebuild`, `fetchChain`, `rebuildWrite` | `RebuildRead`, `fetchChain`, `RebuildHold`, `RebuildSegment`, `RebuildManifest`, `RebuildManifestWrite`, `RebuildActive`, `RebuildRecord` |
| `cmdAuditVerifyControl`, `verifySink` | `VerifyRead`, `VerifyCopies`, `VerifyList`, `VerifyJudge` |
| other appends | `AppendEvent` |
| the environment | `Crash`, `SinkFails`, `LoseSegment`, `CorruptSegment`, `DamageManifest`, `LoseActive`, `Wipe`, `Rollback`, `Foreign`, `CloneSeals`, `MoveActiveAside` |

**`Runtimes`** is one host: the supervisor with its table, one handler per provision request
(`set`), one refexec per child (`rx`), and compartments, stores and directories as other
processes see them, on either backend (`tier`).

| Code | Actions |
|---|---|
| `handleProvision`, `admit`, `release` | `Request`, `Provision`, `Refuse`, `Ready`, `NotReady`, `Lost`, `Release` |
| `childSet.start` | `StartSet`, `StartFails`, `Launch`, `LaunchClash` |
| `teardown` | `Stopped`, `Kill`, `RemoveAgent`, `RemoveStore` |
| `Launch`, `Wait` of podman and Seatbelt | `Create`, `DidNotLaunch`, `Begin`, `Complete`, `Exit` |
| refexec's `startup`, `run`, shutdown | `RefexecReap`, `RefexecSweep`, `Command`, `Attest`, `Cancel`, `RefexecExit` |
| `serve`, `reap`, `close` | `Restart`, `ReapComps`, `Unlisted`, `ReapStores`, `Shutdown` |
| the gateway's lease | `HangUp` |
| the environment | `Crash`, `RefexecCrash` |

The `MC` modules instantiate the machines for TLC.

Choices worth knowing:

- A binary older than segment sets takes the active for a whole chain (`OlderAppend`). In a
  first segment before its seal its append is `AppendEvent`. Behind the seal it adds a line
  of the chain, which repair moves aside. In the empty active behind a rotation it mints a
  genesis of its own, and between a first segment's listing and the swap it writes to the
  listed file: lines of no chain (`foreign`), which every later command refuses
  (`WalkFails`, `Refuse`) until the operator follows the printed remedy (`MoveAside`,
  `RestoreSegment`). Any other active does not start at 1, and it refuses that itself.
- Errors that only a hand-edited file can cause (a key of the sink that is occupied by other
  bytes, a segment name that is taken) are guards without a failing branch.
  `AlwaysReadable` and `CopiesProtect` show that they never arise from the commands.
  `Recovery` is where such damage happens.
- In `Installed`, a ledger that is busy or damaged ends a command like `Crash` or
  `AppendFails`; the record of an I/O error is a `Note`.
- A first `apply` may be allowed (command line) or refused (API), so `JudgeRefused` and
  `JudgeApply` are both possible when nothing is installed.
- In `RunEngine`, what an agent answers, what an upstream answers and what a child run does
  are inputs. Steps are named by position: validation does not require step names to be
  distinct or present, and workflows where they are not are outside the model. A fail-back
  target is an earlier step, as validation demands.
- A request that is not authenticated, or whose body cannot be read, is no door call.
- In `Recovery` a seal's link and record are one step (`ControlLedger` has them apart), files
  are damaged between commands, the verification is the one with `--integrity`, and a new
  ledger begun in an emptied root is followed only up to its first record: it has a log id
  of its own (`LogID`), and its objects would be under another prefix. The copies a
  verification looks at are judged in one step: the oldest version at a key never changes.
- In `RunStore` an audit is not judged while a prune is removing the tree, or after one was
  cut off in it (`Whole`). Anchoring the control ledger's own head is left out.
- In `Runtimes` there is one supervisor per host and a child run id is used once. A request is
  counted from its arrival, so a shutdown waits for one that is not admitted yet. Only a
  crash is followed by another life, for a shutdown leaves less.
- Where several files are written with `atomicfile` or `rename`, the write is one step.

## Runs

| Run | Instance | Shows |
|---|---|---|
| `ledger_rotate` | 2 processes, append/seal/complete, WORM posture, 5 commands, 2 faults, fairness | `ChainIntact`: one chain, never forked. `DiskIsLog`: the files are that chain. `NoFalseAlarm`: racing a rotation is never taken for damage. `RotationCompletes`: an interrupted rotation is finished. |
| `ledger_repair` | 2 processes, every operation, both postures, older binary, 4 commands, 2 faults | `NothingLost`: nothing acknowledged, written or published is lost. `CopiesProtect`: the sink and the manifest agree. `AlwaysReadable`: what a crash leaves can be read or repaired, and only what an older binary wrote outside the chain is refused. `ImplementsHistory`: refinement of `ControlHistory`. |
| `installed_writers` | 2 processes, 2 invokers, 3 configurations, 2 commands and any vouches, 1 fault, fairness | `AuthorizedByPredecessor`, `NoLostUpdate`, `GapHeals`: an install whose record was lost gets on record. |
| `installed_readers` | 2 processes, flip pair, all operator events except edits, 4 commands, 1 fault | `SignatureNeverRegresses`, `NoRollback`, `UsedIsOnRecord`: what is run or pulled is on record. |
| `run_record` | 2 workflows, 2 requests at the model door, a cancel, 2 faults | `CleanRunIsComplete`, `CompleteIsHonest`: a ledger that reads complete holds every admitted call once, and a run without faults leaves one. `LossesShow`: no event of a complete ledger can be missing unnoticed, nor any set of calls' events. `ResultIsRecorded`: what `Run` returns is what the ledger ends with. `LedgerIsAWalk`. |
| `run_ends` | 2 workflows, 2 requests at the tool, exec and spawn doors, caps of 1, fairness | `RunEnds`: the bounce caps and `Stop`'s wait let every run end. `SpawnCaps`: the door's counters hold its caps. |
| `run_window` | 2 requests at the exec door | `DoorsInTheirStep` is **violated**, see below. |
| `spawn_total` | 2 requests at the spawn door, caps of 1 | `ProvisionedCount` is **violated**, see below. |
| `serve` | 2 requests, 2 run ids, 1 slot, 2 lives of the process, another process's run, fairness | `SlotsAccount`: slots and WaitGroup are the work in hand on every path. `CleanDrain`: a drain without its deadline leaves nothing half done. `AnswersAreOnRecord`: an outcome told to a client is the ledger's, in this life and the next. `DrainCompletes`. |
| `runstore` | a run and its child, 2 anchoring processes, 3 passes, 1 fault | `AuditIsQuiet`: no false alarm from prunes, sweeps and a rotated key. `RecordedHasProof`: a recorded anchor keeps its proof. `SweepFilesOnce`: overlapping sweeps file a head once. |
| `recovery` | 2 ordinals, 3 seals, 2 faults of 11 kinds, fairness | `CommittedIsOldest`: the oldest version at a key is what was committed. `WholeUnlessDamaged`: no command cut off anywhere loses a segment. `RestoredIsCommitted`. `VerifyIsHonest`: exit 0 over the committed ledger has seen all of it. `NoFalseTamper`: exit 9 is never a race. `RebuildCompletes`. |
| `runtimes` | 5 requests over 3 child ids of which 2 are sent, cap of 2, 1 command, 2 lives, 2 faults, both backends | `SlotsCover`: a free slot is a free compartment. `HeldIsWhole`, `CommandsSpared`, `ScratchKept`: no teardown or sweep touches what is another's. |

**Disagreements with the documentation.** `docs/lifecycle.md` says that a step's door
events are the ones between its `step_started` and its terminal, and that the engine
guarantees that window. `run_window` shows otherwise: the goroutine of a request that has
reached the listener but not yet `admit` when `Stop` closes the gateway survives
(`http.Server.Close` does not wait for handlers, and the request is not yet counted). The
next step's `Start` sets `closing` back to false in the same `Gateway`. The request is then
admitted, and its event, which names the earlier step's agent, is recorded and counted in
the later step's window. `run_record` shows that the counts still agree.

`docs/lifecycle-spawn.md` (What counts) says that `max_total_spawns` counts children whose
compartments were provisioned, and that a provisioned child counts whatever happens next.
`spawn_total` shows otherwise: a set that the supervisor provisioned and whose directory
then fails `checkPlacement` is returned with `Provisioned` false
(`cmd/agenthof/spawn.go:259-262`), and the door gives its place back. So a parent whose
placements fail can have more sets provisioned, one after the other, than the cap.
`SpawnCaps` says what the door does keep: the cap on what is running or was reported.

## What the models show of the code

Besides these two, modelling met these places, where a property holds
only with the exemption its comment names. They are listed as hazards.

- **Interrupted rotation over a damaged segment** (`Blocked` of `RebuildCompletes`).
  `audit seal` refuses because an earlier segment does not verify; restore and rebuild refuse
  because the rotation is not complete and send the operator to `audit seal`.
- **A rebuild cut off** (`restore.go`, Rebuild's comment: a crash leaves a state the next read
  names, never a partial set as if complete). After the manifest was lost and the only
  remaining segment moved aside, a set with an empty active reads as one that was never
  sealed. `RebuildCompletes` covers the re-run. A verification with the sink of that empty
  root cannot name a log id and does not exit 0.
- **A ledger begun anew** in an emptied or half rebuilt root has a log id of its own, by which
  `verifySink` lists the bucket: it sees nothing of the old ledger and exits 0.
  `VerifyIsHonest` is about a root whose log id is the committed ledger's.
- **A binary older than seals** (`OlderWriter` in `AlwaysReadable` and `NoFalseAlarm`; the
  documentation forbids it after the first seal). Its genesis in the empty active stops
  every command until that file is moved aside. `NothingLost` and `ImplementsHistory` say
  that neither it nor the remedy costs the chain a line.
- **A rebuild without an active** holds no ledger lock, and commands that append without
  `installed.lock` may begin a fresh ledger that its last step replaces.
- **The active lost before its copy was put**: the sibling it was linked to stays unexpected
  to every later read, and a rebuild does not remove it.
- **A foreign object as the oldest version at the next key** refuses every rebuild until it is
  removed by hand.
- **Seatbelt's sweep** (`late` of `ScratchKept`): a name claimed after the records were listed
  and before scratch dirs are removed loses its scratch dir, although `Launch` claims the name
  first so that a sibling's sweep leaves it alone.
- **Strays** (`stray` of `SlotsCover`): a podman container that `rm -f` failed on or that a
  late client created, and a Seatbelt process whose launcher died before its record was
  complete, run under no slot.
- **The lease's end** (`EndIsGone`, which is proved, while the supervisor serves): a SIGTERM cuts the
  connections before the sets are torn down, so there the end of the body comes first.
- **A supervisor's restart** removes the stores by force, which ends the command of a refexec
  whose supervisor crashed (`CommandsSpared` speaks of the supervisor's own refexecs).

Each property of a passing run has a mutant: a changed definition (`Mut_...`) under which TLC
finds the property violated.

**Bounds.** `MaxOps` bounds the commands started, `MaxFaults` the crashes, failed writes,
sink failures and damage. Two processes are enough for a rotation to overtake a writer, two
faults let a recovery itself be interrupted, and five commands reach two rotations with
appends between them. `Attempts` (2) is the code's own. In `RunEngine` two requests are
enough for calls of one step and of two steps to overlap, and two faults let one lost event
follow another; the doors are divided between its runs because they share nothing but
admission. In `Serve` two requests contend for one slot
and two lives let a later process read what an earlier one left. In `RunStore` three passes
are two sweeps and a prune that overlap. In `Recovery` two ordinals have a predecessor, a
successor and an end; a third seal is what seals an ordinal again after a snapshot came
back. In `Runtimes` the five requests are the ways two sets can clash: by child, by name, by
directory, by cap; two faults let a removal fail after a crash, or two removals. Completions and vouches are not counted as commands; what bounds them is
that each needs an unfinished rotation, or room for a record. Processes are symmetric; the
runs that check liveness use no symmetry. Deadlock is not checked: once the commands allowed
are spent, or the run is over, the system rests.

**Fairness.** `ControlLedger`'s `FairSpec` schedules every command that runs and starts a
completion whenever one is possible: `audit seal` is run by a timer. Faults are bounded and
get no fairness. `Installed`'s schedules running commands and lets `config vouch` be run
again, the remedy the refusals name. No writer is assumed to win a lock.
`RunEngine`'s schedules the run's goroutine, whose step ends by its own timeout, and each
door's once `Stop` has begun, which cancels the step's context and cuts its connections.
`Serve`'s schedules handlers (their reads and locks have timeouts), runs (`RunEnds`) and a
shutdown that has begun, never its deadline. `Recovery`'s schedules a command that runs, and
has the operator run the rebuild again and follow the remedy it prints; both are strongly
fair because `installed.lock` comes and goes.

## Proofs

Thirty-seven theorems, each for every value of the constants. A theorem that names a property
some run checks says for all instances what the run says for one. The argument is the same
everywhere: `Init => Inv`, one lemma per action (or per group of actions that bear on the same
state) for `Inv /\ [Next]_vars => Inv'`, and the property from `Inv`. Each inductive invariant was
checked with TLC before it was proved.

### Control ledger

`ControlLedgerProofs` and `ControlLedgerPromises` hold for any set of processes, any operations and
postures, with or without an older binary and for any bounds (`ConstantsAssumption`).

| Theorem | Statement |
|---|---|
| `Invariance` | `Spec => [](IInv /\ Foreign)` |
| `PromisesInvariance` | `Spec => []((IInv /\ Foreign) /\ (PInv /\ Linked))` |
| `TypeCorrect` | `Spec => []TypeOK` |
| `ChainNeverForks` | `Spec => []ChainIntact` |
| `SetIsTheChain` | `Spec => []DiskIsLog` |
| `WrittenIsKept` | `Spec => []NothingLost` |
| `SealsAreProtected` | `Spec => []CopiesProtect` |
| `SetStaysReadable` | `Spec => []AlwaysReadable` |
| `RotationIsNoDamage` | `Spec => []NoFalseAlarm` |
| `LedgerImplementsHistory` | `Spec => ImplementsHistory`, the refinement of `ControlHistory` |

Neither `ChainIntact` nor `DiskIsLog` is inductive: an append extends the chain correctly only if what
the process remembers is still the set as it is. `IInv` adds:

- `Locks`: an exclusive lock excludes every other lock on the same inode.
- `Handles`: locked handles are bound.
- `Walks`: a manifest that was walked without a lock is a prefix of the present one. So
  equal length, which `manifestEqual` compares, means the same manifest.
- `Writers`: a process past `lockActive`'s checks holds the active itself, and its walk and
  its chain are those on disk. This is what the re-stat and the second manifest read buy.
- `OneRepair` and `Repairs`: between its read and its truncation a repair holds no lock for
  a while. Its finding stays true because the damage keeps writers out and
  `installed.lock` keeps other repairs out.
- `Sets`: only the last listed segment may share the active's inode.

`Foreign` says where an older binary's lines outside the chain may be: in segment 1, or in an active
that holds no line of the chain, and never in a file that a writer past `lockActive`'s checks is about to
extend. That is why moving such an active aside leaves the chain as it is.

The promises need more, because a repair destroys lines and a rotation trusts a copy. `PInv` adds:

- `SealsLast`, `ListedSealed`, `ActiveMarked`, `Names`: only an older binary's lines follow a seal; a listed
  segment ends in the one seal that names its ordinal; the only unlisted segment name is the next one.
- `Owed` and `Copied`: a listed segment whose seal names a sink has its copy, and every copy is a listed
  segment or the active up to its seal.
- `Numbered` and `Published`: every line ever written is in the chain or in a fragment, and what was
  acknowledged or published is in the chain and is not an older binary's.
- `Rotations`, `Cutting`, `Confirmations`: what a process in the middle of a rotation or a repair may rely on.
  A repair cuts behind the seal, or nothing but a torn end, and by the time it truncates it has preserved
  exactly what it cuts.

`Linked` says that only a file with lines of the chain is given a segment's name, so the file that
`MoveAside` replaces has no second name.

The refinement is proved step by step: of all actions only the appends, the older binary's append,
`WriteTornFragment` and `Truncate` are steps of `ControlHistory`; the others stutter.

### Installed configuration

`InstalledProofs` holds for any commands, configurations, grants, invokers and bounds.

| Theorem | Statement |
|---|---|
| `InstalledInvariance` | `Spec => []Inv` |
| `InstallsAreAuthorized` | `Spec => []AuthorizedByPredecessor` |
| `UpdatesAreNotLost` | `Spec => []NoLostUpdate` |
| `SignaturesMoveForward` | `Spec => SignatureNeverRegresses` |
| `FloorNeverMovesBack` | `Spec => NoRollback` |
| `AnswersAreOnRecord` | `Spec => UsedIsOnRecord` |

`Inv` says what a command knows under `installed.lock`: `Judged` (between its judgement and its record, what a
writer authorized itself by is still the last install), `Knows` (a signer and a run hold the last install's
version, and the floor a run will advance is not past it) and, without a lock, `Pulls` (a pull's version stays
an install of the hash it read, because ledgers only grow or change their identity). `Roots` says of the root
and of the backup alike that every entry is authorized and every signature is of a recorded install, so that
putting a backup back keeps them. The three action properties are proved from `Inv` and the effect of each
action on pointer, ledger, signatures and floor.

### Run engine

`RunEngineProofs` and `RunLedgerProofs` hold for any valid workflow, any finite set of requests (`FiniteCalls`), any
caps and any number of failed writes.

| Theorem | Statement |
|---|---|
| `ControlInvariance`, `BookInvariance` | `Spec => []Control`, `Spec => [](Book /\ Opening)` |
| `SpawnsAreCapped` | `Spec => []SpawnCaps` |
| `LedgerInvariance` | `Spec => []Accounts` |
| `CleanRunsAreComplete` | `Spec => []CleanRunIsComplete` |
| `CompleteLedgersAreHonest` | `Spec => []CompleteIsHonest` |
| `ResultsAreRecorded` | `Spec => []ResultIsRecorded` |
| `LedgersAreWalks` | `Spec => []LedgerIsAWalk` |

The layers follow the code. `Control` is `Run` and the gateway without the ledger: `inflight` and the spawn counters
are the cardinalities they stand for, and calls are held only between `Start` and the end of `Stop`'s wait. `Book` is
who writes: a door event is an admitted call's, once, and a terminal event is `Run`'s last. `Accounts` is the
bookkeeping behind completeness: while `Run` writes, the doors in the open window plus the admitted calls that
have no event (`Missing`) are the count the step's terminal will carry, so the counts agree exactly when nothing
is missing. `Path` is the walk: the last lifecycle event says where `Run` is (`Trail`), each earlier one may follow
its predecessor, and a step's failures are its bounces, or one more while it has failed and not yet bounced.

`Windows`, the pass of the completeness check, is a recursive function over the events. That it exists, and that
appending an event advances it by one `Advance`, is proved with the least-number principle (`Least`, from the
well-foundedness of `<` on `Nat`): the least prefix without a walk cannot exist.

### Run directory

`RunStoreProofs` holds for any finite set of runs and any delegation among them, any anchoring processes and
any bounds (`RunStoreAssumption`).

| Theorem | Statement |
|---|---|
| `RunStoreInvariance` | `Spec => []Inv` |
| `ProofsAreKept` | `Spec => []RecordedHasProof` |
| `SweepsFileOnce` | `Spec => []SweepFilesOnce` |

`RecordedHasProof` races a prune that takes no lock. `PruneKnows` is why it holds: whatever the prune is about to remove
was created before its listing, a proof it takes for an orphan's belongs to a ledger that is gone, and a
ledger is created only once. `Holds` is what `.anchor.lock` gives a pass: no other pass, and runs still to come
that have no proof yet.

### Server

`ServeProofs` holds for any finite sets of requests and run ids, any number of slots and any number of lives of
the process (`Bounds`).

| Theorem | Statement |
|---|---|
| `ServeInvariance` | `Spec => []IInv` |
| `SlotsAccounted` | `Spec => []SlotsAccount` |
| `DrainIsClean` | `Spec => []CleanDrain` |
| `AnswersStand` | `Spec => []AnswersAreOnRecord` |

An answer is on record only because of who may write a ledger, so its `IInv` adds:

- `Owners`: `applyMu` is held by an apply that is counted; the table says running only of a
  run with a goroutine that has not told it otherwise, and knows every run that has one. So
  an id that `mint` finds fresh has no goroutine, and the slot it passes on is counted once.
- `OneWriter`: a run's goroutine and a refusal each own a ledger the server created and that
  has no final event, and no two own the same one.
- `Outcomes`: a lasting outcome in a goroutine's result or in the table is in the ledger.
- `Drained`: after a clean drain nothing is counted and no goroutine is left. It starts from
  the WaitGroup at zero and `SlotsAccount`, and lasts because `admit` sees the flag.

### Runtimes

`RuntimesProofs` holds for any requests, child ids, agents and names, any cap, and any number of commands, lives
and faults. `RuntimesAssumption` says that a request lists finitely many agents, that agent and command names
differ (`compartmentName` and the session names have different prefixes), that a session name is fresh, and that
ids without the reserved suffix share no directory. Ids that have the suffix may; `admit` refuses those.

| Theorem | Statement |
|---|---|
| `RuntimesInvariant` | `Spec => []Inv` |
| `SlotsCoverCorrect` | `Spec => []SlotsCover` |
| `ScratchKeptCorrect` | `Spec => []ScratchKept` |
| `HeldIsWholeCorrect` | `Spec => HeldIsWhole` |
| `CommandsSparedCorrect` | `Spec => CommandsSpared` |
| `EndIsGoneCorrect` | `Spec => EndIsGone` |

A compartment outlives the process that launched it, so each property depends on what the others leave behind.
Beside the types, `Inv` has:

- `Table`: what `admit` guards is exactly what the handlers in progress claim, no two of them claim the same
  child or name, and the count is the number of names.
- `Lives`: a command runner of the current life has a handler that has yet to wait for it. So a sweep at start, which
  runs before the socket opens, meets only runners of an earlier life.
- `Cover`: where an agent compartment is accounted for in each phase of the supervisor. While it serves, the
  compartment is in the list of one handler; once the sweep before serving is over there is none. On Seatbelt it
  has a record until then, which is what that sweep finds it by.
- `Commands`: a command on Seatbelt has its record from the claim on, so a sibling's sweep either lists it
  and keeps its scratch dir, or had listed before the claim, which is the case `ScratchKept` excepts.
- `Whole`: a set in use owns its store and both its directories.

The three action properties say which step may end a compartment: `HandlerEnds` and `RefexecEnds` bound what a
handler and a command runner remove, and `OnlyRelease` that only the last step of a teardown answers.

### Only model-checked

- Liveness under fairness, which this prover does not reach: `RotationCompletes`, `GapHeals`, `RunEnds`,
  `DrainCompletes`, `RebuildCompletes`.
- `AuditIsQuiet`: the exit code folds over a delegation tree of any depth, an induction over data.
- `LossesShow`: what the check makes of a ledger with any of its events taken out, likewise.
- `Recovery`, whose scans fold over the sink's listings: all of its properties.
- `DoorsInTheirStep` and `ProvisionedCount`, which are false.

## Not modelled

- **Bridge** (`deploy/refbridge`): its session operations are serialised by a mutex; what is
  left, whether a closing client lets a call in flight finish, is inside the MCP library.
- **Credential broker**: one mutex spans the look at the cache and the mint; the rest compares
  clocks.
- **Artifact store**: what a death inside a write leaves is bytes of a file. `RunEngine` takes
  artifacts as inputs.
- **Registry validation and configuration loading**: independent checks of parsed fields.
  `Installed` uses the one an install depends on, the role floor.
- **The read routes' integrity and completeness words**, which are put together from two reads
  (hazard at `handlers_read.go`).
- **Anchoring of the control ledger's head**: it reads a head and files it; `NothingLost` says
  that a published head stays in the chain.
- **Lock dates** of the sink: a copy's lock is whole or short.
- TLS, HTTP and cloud transports, cryptography (hashes are injective, signatures and proofs
  name what they sign), sandbox profiles and system calls, formatting, logging, test doubles
  and examples.
