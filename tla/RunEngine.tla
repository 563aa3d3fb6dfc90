------------------------------ MODULE RunEngine ------------------------------
(***************************************************************************)
(* One run: engine.Run walking a workflow, the run gateway whose doors the *)
(* step's agent calls from other goroutines, and the run ledger both write *)
(* to.  The engine starts the gateway after step_started, executes the     *)
(* step, stops the gateway (which waits for the calls it admitted) and     *)
(* stamps the number of admitted calls on the step's terminal; the         *)
(* completeness check compares that number with the door events.           *)
(*                                                                         *)
(* A ledger is the events its reader verifies and the state of its end:    *)
(* "clean"; "ahead" of the writer's chain head, after a line that was      *)
(* written whole and not confirmed, so that the next line does not chain;  *)
(* "damaged", a torn or broken line which no later write removes.          *)
(***************************************************************************)
EXTENDS Completeness

CONSTANTS
  Workflows,       \* the workflows a run may be of
  Calls,           \* the requests agents send, each used once
  Doors,           \* the doors they are sent to
  MaxParallel, MaxTotalSpawns, Depth, MaxDepth,   \* gateway.spawn, and this run's depth
  MaxFaults        \* bound on failed writes and crashes

(* A step: its on_failure target (NoStep when empty), max_bounces, and     *)
(* whether its agent is fronted.  validate.go admits earlier targets only. *)
StepDefs == [onFailure : Nat, maxBounces : 0..10, fronted : BOOLEAN]

Validate(w) == w # <<>> /\ \A k \in DOMAIN w : w[k].onFailure < k

ASSUME WorkflowsAreValid == \A w \in Workflows : w \in Seq(StepDefs) /\ Validate(w)
ASSUME Bounds == {Depth, MaxFaults, MaxParallel, MaxTotalSpawns, MaxDepth} \subseteq Nat
ASSUME KnownDoors == Doors \subseteq {"tool", "exec", "model", "spawn"}
ASSUME FiniteCalls == IsFiniteSet(Calls) /\ "none" \notin Calls

VARIABLES
  wf,              \* the workflow
  pc, i, bounces,  \* Run: where it is, the step index, the bounces per step
  outcome, counted, fin,   \* what Execute returned, Stop's count, the status to finish with
  disk, logErr,    \* the ledger file, and Run's sticky append error
  result,          \* what Run returned
  ctx,             \* the run's context is cancelled
  closing, doorCalls, inflight, spawnInflight, spawnTotal,   \* Gateway, under mu
  call,            \* the requests, each with its goroutine's place
  faults,
  admitted, late,  \* history: the calls admitted, the steps started after the cancel
  sets, provisioned   \* history: sets the supervisor provisioned, and those the Spawner reported

engine == <<pc, i, bounces, outcome, counted, fin, result>>
gateway == <<closing, doorCalls, inflight, spawnInflight, spawnTotal>>
ledger == <<disk, logErr, faults>>
history == <<admitted, late, sets, provisioned>>
vars == <<wf, engine, ledger, ctx, gateway, call, history>>

Running == {"open", "top", "begin", "start", "exec", "stop", "wait", "finish", "failed", "end"}
Held == {"door", "dialed", "recorded", "unrecorded", "child", "spawned", "giveback", "release"}

NoCall == [at |-> "idle", door |-> "none", step |-> NoStep]

Init ==
  /\ wf \in Workflows
  /\ pc = "open" /\ i = 1 /\ bounces = [k \in DOMAIN wf |-> 0]
  /\ outcome = "none" /\ counted = 0 /\ fin = "none"
  /\ disk = [events |-> <<>>, tail |-> "clean"] /\ logErr = FALSE
  /\ result = [status |-> "none", err |-> FALSE]
  /\ ctx = FALSE
  /\ closing = FALSE /\ doorCalls = 0 /\ inflight = 0 /\ spawnInflight = 0 /\ spawnTotal = 0
  /\ call = [c \in Calls |-> NoCall]
  /\ faults = 0 /\ admitted = {} /\ late = 0 /\ sets = 0 /\ provisioned = 0

-----------------------------------------------------------------------------
(* The ledger.  A failed Chain.Append leaves the writer's head where it    *)
(* was, whatever reached the disk.                                         *)

Event(type, step) ==
  [type |-> type, step |-> step, status |-> "", doors |-> NoCount, marker |-> FALSE,
   target |-> NoStep, call |-> "none"]

WithLine(d, e) ==
  IF d.tail = "clean" THEN [d EXCEPT !.events = Append(@, e)] ELSE [d EXCEPT !.tail = "damaged"]

Unconfirmed(d, e) ==
  IF d.tail = "clean" THEN [events |-> Append(d.events, e), tail |-> "ahead"]
  ELSE [d EXCEPT !.tail = "damaged"]

Fault == faults < MaxFaults /\ faults' = faults + 1

Write(e, ok) ==
  IF ok THEN disk' = WithLine(disk, e) /\ UNCHANGED faults
  ELSE /\ Fault
       /\ disk' \in {disk, [disk EXCEPT !.tail = "damaged"], Unconfirmed(disk, e)}

(* Run's emit: nothing more is written once a write failed. *)
emit(e) ==
  IF logErr THEN UNCHANGED ledger
  ELSE \E ok \in BOOLEAN : Write(e, ok) /\ logErr' = ~ok

(* A door's append: its error goes nowhere. *)
appendEvent(c) ==
  /\ \E ok \in BOOLEAN : Write([Event("door", call[c].step) EXCEPT !.call = c], ok)
  /\ UNCHANGED logErr

-----------------------------------------------------------------------------
(* engine.Run.                                                              *)

N == Len(wf)

Returns(status, err) == pc' = "over" /\ result' = [status |-> status, err |-> err]

Goto(l) == pc' = l

(* No ledger file, or no artifact store. *)
OpenFails ==
  /\ pc = "open" /\ Returns("failed", FALSE)
  /\ UNCHANGED <<wf, i, bounces, outcome, counted, fin, ledger, ctx, gateway, call, history>>

Refuse ==
  /\ pc = "open"
  /\ emit(Event("run_refused", NoStep))
  /\ Returns("refused", logErr')
  /\ UNCHANGED <<wf, i, bounces, outcome, counted, fin, ctx, gateway, call, history>>

Begin ==
  /\ pc = "open"
  /\ emit([Event("workflow_started", NoStep) EXCEPT !.marker = TRUE])
  /\ Goto("top")
  /\ UNCHANGED <<wf, i, bounces, outcome, counted, fin, result, ctx, gateway, call, history>>

LedgerFailed ==
  /\ pc = "top" /\ logErr /\ Returns("failed", TRUE)
  /\ UNCHANGED <<wf, i, bounces, outcome, counted, fin, ledger, ctx, gateway, call, history>>

(* Between steps: done, cancelled, or on to the next one. *)
Between ==
  /\ pc = "top" /\ ~logErr
  /\ CASE i > N        -> Goto("end") /\ fin' = "succeeded"
       [] i <= N /\ ctx  -> Goto("end") /\ fin' = "cancelled"
       [] i <= N /\ ~ctx -> Goto("begin") /\ UNCHANGED fin
  /\ UNCHANGED <<wf, i, bounces, outcome, counted, result, ledger, ctx, gateway, call, history>>

StartStep ==
  /\ pc = "begin"
  /\ emit(Event("step_started", i))
  /\ late' = IF ctx THEN late + 1 ELSE late
  /\ IF wf[i].fronted THEN Goto("start") /\ UNCHANGED counted ELSE Goto("exec") /\ counted' = 0
  /\ UNCHANGED <<wf, i, bounces, outcome, fin, result, ctx, gateway, call, admitted, sets, provisioned>>

GatewayStart ==
  /\ pc = "start" /\ Goto("exec")
  /\ closing' = FALSE /\ doorCalls' = 0
  /\ UNCHANGED <<wf, i, bounces, outcome, counted, fin, result, ledger, ctx,
                 inflight, spawnInflight, spawnTotal, call, history>>

StepTerminal(ok, n) ==
  [Event(IF ok THEN "step_succeeded" ELSE "step_failed", i) EXCEPT !.doors = n]

(* A bad grant, an upstream or the listener: before anything is served. *)
GatewayStartFails ==
  /\ pc = "start"
  /\ emit(StepTerminal(FALSE, 0))
  /\ Goto("end") /\ fin' = "failed"
  /\ UNCHANGED <<wf, i, bounces, outcome, counted, result, ctx, gateway, call, history>>

Execute ==
  /\ pc = "exec"
  /\ outcome' \in {"success", "failure", "config"}
  /\ Goto(IF wf[i].fronted THEN "stop" ELSE "finish")
  /\ UNCHANGED <<wf, i, bounces, counted, fin, result, ledger, ctx, gateway, call, history>>

StopClose ==
  /\ pc = "stop"
  /\ IF closing THEN Goto("finish") /\ counted' = doorCalls
     ELSE Goto("wait") /\ UNCHANGED counted
  /\ closing' = TRUE
  /\ UNCHANGED <<wf, i, bounces, outcome, fin, result, ledger, ctx,
                 doorCalls, inflight, spawnInflight, spawnTotal, call, history>>

(* Mutant: Stop does not wait for the calls it admitted. *)
Mut_StopWait ==
  /\ pc = "wait"
  /\ counted' = doorCalls /\ Goto("finish")
  /\ UNCHANGED <<wf, i, bounces, outcome, fin, result, ledger, ctx, gateway, call, history>>

StopWait ==
  /\ pc = "wait" /\ inflight = 0
  /\ counted' = doorCalls /\ Goto("finish")
  /\ UNCHANGED <<wf, i, bounces, outcome, fin, result, ledger, ctx, gateway, call, history>>

StepSucceeds ==
  /\ pc = "finish" /\ outcome = "success"
  /\ emit(StepTerminal(TRUE, counted))
  /\ i' = i + 1 /\ Goto("top")
  /\ UNCHANGED <<wf, bounces, outcome, counted, fin, result, ctx, gateway, call, history>>

(* A configuration error, or an artifact the store does not keep: the      *)
(* workflow fails with the step.                                           *)
StepFailsRun ==
  /\ pc = "finish" /\ outcome \in {"config", "success"}
  /\ emit(StepTerminal(FALSE, counted))
  /\ Goto("end") /\ fin' = "failed"
  /\ UNCHANGED <<wf, i, bounces, outcome, counted, result, ctx, gateway, call, history>>

StepFails ==
  /\ pc = "finish" /\ outcome = "failure"
  /\ emit(StepTerminal(FALSE, counted))
  /\ Goto("failed")
  /\ UNCHANGED <<wf, i, bounces, outcome, counted, fin, result, ctx, gateway, call, history>>

(* The fail-back target of step i, and a step's bounce cap. *)
Target == IF wf[i].onFailure = NoStep THEN i - 1 ELSE wf[i].onFailure

CapOf(s) == IF wf[s].maxBounces = 0 THEN 2 ELSE wf[s].maxBounces

(* Mutant: one bounce too many. *)
Mut_Exhausted == Target = NoStep \/ bounces[i] > CapOf(i)

Exhausted == Target = NoStep \/ bounces[i] + 1 > CapOf(i)

GiveUp ==
  /\ pc = "failed" /\ (ctx \/ Exhausted)
  /\ Goto("end") /\ fin' = IF ctx THEN "cancelled" ELSE "failed"
  /\ bounces' = IF ctx THEN bounces ELSE [bounces EXCEPT ![i] = @ + 1]
  /\ UNCHANGED <<wf, i, outcome, counted, result, ledger, ctx, gateway, call, history>>

Bounce ==
  /\ pc = "failed" /\ ~ctx /\ ~Exhausted
  /\ emit([Event("bounced_back", i) EXCEPT !.target = Target])
  /\ bounces' = [bounces EXCEPT ![i] = @ + 1]
  /\ i' = Target /\ Goto("top")
  /\ UNCHANGED <<wf, outcome, counted, fin, result, ctx, gateway, call, history>>

(* Mutant: the last append is not looked at. *)
Mut_Finish ==
  /\ pc = "end"
  /\ emit([Event("workflow_finished", NoStep) EXCEPT !.status = fin])
  /\ Returns(fin, FALSE)
  /\ UNCHANGED <<wf, i, bounces, outcome, counted, fin, ctx, gateway, call, history>>

Finish ==
  /\ pc = "end"
  /\ emit([Event("workflow_finished", NoStep) EXCEPT !.status = fin])
  /\ Returns(IF logErr' THEN "failed" ELSE fin, logErr')
  /\ UNCHANGED <<wf, i, bounces, outcome, counted, fin, ctx, gateway, call, history>>

-----------------------------------------------------------------------------
(* The gateway's doors.  A request's goroutine outlives its connection: it *)
(* may come to admit only after Stop, and then after the next step's Start. *)

At(c, l) == call' = [call EXCEPT ![c].at = l]

(* A request with the step's token and a readable body; any other is       *)
(* answered before it is a door call.                                      *)
Arrive(c, d) ==
  /\ pc = "exec" /\ wf[i].fronted /\ call[c].at = "idle"
  /\ call' = [call EXCEPT ![c] = [at |-> "arrived", door |-> d, step |-> i]]
  /\ UNCHANGED <<wf, engine, ledger, ctx, gateway, history>>

admit(c) ==
  /\ call[c].at = "arrived"
  /\ IF closing THEN At(c, "done") /\ UNCHANGED <<inflight, doorCalls, admitted>>
     ELSE /\ At(c, "door") /\ inflight' = inflight + 1 /\ doorCalls' = doorCalls + 1
          /\ admitted' = admitted \cup {c}
  /\ UNCHANGED <<wf, engine, ledger, ctx, closing, spawnInflight, spawnTotal, late, sets, provisioned>>

(* What a door does with a call it admitted: refuse it, which is recorded  *)
(* at once, or dial; a call is over when its event is appended.            *)
Records(c, l) == appendEvent(c) /\ At(c, l) /\ UNCHANGED <<wf, engine, ctx, gateway, history>>

Dials(c) == At(c, "dialed") /\ UNCHANGED <<wf, engine, ledger, ctx, gateway, history>>

InDoor(c, d) == call[c].at = "door" /\ call[c].door = d

toolsCallMiddleware(c) == InDoor(c, "tool") /\ (Records(c, "release") \/ Dials(c))

(* The upstream's answer, its error, or the end of the step. *)
forward(c) == call[c].at = "dialed" /\ call[c].door = "tool" /\ Records(c, "release")

(* The asserted routes refuse every call; /exec/run may dial the runtime. *)
execRunHandler(c) == InDoor(c, "exec") /\ (Records(c, "release") \/ Dials(c))

execAnswer(c) == call[c].at = "dialed" /\ call[c].door = "exec" /\ Records(c, "release")

modelHandler(c) == InDoor(c, "model") /\ (Records(c, "release") \/ Dials(c))

(* ModifyResponse records every answer and may still return an error;      *)
(* ErrorHandler records what ModifyResponse did not see.                   *)
ModifyResponse(c) ==
  /\ call[c].at = "dialed" /\ call[c].door = "model"
  /\ \E l \in {"release", "recorded"} : Records(c, l)

RoundTripFails(c) ==
  /\ call[c].at = "dialed" /\ call[c].door = "model"
  /\ At(c, "unrecorded")
  /\ UNCHANGED <<wf, engine, ledger, ctx, gateway, history>>

(* Mutant: without the recorded guard. *)
Mut_ErrorHandler(c) ==
  /\ call[c].at \in {"recorded", "unrecorded"}
  /\ appendEvent(c) /\ At(c, "release")
  /\ UNCHANGED <<wf, engine, ctx, gateway, history>>

ErrorHandler(c) ==
  /\ call[c].at \in {"recorded", "unrecorded"}
  /\ IF call[c].at = "recorded" THEN UNCHANGED ledger ELSE appendEvent(c)
  /\ At(c, "release")
  /\ UNCHANGED <<wf, engine, ctx, gateway, history>>

Room == Depth + 1 <= MaxDepth /\ spawnInflight < MaxParallel /\ spawnTotal < MaxTotalSpawns

(* Refused for its shape, its target, or for want of room. *)
RefuseSpawn(c) == InDoor(c, "spawn") /\ Records(c, "release")

(* Check and reserve are one step under mu. *)
Reserve(c) ==
  /\ InDoor(c, "spawn") /\ Room
  /\ At(c, "child")
  /\ spawnInflight' = spawnInflight + 1 /\ spawnTotal' = spawnTotal + 1
  /\ UNCHANGED <<wf, engine, ledger, ctx, closing, doorCalls, inflight, history>>

(* Mutant: the place is given back whatever the Spawner reports. *)
Mut_SpawnReturns(c) ==
  /\ call[c].at = "child"
  /\ \E ran \in BOOLEAN :
       IF ran THEN sets' = sets + 1 /\ provisioned' = provisioned + 1 ELSE UNCHANGED <<sets, provisioned>>
  /\ spawnTotal' = spawnTotal - 1
  /\ At(c, "spawned")
  /\ UNCHANGED <<wf, engine, ledger, ctx, closing, doorCalls, inflight, spawnInflight, admitted, late>>

(* The Spawner returns, and its result says whether a child ran in a set   *)
(* of its own; if none did, the place under max_total_spawns is given      *)
(* back: nothing was provisioned, or a set was and it failed               *)
(* checkPlacement.                                                         *)
SpawnReturns(c) ==
  /\ call[c].at = "child"
  /\ \/ /\ sets' = sets + 1 /\ provisioned' = provisioned + 1
        /\ UNCHANGED spawnTotal
     \/ /\ sets' \in {sets, sets + 1} /\ spawnTotal' = spawnTotal - 1
        /\ UNCHANGED provisioned
  /\ At(c, "spawned")
  /\ UNCHANGED <<wf, engine, ledger, ctx, closing, doorCalls, inflight, spawnInflight, admitted, late>>

RecordSpawn(c) == call[c].at = "spawned" /\ Records(c, "giveback")

GiveBack(c) ==
  /\ call[c].at = "giveback"
  /\ spawnInflight' = spawnInflight - 1 /\ At(c, "release")
  /\ UNCHANGED <<wf, engine, ledger, ctx, closing, doorCalls, inflight, spawnTotal, history>>

(* Mutant: a path that forgets its release. *)
Mut_release(c) ==
  /\ call[c].at = "release"
  /\ At(c, "done")
  /\ UNCHANGED <<wf, engine, ledger, ctx, gateway, history>>

release(c) ==
  /\ call[c].at = "release"
  /\ inflight' = inflight - 1 /\ At(c, "done")
  /\ UNCHANGED <<wf, engine, ledger, ctx, closing, doorCalls, spawnInflight, spawnTotal, history>>

-----------------------------------------------------------------------------
(* The run's surroundings: its caller gives up; its process dies, and with *)
(* it a write it had begun.                                                *)

Cancel ==
  /\ pc \in Running /\ ~ctx /\ ctx' = TRUE
  /\ UNCHANGED <<wf, engine, ledger, gateway, call, history>>

Crash ==
  /\ pc \in Running /\ Fault
  /\ disk' \in {disk, [disk EXCEPT !.tail = "damaged"]}
  /\ pc' = "dead" /\ call' = [c \in Calls |-> [call[c] EXCEPT !.at = "done"]]
  /\ UNCHANGED <<wf, i, bounces, outcome, counted, fin, result, logErr, ctx, gateway, history>>

Engine ==
  \/ OpenFails \/ Refuse \/ Begin \/ LedgerFailed \/ Between \/ StartStep
  \/ GatewayStart \/ GatewayStartFails \/ Execute \/ StopClose \/ StopWait
  \/ StepSucceeds \/ StepFailsRun \/ StepFails \/ GiveUp \/ Bounce \/ Finish

Door(c) ==
  \/ admit(c) \/ toolsCallMiddleware(c) \/ forward(c) \/ execRunHandler(c) \/ execAnswer(c)
  \/ modelHandler(c) \/ ModifyResponse(c) \/ RoundTripFails(c) \/ ErrorHandler(c)
  \/ RefuseSpawn(c) \/ Reserve(c) \/ SpawnReturns(c) \/ RecordSpawn(c) \/ GiveBack(c)
  \/ release(c)

Next ==
  \/ Engine \/ Cancel \/ Crash
  \/ \E c \in Calls : Door(c) \/ \E d \in Doors : Arrive(c, d)

Spec == Init /\ [][Next]_vars

(* Run's goroutine is scheduled, and Execute returns (StepTimeout ends the *)
(* step's context).  A door's work may take as long as the step, but not   *)
(* longer: Stop cancels the step's context and cuts the connection.        *)
FairSpec == Spec /\ WF_vars(Engine) /\ \A c \in Calls : WF_vars(closing /\ Door(c))

-----------------------------------------------------------------------------
(* Properties.                                                              *)

Verified == disk.tail # "damaged"

Recorded(c) == {k \in DOMAIN disk.events : disk.events[k].call = c}

(* A run whose every write succeeded and that was not killed leaves a      *)
(* ledger that verifies and reads complete: whatever the doors were doing  *)
(* when the step ended, Stop's count and the events in the window agree.   *)
CleanRunIsComplete ==
  pc = "over" /\ faults = 0 /\ disk.events # <<>> => Verified /\ Check(disk.events) = "complete"

(* A ledger that verifies and reads complete is the whole truth, whichever *)
(* writes failed on the way: every admitted call is in it, once, and no    *)
(* call that was not admitted is.                                          *)
CompleteIsHonest ==
  Verified /\ Check(disk.events) = "complete" =>
    \A c \in Calls : Cardinality(Recorded(c)) = IF c \in admitted THEN 1 ELSE 0

(* A complete ledger that loses events no longer reads complete: whichever *)
(* calls lose their event, in one step's window or in several, no two      *)
(* losses cancel out, and no lifecycle event is dispensable but a bounce,  *)
(* which the walk does not ask for (completeness.go).                      *)
LossesShow ==
  LET es == disk.events
      Without(C) == SelectSeq(es, LAMBDA e : e.call \notin C)
      Cut(k) == SubSeq(es, 1, k - 1) \o SubSeq(es, k + 1, Len(es))
  IN  Verified /\ Check(es) = "complete" =>
        /\ \A C \in SUBSET {c \in Calls : Recorded(c) # {}} : C # {} => Check(Without(C)) # "complete"
        /\ \A k \in DOMAIN es : es[k].type \notin {"door", "bounced_back"} => Check(Cut(k)) # "complete"

(* What Run returns and what its ledger says agree: a status returned      *)
(* without a ledger error is the one a verified ledger ends with, and a    *)
(* verified ledger that ends with a status is that run's, unless Run said  *)
(* its ledger failed; the status is cancelled only if the run's context    *)
(* was, and a cancelled run starts at most the one step it had decided on. *)
ResultIsRecorded ==
  /\ pc = "over" /\ Verified /\ disk.events # <<>> /\ ~result.err =>
       LET e == disk.events[Len(disk.events)]
       IN  \/ e.type = "run_refused" /\ result.status = "refused"
           \/ e.type = "workflow_finished" /\ result.status = e.status
  /\ late <= 1 /\ (fin = "cancelled" => ctx)

(* Event j of es is the lifecycle event before event k: what lies between  *)
(* is doors.                                                               *)
Precedes(es, j, k) ==
  /\ es[j].type # "door"
  /\ \A m \in (j + 1)..(k - 1) : es[m].type = "door"

(* Whether event e may follow p in a run whose workflow has n steps. *)
MayFollow(p, e, n) ==
  /\ e.type = "step_started" =>
       \/ p.type = "workflow_started" /\ e.step = 1
       \/ p.type = "step_succeeded" /\ e.step = p.step + 1
       \/ p.type = "bounced_back" /\ e.step = p.target
  /\ e.type \in StepTerminals => p.type = "step_started" /\ p.step = e.step
  /\ e.type = "bounced_back" => p.type = "step_failed" /\ p.step = e.step /\ e.target < e.step
  /\ e.type = "workflow_finished" /\ e.status = "succeeded" => p.type = "step_succeeded" /\ p.step = n

FailuresOf(es, s) == {k \in DOMAIN es : es[k].type = "step_failed" /\ es[k].step = s}

(* What is recorded is a walk of the workflow: a step starts at the        *)
(* beginning, after the step before it succeeded, or where a bounce sent   *)
(* the run; it ends before another starts; a bounce goes back from the     *)
(* step that failed; a run succeeds after its last step only; and a step   *)
(* fails at most once more than its cap allows it to bounce.               *)
LedgerIsAWalk ==
  /\ \A k \in DOMAIN disk.events :
       disk.events[k].type \notin {"door", "workflow_started", "run_refused"} =>
         \E j \in 1..(k - 1) : Precedes(disk.events, j, k) /\ MayFollow(disk.events[j], disk.events[k], N)
  /\ \A s \in DOMAIN wf : Cardinality(FailuresOf(disk.events, s)) <= CapOf(s) + 1

Children == {c \in Calls : call[c].at = "child"}

(* However the spawn calls of all the run's steps overlap, at most         *)
(* max_parallel children run at once, at most max_total_spawns of the run  *)
(* are running or were reported as provisioned, and every place is given   *)
(* back, for good if no child ran (the door's reserve and its release; a   *)
(* set that was provisioned and refused for its placement is not reported, *)
(* see ProvisionedCount).                                                  *)
SpawnCaps ==
  /\ Cardinality(Children) <= MaxParallel
  /\ Cardinality(Children) + provisioned <= MaxTotalSpawns
  /\ pc = "over" => spawnInflight = 0 /\ spawnTotal = provisioned

(* What max_total_spawns counts (docs/lifecycle-spawn.md): children whose  *)
(* compartments were provisioned, whatever happens next.                   *)
ProvisionedCount == sets <= MaxTotalSpawns

(* The window the engine guarantees: a door event lies between the start   *)
(* and the terminal of the step whose agent made the call.                 *)
DoorsInTheirStep ==
  \A k \in DOMAIN disk.events : disk.events[k].type = "door" =>
    \E s \in 1..(k - 1) :
      /\ disk.events[s].type = "step_started" /\ disk.events[s].step = disk.events[k].step
      /\ \A t \in (s + 1)..(k - 1) : disk.events[t].type = "door"

(* Every run ends: the bounce caps bound the walk and Stop's wait ends.    *)
RunEnds == <>(pc \in {"over", "dead"})
=============================================================================
