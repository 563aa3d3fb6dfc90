--------------------------- MODULE RunEngineProofs ---------------------------
(***************************************************************************)
(* What holds of every run, for any workflow, any number of requests at    *)
(* its doors and any number of failed writes: the gateway counts and       *)
(* admits its calls, the spawn caps hold, the ledger's door events are the *)
(* admitted calls' own, and its lifecycle events a walk of the workflow.   *)
(***************************************************************************)
EXTENDS RunEngine, FiniteSetTheorems, TLAPS

-----------------------------------------------------------------------------
(* The inductive invariant.                                                 *)

Statuses == {"succeeded", "failed", "cancelled"}
Ev == [type : EventTypes, step : Nat, status : Statuses \cup {"", "none"}, doors : Int,
       marker : BOOLEAN, target : Nat, call : Calls \cup {"none"}]
Disk == [events : Seq(Ev), tail : {"clean", "ahead", "damaged"}]
Places == Held \cup {"idle", "arrived", "done"}
Call == [at : Places, door : Doors \cup {"none"}, step : Nat]
Result == [status : Statuses \cup {"none", "refused"}, err : BOOLEAN]

EngineTypes ==
  /\ wf \in Workflows
  /\ pc \in Running \cup {"over", "dead"}
  /\ i \in 1..(N + 1)
  /\ bounces \in [DOMAIN wf -> Nat]
  /\ counted \in Nat
  /\ fin \in Statuses \cup {"none"}
  /\ result \in Result
  /\ ctx \in BOOLEAN /\ logErr \in BOOLEAN

GatewayTypes ==
  /\ closing \in BOOLEAN /\ doorCalls \in Nat
  /\ call \in [Calls -> Call] /\ admitted \subseteq Calls

LedgerTypes == disk \in Disk /\ faults \in Nat

(* Where Run is at a step of the workflow. *)
AtAStep == {"begin", "start", "exec", "stop", "wait", "finish", "failed"}

(* The calls at some places, and whether the doors are open. *)
In(X) == {c \in Calls : call[c].at \in X}
Spawning == {"child", "spawned", "giveback"}
Serving == pc \in {"exec", "stop"} /\ wf[i].fronted
Unwritten == {"door", "dialed", "unrecorded", "child", "spawned"}

(* The gateway: its counters count, calls are held only between Start and  *)
(* the end of Stop's wait, and nobody is admitted outside it.              *)
Counters ==
  /\ pc # "dead" =>
       /\ inflight = Cardinality(In(Held))
       /\ spawnInflight = Cardinality(In(Spawning))
       /\ spawnTotal = provisioned + Cardinality(In({"child"}))
  /\ inflight \in Nat /\ spawnInflight \in 0..MaxParallel
  /\ spawnTotal \in 0..MaxTotalSpawns /\ provisioned \in 0..spawnTotal

Gate ==
  /\ pc \in AtAStep => i \in 1..N
  /\ pc \in {"start", "stop", "wait"} => wf[i].fronted
  /\ Serving => ~closing
  /\ pc = "wait" => closing
  /\ In(Held) # {} => Serving \/ pc = "wait"
  /\ In({"arrived"}) # {} => closing \/ Serving
  /\ \A c \in Calls : /\ call[c].at \in {"idle", "arrived"} => c \notin admitted
                      /\ call[c].at \in Held => c \in admitted

Cancels ==
  /\ late \in 0..1
  /\ late > 0 => ctx
  /\ pc = "begin" => late = 0
  /\ fin = "cancelled" => ctx

(* Run and its gateway, whatever becomes of the ledger. *)
Control == EngineTypes /\ GatewayTypes /\ Counters /\ Gate /\ Cancels

(* The door events: one per call at most, of a call that was admitted and  *)
(* is past its append.                                                     *)
Entries ==
  /\ \A k \in DOMAIN disk.events : disk.events[k].type = "door" <=> disk.events[k].call \in admitted
  /\ \A k \in DOMAIN disk.events : disk.events[k].type # "door" => disk.events[k].call = "none"
  /\ \A k, l \in DOMAIN disk.events :
       disk.events[k].call = disk.events[l].call /\ disk.events[k].type = "door" => k = l
  /\ \A c \in Calls : call[c].at \in Unwritten =>
       \A k \in DOMAIN disk.events : disk.events[k].call # c

(* The admitted calls the ledger does not have. *)
Missing == {c \in admitted : \A k \in DOMAIN disk.events : disk.events[k].call # c}

(* The terminal events come from the last step of Run. *)
Ended ==
  /\ \A k \in DOMAIN disk.events : disk.events[k].type \in {"workflow_finished", "run_refused"} => pc = "over"
  /\ pc = "open" => disk.events = <<>> /\ disk.tail = "clean" /\ ~logErr

-----------------------------------------------------------------------------
(* Run and the gateway.                                                     *)

LEMMA Workflow ==
  ASSUME EngineTypes
  PROVE  /\ wf \in Seq(StepDefs) /\ N \in Nat /\ N # 0 /\ DOMAIN wf = 1..N
         /\ \A k \in 1..N : /\ wf[k].onFailure \in Nat /\ wf[k].onFailure < k
                            /\ wf[k].fronted \in BOOLEAN /\ CapOf(k) \in Nat
<1>1. wf \in Seq(StepDefs) /\ wf # <<>> /\ \A k \in DOMAIN wf : wf[k].onFailure < k
  BY WorkflowsAreValid, Zenon DEF EngineTypes, Validate
<1>2. N \in Nat /\ N # 0 /\ DOMAIN wf = 1..N
  BY <1>1 DEF N
<1>3. \A k \in 1..N : wf[k] \in StepDefs
  BY <1>1, <1>2
<1>4. \A k \in 1..N : /\ wf[k].onFailure \in Nat
                      /\ wf[k].fronted \in BOOLEAN /\ CapOf(k) \in Nat
  BY <1>3 DEF StepDefs, CapOf
<1>5. QED
  BY <1>1, <1>2, <1>4, Zenon

(* Steps of Run keep the gateway's calls, so they keep its counters. *)
LEMMA CountersFrame ==
  ASSUME Counters, pc # "dead",
         UNCHANGED <<call, inflight, spawnInflight, spawnTotal, provisioned>>
  PROVE  Counters'
  BY Zenon DEF Counters, In

LEMMA GatewayFrame ==
  ASSUME GatewayTypes, UNCHANGED <<closing, doorCalls, call, admitted>>
  PROVE  GatewayTypes'
  BY Zenon DEF GatewayTypes

(* Run outside the gateway. *)
LEMMA GateFrame ==
  ASSUME Gate, UNCHANGED <<wf, call, admitted, closing>>,
         pc \notin {"exec", "stop", "wait"} \/ (pc = "exec" /\ ~wf[i].fronted),
         pc' \notin {"exec", "stop", "wait"} \/ (pc' = "exec" /\ ~wf[i'].fronted),
         pc' \in AtAStep => i' \in 1..N,
         pc' = "start" => wf[i'].fronted
  PROVE  Gate'
<1>1. ~Serving /\ pc # "wait" /\ ~Serving'
  BY Zenon DEF Serving
<1>2. In(Held) = {} /\ (In({"arrived"}) # {} => closing)
  BY <1>1, Zenon DEF Gate
<1>3. In(Held)' = {} /\ (In({"arrived"})' # {} => closing')
  BY <1>2, Zenon DEF In
<1>4. \A c \in Calls : /\ call[c].at \in {"idle", "arrived"} => c \notin admitted
                      /\ call[c].at \in Held => c \in admitted
  BY Zenon DEF Gate
<1>5. N' = N /\ pc' # "wait" /\ (pc' \in {"start", "stop", "wait"} => pc' = "start")
  BY Zenon DEF N
<1>6. QED
  BY <1>1, <1>3, <1>4, <1>5, Zenon DEF Gate

LEMMA EmitBool ==
  ASSUME logErr \in BOOLEAN, NEW e, emit(e)
  PROVE  logErr' \in BOOLEAN
  BY Zenon DEF emit, ledger

LEMMA BounceTarget ==
  ASSUME EngineTypes, i \in 1..N
  PROVE  /\ CapOf(i) \in Nat /\ bounces[i] \in Nat /\ Target \in 0..N /\ Target < i
         /\ [bounces EXCEPT ![i] = @ + 1] \in [DOMAIN wf -> Nat]
<1>1. /\ N \in Nat /\ DOMAIN wf = 1..N /\ wf[i].onFailure \in Nat /\ wf[i].onFailure < i /\ CapOf(i) \in Nat
      /\ bounces \in [DOMAIN wf -> Nat]
  BY Workflow, Zenon DEF EngineTypes
<1>2. Target \in 0..N /\ Target < i
  BY <1>1 DEF Target, NoStep
<1>3. bounces[i] \in Nat /\ bounces[i] + 1 \in Nat
  BY <1>1
<1>4. QED
  BY <1>1, <1>2, <1>3, Zenon

(* Run's first and last steps. *)
LEMMA EdgeControl ==
  ASSUME Control, OpenFails \/ Refuse \/ Begin \/ LedgerFailed \/ Finish
  PROVE  Control'
<1>1. /\ pc \in {"open", "top", "end"} /\ pc' \in {"over", "top"} /\ logErr' \in BOOLEAN
      /\ UNCHANGED <<wf, i, bounces, counted, fin, ctx, gateway, call, history>>
  BY EmitBool, Zenon DEF Control, EngineTypes, OpenFails, Refuse, Begin, LedgerFailed, Finish, Returns, Goto, ledger
<1>2. result' \in Result
  <2>1. result \in Result /\ fin \in Statuses \cup {"none"} /\ FALSE \in BOOLEAN /\ TRUE \in BOOLEAN
    BY Zenon DEF Control, EngineTypes
  <2>2. \/ result' = result
        \/ \E s \in Statuses \cup {"none", "refused"} : result' = [status |-> s, err |-> logErr']
        \/ \E b \in BOOLEAN : result' = [status |-> "failed", err |-> b]
    BY <2>1, Zenon DEF OpenFails, Refuse, Begin, LedgerFailed, Finish, Returns, Statuses
  <2>3. "failed" \in Statuses \cup {"none", "refused"}
    BY Zenon DEF Statuses
  <2>4. \A s \in Statuses \cup {"none", "refused"}, b \in BOOLEAN : [status |-> s, err |-> b] \in Result
    BY DEF Result
  <2>5. QED
    BY <1>1, <2>1, <2>2, <2>3, <2>4, Zenon
<1>3. EngineTypes'
  <2>1. N' = N /\ pc' \in Running \cup {"over", "dead"}
    BY <1>1, Zenon DEF N, Running
  <2>2. QED
    BY <1>1, <1>2, <2>1, Zenon DEF Control, EngineTypes
<1>4. GatewayTypes' /\ Counters'
  BY <1>1, GatewayFrame, CountersFrame, Zenon DEF Control, gateway, history
<1>5. Gate'
  BY <1>1, GateFrame, Zenon DEF Control, AtAStep, gateway, history
<1>6. Cancels'
  BY <1>1, Zenon DEF Control, Cancels, history
<1>7. QED
  BY <1>3, <1>4, <1>5, <1>6, Zenon DEF Control

(* Run's steps outside the gateway. *)
Stride ==
  /\ UNCHANGED <<wf, result, ctx, gateway, call, admitted, provisioned>> /\ logErr' \in BOOLEAN
  /\ counted' \in Nat /\ fin' \in Statuses \cup {"none"} /\ bounces' \in [DOMAIN wf -> Nat]
  /\ i' \in 1..(N + 1)
  /\ pc \notin {"exec", "stop", "wait", "dead"}
  /\ pc' \in Running /\ pc' \notin {"stop", "wait"} /\ (pc' = "exec" => ~wf[i'].fronted)
  /\ pc' \in AtAStep => i' \in 1..N
  /\ pc' = "start" => wf[i'].fronted
  /\ Cancels'

LEMMA StrideControl ==
  ASSUME Control, Stride
  PROVE  Control'
<1>1. EngineTypes'
  <2>1. N' = N /\ DOMAIN wf' = DOMAIN wf
    BY Zenon DEF Stride, N
  <2>2. QED
    BY <2>1, Zenon DEF Stride, Control, EngineTypes
<1>2. GatewayTypes' /\ Counters'
  BY GatewayFrame, CountersFrame, Zenon DEF Stride, Control, gateway
<1>3. Gate'
  BY GateFrame, Zenon DEF Stride, Control, gateway
<1>4. QED
  BY <1>1, <1>2, <1>3, Zenon DEF Stride, Control

LEMMA WalkControl ==
  ASSUME Control,
         Between \/ StartStep \/ GatewayStartFails \/ StepSucceeds \/ StepFailsRun \/ StepFails \/ GiveUp \/ Bounce
  PROVE  Control'
<1>1. /\ N \in Nat /\ i \in 1..(N + 1) /\ counted \in Nat /\ fin \in Statuses \cup {"none"}
      /\ bounces \in [DOMAIN wf -> Nat] /\ logErr \in BOOLEAN /\ ctx \in BOOLEAN
      /\ late \in 0..1 /\ (late > 0 => ctx) /\ (fin = "cancelled" => ctx) /\ (pc = "begin" => late = 0)
      /\ EngineTypes
  BY Workflow, Zenon DEF Control, EngineTypes, Cancels
<1>2. pc \in AtAStep => i \in 1..N
  BY Zenon DEF Control, Gate
<1>3. CASE Between
  <2>1. /\ UNCHANGED <<wf, i, bounces, counted, result, ledger, ctx, gateway, call, history>> /\ pc = "top"
        /\ \/ pc' = "end" /\ fin' = "succeeded"
           \/ pc' = "end" /\ fin' = "cancelled" /\ ctx
           \/ pc' = "begin" /\ fin' = fin /\ ~ctx /\ i <= N
    <3>1. i > N \/ i <= N
      BY <1>1
    <3>2. QED
      BY <1>1, <1>3, <3>1, Zenon DEF Between, Goto
  <2>2. pc' = "begin" => i' \in 1..N /\ late' = 0
    BY <1>1, <2>1 DEF history
  <2>3. Cancels'
    BY <1>1, <2>1, <2>2 DEF Cancels, history
  <2>4. pc' \in {"end", "begin"} /\ fin' \in Statuses \cup {"none"}
    BY <1>1, <2>1, Zenon DEF Statuses
  <2>5. Stride
    BY <1>1, <2>1, <2>2, <2>3, <2>4, Zenon DEF Stride, ledger, history, Running, AtAStep
  <2>6. QED
    BY <2>5, StrideControl, Zenon
<1>4. CASE StartStep
  <2>1. /\ UNCHANGED <<wf, i, bounces, outcome, fin, result, ctx, gateway, call, admitted, provisioned>>
        /\ pc = "begin" /\ late' = (IF ctx THEN late + 1 ELSE late)
        /\ \/ pc' = "start" /\ wf[i].fronted /\ counted' = counted
           \/ pc' = "exec" /\ ~wf[i].fronted /\ counted' = 0
    BY <1>4, Zenon DEF StartStep, Goto
  <2>2. logErr' \in BOOLEAN
    BY <1>1, <1>4, EmitBool, Zenon DEF StartStep
  <2>3. i \in 1..N
    BY <1>2, <2>1, Zenon DEF AtAStep
  <2>4. Cancels'
    BY <1>1, <2>1 DEF Cancels
  <2>5. Stride
    <3>1. counted' \in Nat
      BY <1>1, <2>1
    <3>2. QED
      BY <1>1, <2>1, <2>2, <2>3, <2>4, <3>1, Zenon DEF Stride, Running
  <2>6. QED
    BY <2>5, StrideControl, Zenon
<1>5. CASE GatewayStartFails \/ StepFailsRun \/ StepFails
  <2>1. /\ UNCHANGED <<wf, i, bounces, outcome, counted, result, ctx, gateway, call, history>>
        /\ pc \in {"start", "finish"}
        /\ \/ pc' = "end" /\ fin' = "failed"
           \/ pc' = "failed" /\ fin' = fin
    BY <1>5, Zenon DEF GatewayStartFails, StepFailsRun, StepFails, Goto
  <2>2. logErr' \in BOOLEAN
    BY <1>1, <1>5, EmitBool, Zenon DEF GatewayStartFails, StepFailsRun, StepFails
  <2>3. i \in 1..N
    BY <1>2, <2>1, Zenon DEF AtAStep
  <2>4. Cancels'
    BY <1>1, <2>1, Zenon DEF Cancels, history
  <2>5. Stride
    BY <1>1, <2>1, <2>2, <2>3, <2>4, Zenon DEF Stride, Running, history, Statuses
  <2>6. QED
    BY <2>5, StrideControl, Zenon
<1>6. CASE StepSucceeds
  <2>1. /\ UNCHANGED <<wf, bounces, outcome, counted, fin, result, ctx, gateway, call, history>>
        /\ pc = "finish" /\ pc' = "top" /\ i' = i + 1
    BY <1>6, Zenon DEF StepSucceeds, Goto
  <2>2. logErr' \in BOOLEAN
    BY <1>1, <1>6, EmitBool, Zenon DEF StepSucceeds
  <2>3. i \in 1..N
    BY <1>2, <2>1, Zenon DEF AtAStep
  <2>4. i' \in 1..(N + 1)
    BY <1>1, <2>1, <2>3
  <2>5. Cancels'
    BY <1>1, <2>1, Zenon DEF Cancels, history
  <2>6. Stride
    BY <1>1, <2>1, <2>2, <2>4, <2>5, Zenon DEF Stride, Running, AtAStep, history
  <2>7. QED
    BY <2>6, StrideControl, Zenon
<1>7. CASE GiveUp
  <2>1. /\ UNCHANGED <<wf, i, outcome, counted, result, ledger, ctx, gateway, call, history>>
        /\ pc = "failed" /\ pc' = "end" /\ fin' = (IF ctx THEN "cancelled" ELSE "failed")
        /\ bounces' = (IF ctx THEN bounces ELSE [bounces EXCEPT ![i] = @ + 1])
    BY <1>7, Zenon DEF GiveUp, Goto
  <2>2. i \in 1..N
    BY <1>2, <2>1, Zenon DEF AtAStep
  <2>3. bounces' \in [DOMAIN wf -> Nat]
    BY <1>1, <2>1, <2>2, BounceTarget, Zenon
  <2>4. Cancels'
    BY <1>1, <2>1, Zenon DEF Cancels, history
  <2>5. Stride
    BY <1>1, <2>1, <2>2, <2>3, <2>4, Zenon DEF Stride, Running, history, ledger, Statuses
  <2>6. QED
    BY <2>5, StrideControl, Zenon
<1>8. CASE Bounce
  <2>1. /\ UNCHANGED <<wf, outcome, counted, fin, result, ctx, gateway, call, history>>
        /\ pc = "failed" /\ pc' = "top" /\ i' = Target /\ Target # NoStep
        /\ bounces' = [bounces EXCEPT ![i] = @ + 1]
    BY <1>8, Zenon DEF Bounce, Goto, Exhausted
  <2>2. logErr' \in BOOLEAN
    BY <1>1, <1>8, EmitBool, Zenon DEF Bounce
  <2>3. i \in 1..N
    BY <1>2, <2>1, Zenon DEF AtAStep
  <2>4. bounces' \in [DOMAIN wf -> Nat] /\ Target \in 0..N
    BY <1>1, <2>1, <2>3, BounceTarget, Zenon
  <2>5. i' \in 1..(N + 1)
    BY <1>1, <2>1, <2>4 DEF NoStep
  <2>6. Cancels'
    BY <1>1, <2>1, Zenon DEF Cancels, history
  <2>7. Stride
    BY <1>1, <2>1, <2>2, <2>4, <2>5, <2>6, Zenon DEF Stride, Running, AtAStep, history
  <2>8. QED
    BY <2>7, StrideControl, Zenon
<1>9. QED
  BY <1>3, <1>4, <1>5, <1>6, <1>7, <1>8, Zenon

(* Run's steps at the gateway. *)
LEMMA ServeControl ==
  ASSUME Control, GatewayStart \/ Execute \/ StopClose \/ StopWait
  PROVE  Control'
<1>1. /\ UNCHANGED <<wf, i, bounces, fin, result, ledger, ctx, inflight, spawnInflight, spawnTotal, call, history>>
      /\ pc \in {"start", "exec", "stop", "wait"} /\ pc' \in {"exec", "stop", "wait", "finish"}
      /\ closing' \in BOOLEAN /\ (doorCalls' = 0 \/ doorCalls' = doorCalls)
      /\ counted' \in {counted, doorCalls}
  BY Zenon DEF Control, GatewayTypes, GatewayStart, Execute, StopClose, StopWait, Goto, gateway
<1>2. i \in 1..N /\ wf[i].fronted \in BOOLEAN
  BY <1>1, Workflow, Zenon DEF Control, Gate, AtAStep
<1>3. doorCalls' \in Nat /\ counted' \in Nat
  BY <1>1 DEF Control, EngineTypes, GatewayTypes
<1>4. EngineTypes' /\ Cancels'
  <2>1. N' = N /\ pc' \in Running \cup {"over", "dead"}
    BY <1>1, Zenon DEF N, Running
  <2>2. pc' # "begin"
    BY <1>1, Zenon
  <2>3. QED
    BY <1>1, <1>3, <2>1, <2>2, Zenon DEF Control, EngineTypes, Cancels, ledger, history
<1>5. GatewayTypes' /\ Counters'
  <2>1. GatewayTypes'
    BY <1>1, <1>3, Zenon DEF Control, GatewayTypes, history
  <2>2. QED
    BY <1>1, <2>1, CountersFrame, Zenon DEF Control, history
<1>6. /\ pc' \in AtAStep => i' \in 1..N'
      /\ \A c \in Calls : /\ call'[c].at \in {"idle", "arrived"} => c \notin admitted'
                          /\ call'[c].at \in Held => c \in admitted'
  BY <1>1, <1>2, Zenon DEF Control, Gate, N, history
<1>7. In(Held)' = In(Held) /\ In({"arrived"})' = In({"arrived"})
  BY <1>1, Zenon DEF In
<1>8. CASE GatewayStart
  <2>1. pc = "start" /\ pc' = "exec" /\ closing' = FALSE /\ wf'[i'].fronted
    BY <1>1, <1>8, Zenon DEF GatewayStart, Goto, Control, Gate
  <2>2. In(Held) = {}
    BY <2>1, Zenon DEF Control, Gate, Serving
  <2>3. Gate'
    BY <1>6, <1>7, <2>1, <2>2, Zenon DEF Gate, Serving
  <2>4. QED
    BY <1>4, <1>5, <2>3, Zenon DEF Control
<1>9. CASE Execute
  <2>1. pc = "exec" /\ closing' = closing /\ pc' = (IF wf[i].fronted THEN "stop" ELSE "finish")
    BY <1>9, Zenon DEF Execute, Goto, gateway
  <2>2. CASE wf[i].fronted
    <3>1. Serving /\ ~closing /\ Serving' /\ pc' = "stop"
      BY <1>1, <2>1, <2>2, Zenon DEF Control, Gate, Serving
    <3>2. Gate'
      BY <1>1, <1>6, <1>7, <2>1, <2>2, <3>1, Zenon DEF Gate
    <3>3. QED
      BY <1>4, <1>5, <3>2, Zenon DEF Control
  <2>3. CASE ~wf[i].fronted
    <3>1. pc' = "finish" /\ ~Serving
      BY <2>1, <2>3, Zenon DEF Serving
    <3>2. In(Held) = {} /\ (In({"arrived"}) # {} => closing) /\ ~Serving'
      BY <2>1, <3>1, Zenon DEF Control, Gate, Serving
    <3>3. Gate'
      BY <1>6, <1>7, <2>1, <3>1, <3>2, Zenon DEF Gate
    <3>4. QED
      BY <1>4, <1>5, <3>3, Zenon DEF Control
  <2>4. QED
    BY <1>2, <2>2, <2>3, Zenon
<1>10. CASE StopClose
  <2>1. pc = "stop" /\ wf[i].fronted /\ ~closing
    BY <1>10, Zenon DEF StopClose, Control, Gate, Serving
  <2>2. pc' = "wait" /\ closing' = TRUE
    BY <1>10, <2>1, Zenon DEF StopClose, Goto
  <2>3. ~Serving'
    BY <2>2, Zenon DEF Serving
  <2>4. Gate'
    BY <1>1, <1>6, <2>1, <2>2, <2>3, Zenon DEF Gate
  <2>5. QED
    BY <1>4, <1>5, <2>4, Zenon DEF Control
<1>11. CASE StopWait
  <2>1. pc = "wait" /\ inflight = 0 /\ pc' = "finish" /\ closing' = closing
    BY <1>11, Zenon DEF StopWait, Goto, gateway
  <2>2. closing /\ ~Serving'
    BY <2>1, Zenon DEF Control, Gate, Serving
  <2>3. In(Held) = {}
    <3>1. Cardinality(In(Held)) = 0
      BY <2>1, Zenon DEF Control, Counters
    <3>2. IsFiniteSet(In(Held))
      <4>1. In(Held) \in SUBSET Calls
        BY Zenon DEF In
      <4>2. QED
        BY <4>1, FiniteCalls, FS_Subset, Zenon
    <3>3. QED
      BY <3>1, <3>2, FS_EmptySet, Zenon
  <2>4. Gate'
    BY <1>6, <1>7, <2>1, <2>2, <2>3, Zenon DEF Gate
  <2>5. QED
    BY <1>4, <1>5, <2>4, Zenon DEF Control
<1>12. QED
  BY <1>8, <1>9, <1>10, <1>11, Zenon

LEMMA CancelControl ==
  ASSUME Control, Cancel
  PROVE  Control'
<1>1. /\ UNCHANGED <<wf, engine, ledger, gateway, call, history>> /\ ctx' = TRUE /\ pc # "dead"
  BY Zenon DEF Cancel, Running
<1>2. EngineTypes' /\ Cancels'
  <2>1. N' = N
    BY <1>1, Zenon DEF N
  <2>2. QED
    BY <1>1, <2>1, Zenon DEF Control, EngineTypes, Cancels, engine, ledger, history
<1>3. GatewayTypes' /\ Counters'
  BY <1>1, GatewayFrame, CountersFrame, Zenon DEF Control, gateway, history
<1>4. Gate'
  BY <1>1, Zenon DEF Control, Gate, Serving, In, N, engine, gateway, history
<1>5. QED
  BY <1>2, <1>3, <1>4, Zenon DEF Control

LEMMA CrashControl ==
  ASSUME Control, Crash
  PROVE  Control'
<1>1. /\ UNCHANGED <<wf, i, bounces, outcome, counted, fin, result, logErr, ctx, gateway, history>>
      /\ pc' = "dead" /\ call' = [c \in Calls |-> [call[c] EXCEPT !.at = "done"]]
  BY Zenon DEF Crash
<1>2. EngineTypes' /\ Cancels'
  <2>1. N' = N /\ pc' \in Running \cup {"over", "dead"} /\ pc' # "begin"
    BY <1>1, Zenon DEF N
  <2>2. QED
    BY <1>1, <2>1, Zenon DEF Control, EngineTypes, Cancels, history
<1>3. \A c \in Calls : call'[c].at = "done" /\ call'[c] \in Call
  <2>1. call \in [Calls -> Call] /\ "done" \in Places
    BY Zenon DEF Control, GatewayTypes, Places
  <2>2. QED
    BY <1>1, <2>1 DEF Call
<1>4. GatewayTypes'
  <2>1. call' \in [Calls -> Call]
    BY <1>1, <1>3, Zenon
  <2>2. QED
    BY <1>1, <2>1, Zenon DEF Control, GatewayTypes, gateway, history
<1>5. Counters'
  BY <1>1, Zenon DEF Control, Counters, gateway, history
<1>6. In(Held)' = {} /\ In({"arrived"})' = {}
  BY <1>3, Zenon DEF In, Held
<1>7. Gate'
  BY <1>1, <1>3, <1>6, Zenon DEF Gate, Serving, AtAStep, Held
<1>8. QED
  BY <1>2, <1>4, <1>5, <1>7, Zenon DEF Control

-----------------------------------------------------------------------------
(* The doors.                                                               *)

LEMMA Move ==
  ASSUME GatewayTypes, NEW c \in Calls, NEW l \in Places, At(c, l)
  PROVE  /\ call' \in [Calls -> Call] /\ call'[c].at = l
         /\ call'[c].door = call[c].door /\ call'[c].step = call[c].step
         /\ \A d \in Calls \ {c} : call'[d] = call[d]
<1>1. call \in [Calls -> Call] /\ call[c] \in Call
  BY Zenon DEF GatewayTypes
<1> DEFINE m == [call[c] EXCEPT !.at = l]
<1>2. m \in Call /\ m.at = l /\ m.door = call[c].door /\ m.step = call[c].step
  BY <1>1 DEF Call
<1>3. call' = [call EXCEPT ![c] = m]
  BY DEF At
<1> HIDE DEF m
<1>4. call' \in [Calls -> Call] /\ call'[c] = m /\ \A d \in Calls \ {c} : call'[d] = call[d]
  BY <1>1, <1>2, <1>3, Zenon
<1>5. QED
  BY <1>2, <1>4, Zenon

(* How the number of calls at some places changes when one call moves. *)
LEMMA MoveCount ==
  ASSUME GatewayTypes, NEW c \in Calls, NEW l \in Places, At(c, l), NEW X
  PROVE  /\ Cardinality(In(X)) \in Nat
         /\ (call[c].at \in X <=> l \in X) => In(X)' = In(X)
         /\ call[c].at \notin X /\ l \in X => Cardinality(In(X)') = Cardinality(In(X)) + 1
         /\ call[c].at \in X /\ l \notin X =>
              Cardinality(In(X)) # 0 /\ Cardinality(In(X)') = Cardinality(In(X)) - 1
<1> DEFINE F(d) == call[d].at \in X
           G(d) == call'[d].at \in X
           A == In(X)
           B == In(X)'
<1>1. call'[c].at = l /\ \A d \in Calls \ {c} : call'[d] = call[d]
  BY Move, Zenon
<1>2. /\ F(c) <=> call[c].at \in X
      /\ G(c) <=> l \in X
      /\ \A d \in Calls \ {c} : F(d) <=> G(d)
  BY <1>1, Zenon
<1>3. A = {d \in Calls : F(d)} /\ B = {d \in Calls : G(d)}
  BY Zenon DEF In
<1>4. A \in SUBSET Calls
  BY Zenon DEF In
<1> HIDE DEF F, G, A, B
<1>5. IsFiniteSet(A) /\ Cardinality(A) \in Nat
  BY <1>4, FiniteCalls, FS_Subset, FS_CardinalityType, Zenon
<1>6. (F(c) <=> G(c)) => B = A
  BY <1>2, <1>3
<1>7. ASSUME ~F(c), G(c) PROVE Cardinality(B) = Cardinality(A) + 1
  <2>1. B = A \cup {c} /\ c \notin A
    BY <1>2, <1>3, <1>7
  <2>2. QED
    BY <1>5, <2>1, FS_AddElement, Zenon
<1>8. ASSUME F(c), ~G(c) PROVE Cardinality(A) # 0 /\ Cardinality(B) = Cardinality(A) - 1
  <2>1. B = A \ {c} /\ c \in A
    BY <1>2, <1>3, <1>8
  <2>2. Cardinality(A) # 0
    BY <1>5, <2>1, FS_EmptySet, Zenon
  <2>3. QED
    BY <1>5, <2>1, <2>2, FS_RemoveElement, Zenon
<1>9. QED
  BY <1>2, <1>5, <1>6, <1>7, <1>8, Zenon DEF A, B

LEMMA MoveControl ==
  ASSUME Control, NEW c \in Calls, NEW l \in Places, At(c, l), l \notin {"idle", "arrived"},
         UNCHANGED <<wf, engine, ctx, closing, logErr, late>>, doorCalls' \in Nat,
         admitted' = admitted \/ admitted' = admitted \cup {c},
         l \in Held => c \in admitted' /\ (Serving \/ pc = "wait"),
         Counters'
  PROVE  Control'
<1>1. /\ call' \in [Calls -> Call] /\ call'[c].at = l /\ \A d \in Calls \ {c} : call'[d] = call[d]
  BY Move, Zenon DEF Control
<1>2. EngineTypes' /\ Cancels'
  <2>1. N' = N
    BY Zenon DEF N
  <2>2. QED
    BY <2>1, Zenon DEF Control, EngineTypes, Cancels, engine
<1>3. GatewayTypes'
  <2>1. admitted' \subseteq Calls
    BY Zenon DEF Control, GatewayTypes
  <2>2. QED
    BY <1>1, <2>1, Zenon DEF Control, GatewayTypes
<1>4. (Serving' <=> Serving) /\ pc' = pc /\ i' = i /\ N' = N
  BY Zenon DEF Serving, engine, N
<1>5. \A d \in Calls : /\ call'[d].at \in {"idle", "arrived"} => d \notin admitted'
                       /\ call'[d].at \in Held => d \in admitted'
  BY <1>1, Zenon DEF Control, Gate
<1>6. In(Held)' # {} => Serving \/ pc = "wait"
  <2>1. \A d \in In(Held)' : d \in In(Held) \/ l \in Held
    BY <1>1, Zenon DEF In
  <2>2. In(Held) # {} => Serving \/ pc = "wait"
    BY Zenon DEF Control, Gate
  <2>3. QED
    BY <2>1, <2>2, Zenon
<1>7. In({"arrived"})' # {} => closing \/ Serving
  <2>1. \A d \in In({"arrived"})' : d \in In({"arrived"})
    BY <1>1, Zenon DEF In
  <2>2. In({"arrived"}) # {} => closing \/ Serving
    BY Zenon DEF Control, Gate
  <2>3. QED
    BY <2>1, <2>2, Zenon
<1>8. Gate'
  BY <1>4, <1>5, <1>6, <1>7, Zenon DEF Control, Gate
<1>9. QED
  BY <1>2, <1>3, <1>8, Zenon DEF Control

(* A held call moves on, and keeps its places. *)
LEMMA StayControl ==
  ASSUME Control, NEW c \in Calls, NEW l \in Held, At(c, l), call[c].at \in Held,
         call[c].at \in Spawning <=> l \in Spawning, call[c].at # "child", l # "child",
         UNCHANGED <<wf, engine, ctx, gateway, logErr, history>>
  PROVE  Control'
<1>1. l \in Places /\ l \notin {"idle", "arrived"}
  BY Zenon DEF Places, Held
<1>2. In(Held)' = In(Held) /\ In(Spawning)' = In(Spawning) /\ In({"child"})' = In({"child"})
  <2>1. call[c].at \notin {"child"} /\ l \notin {"child"}
    BY Zenon
  <2>2. QED
    BY <1>1, <2>1, MoveCount, Zenon DEF Control
<1>3. Counters'
  BY <1>2, Zenon DEF Control, Counters, engine, gateway, history
<1>4. c \in admitted /\ (Serving \/ pc = "wait")
  <2>1. c \in In(Held)
    BY Zenon DEF In
  <2>2. QED
    BY <2>1, Zenon DEF Control, Gate
<1>5. doorCalls' \in Nat /\ closing' = closing /\ admitted' = admitted /\ late' = late
  BY Zenon DEF Control, GatewayTypes, gateway, history
<1>6. QED
  BY <1>1, <1>3, <1>4, <1>5, MoveControl, Zenon

LEMMA AdmitControl ==
  ASSUME Control, NEW c \in Calls, admit(c)
  PROVE  Control'
<1>1. /\ call[c].at = "arrived"
      /\ UNCHANGED <<wf, engine, ledger, ctx, closing, spawnInflight, spawnTotal, provisioned, late>>
  BY Zenon DEF admit
<1>2. c \in In({"arrived"})
  BY <1>1, Zenon DEF In
<1>3. CASE closing
  <2>1. At(c, "done") /\ UNCHANGED <<inflight, doorCalls, admitted>>
    BY <1>3, Zenon DEF admit
  <2>2. "done" \in Places /\ "done" \notin Held /\ "arrived" \notin Held
        /\ "done" \notin Spawning /\ "arrived" \notin Spawning
    BY DEF Places, Held, Spawning
  <2>3. In(Held)' = In(Held) /\ In(Spawning)' = In(Spawning) /\ In({"child"})' = In({"child"})
    <3>1. "arrived" \notin {"child"} /\ "done" \notin {"child"}
      OBVIOUS
    <3>2. QED
      BY <1>1, <2>1, <2>2, <3>1, MoveCount, Zenon DEF Control
  <2>4. Counters'
    BY <1>1, <2>1, <2>3, Zenon DEF Control, Counters, engine
  <2>5. "done" \notin {"idle", "arrived"} /\ doorCalls' \in Nat
    BY <2>1 DEF Control, GatewayTypes
  <2>6. QED
    BY <1>1, <2>1, <2>2, <2>4, <2>5, MoveControl, Zenon DEF ledger
<1>4. CASE ~closing
  <2>1. /\ At(c, "door") /\ inflight' = inflight + 1 /\ doorCalls' = doorCalls + 1
        /\ admitted' = admitted \cup {c}
    BY <1>4, Zenon DEF admit
  <2>2. "door" \in Places /\ "door" \in Held /\ "arrived" \notin Held
        /\ "door" \notin Spawning /\ "arrived" \notin Spawning
    BY DEF Places, Held, Spawning
  <2>3. Cardinality(In(Held)') = Cardinality(In(Held)) + 1
        /\ In(Spawning)' = In(Spawning) /\ In({"child"})' = In({"child"})
    <3>1. "arrived" \notin {"child"} /\ "door" \notin {"child"}
      OBVIOUS
    <3>2. QED
      BY <1>1, <2>1, <2>2, <3>1, MoveCount, Zenon DEF Control
  <2>4. Serving /\ pc # "dead" /\ pc' = pc
    BY <1>1, <1>2, <1>4, Zenon DEF Control, Gate, Serving, engine
  <2>5. inflight + 1 \in Nat /\ doorCalls + 1 \in Nat
    BY DEF Control, Counters, GatewayTypes
  <2>6. Counters'
    BY <1>1, <2>1, <2>3, <2>4, <2>5, Zenon DEF Control, Counters
  <2>7. "door" \notin {"idle", "arrived"} /\ c \in admitted'
    BY <2>1
  <2>8. QED
    BY <1>1, <2>1, <2>2, <2>4, <2>5, <2>6, <2>7, MoveControl, Zenon DEF ledger
<1>5. QED
  BY <1>3, <1>4, Zenon

LEMMA HeldIsServed ==
  ASSUME Control, NEW c \in Calls, call[c].at \in Held
  PROVE  c \in admitted /\ (Serving \/ pc = "wait") /\ pc \in {"exec", "stop", "wait"} /\ i \in 1..N
<1>1. c \in In(Held)
  BY Zenon DEF In
<1>2. c \in admitted /\ (Serving \/ pc = "wait")
  BY <1>1, Zenon DEF Control, Gate
<1>3. QED
  BY <1>2, Zenon DEF Control, Gate, Serving, AtAStep

LEMMA ReserveControl ==
  ASSUME Control, NEW c \in Calls, Reserve(c)
  PROVE  Control'
<1>1. /\ call[c].at = "door" /\ Room /\ At(c, "child")
      /\ spawnInflight' = spawnInflight + 1 /\ spawnTotal' = spawnTotal + 1
      /\ UNCHANGED <<wf, engine, ledger, ctx, closing, doorCalls, inflight, history>>
  BY Zenon DEF Reserve, InDoor
<1>2. "child" \in Places /\ "child" \in Held /\ "door" \in Held /\ "child" \in Spawning /\ "door" \notin Spawning
      /\ "child" \in {"child"} /\ "door" \notin {"child"} /\ "child" \notin {"idle", "arrived"}
  BY DEF Places, Held, Spawning
<1>3. /\ In(Held)' = In(Held)
      /\ Cardinality(In(Spawning)') = Cardinality(In(Spawning)) + 1
      /\ Cardinality(In({"child"})') = Cardinality(In({"child"})) + 1 /\ Cardinality(In({"child"})) \in Nat
  BY <1>1, <1>2, MoveCount, Zenon DEF Control
<1>4. c \in admitted /\ (Serving \/ pc = "wait") /\ pc # "dead"
  BY <1>1, <1>2, HeldIsServed, Zenon
<1>5. /\ inflight = Cardinality(In(Held)) /\ spawnInflight = Cardinality(In(Spawning))
      /\ spawnTotal = provisioned + Cardinality(In({"child"}))
      /\ inflight \in Nat /\ spawnInflight \in 0..MaxParallel
      /\ spawnTotal \in 0..MaxTotalSpawns /\ provisioned \in 0..spawnTotal
  BY <1>4, Zenon DEF Control, Counters
<1>6. /\ spawnInflight' \in 0..MaxParallel /\ spawnTotal' \in 0..MaxTotalSpawns /\ provisioned \in 0..spawnTotal'
      /\ spawnTotal' = provisioned + Cardinality(In({"child"})')
  BY <1>1, <1>3, <1>5, Bounds DEF Room
<1>7. Counters'
  BY <1>1, <1>3, <1>5, <1>6, Zenon DEF Counters, history
<1>8. doorCalls' \in Nat
  BY <1>1, Zenon DEF Control, GatewayTypes
<1>9. QED
  BY <1>1, <1>2, <1>4, <1>7, <1>8, MoveControl, Zenon DEF ledger, history

LEMMA ReturnControl ==
  ASSUME Control, NEW c \in Calls, SpawnReturns(c)
  PROVE  Control'
<1>1. /\ call[c].at = "child" /\ At(c, "spawned")
      /\ UNCHANGED <<wf, engine, ledger, ctx, closing, doorCalls, inflight, spawnInflight, admitted, late>>
      /\ \/ provisioned' = provisioned + 1 /\ spawnTotal' = spawnTotal
         \/ provisioned' = provisioned /\ spawnTotal' = spawnTotal - 1
  BY Zenon DEF SpawnReturns
<1>2. "spawned" \in Places /\ "child" \in Held /\ "spawned" \in Held /\ "child" \in Spawning /\ "spawned" \in Spawning
      /\ "child" \in {"child"} /\ "spawned" \notin {"child"} /\ "spawned" \notin {"idle", "arrived"}
  BY DEF Places, Held, Spawning
<1>3. /\ In(Held)' = In(Held) /\ In(Spawning)' = In(Spawning)
      /\ Cardinality(In({"child"})) # 0 /\ Cardinality(In({"child"})) \in Nat
      /\ Cardinality(In({"child"})') = Cardinality(In({"child"})) - 1
  BY <1>1, <1>2, MoveCount, Zenon DEF Control
<1>4. c \in admitted /\ (Serving \/ pc = "wait") /\ pc # "dead"
  BY <1>1, <1>2, HeldIsServed, Zenon
<1>5. /\ inflight = Cardinality(In(Held)) /\ spawnInflight = Cardinality(In(Spawning))
      /\ spawnTotal = provisioned + Cardinality(In({"child"}))
      /\ inflight \in Nat /\ spawnInflight \in 0..MaxParallel
      /\ spawnTotal \in 0..MaxTotalSpawns /\ provisioned \in 0..spawnTotal
  BY <1>4, Zenon DEF Control, Counters
<1>6. /\ spawnTotal' \in 0..MaxTotalSpawns /\ provisioned' \in 0..spawnTotal'
      /\ spawnTotal' = provisioned' + Cardinality(In({"child"})')
  BY <1>1, <1>3, <1>5, Bounds
<1>7. Counters'
  BY <1>1, <1>3, <1>5, <1>6, Zenon DEF Counters
<1>8. doorCalls' \in Nat
  BY <1>1, Zenon DEF Control, GatewayTypes
<1>9. QED
  BY <1>1, <1>2, <1>4, <1>7, <1>8, MoveControl, Zenon DEF ledger

LEMMA GiveBackControl ==
  ASSUME Control, NEW c \in Calls, GiveBack(c)
  PROVE  Control'
<1>1. /\ call[c].at = "giveback" /\ At(c, "release") /\ spawnInflight' = spawnInflight - 1
      /\ UNCHANGED <<wf, engine, ledger, ctx, closing, doorCalls, inflight, spawnTotal, history>>
  BY Zenon DEF GiveBack
<1>2. "release" \in Places /\ "giveback" \in Held /\ "release" \in Held /\ "giveback" \in Spawning /\ "release" \notin Spawning
      /\ "giveback" \notin {"child"} /\ "release" \notin {"child"} /\ "release" \notin {"idle", "arrived"}
  BY DEF Places, Held, Spawning
<1>3. /\ In(Held)' = In(Held) /\ In({"child"})' = In({"child"})
      /\ Cardinality(In(Spawning)) # 0 /\ Cardinality(In(Spawning)) \in Nat
      /\ Cardinality(In(Spawning)') = Cardinality(In(Spawning)) - 1
  BY <1>1, <1>2, MoveCount, Zenon DEF Control
<1>4. c \in admitted /\ (Serving \/ pc = "wait") /\ pc # "dead"
  BY <1>1, <1>2, HeldIsServed, Zenon
<1>5. /\ inflight = Cardinality(In(Held)) /\ spawnInflight = Cardinality(In(Spawning))
      /\ spawnTotal = provisioned + Cardinality(In({"child"}))
      /\ inflight \in Nat /\ spawnInflight \in 0..MaxParallel
      /\ spawnTotal \in 0..MaxTotalSpawns /\ provisioned \in 0..spawnTotal
  BY <1>4, Zenon DEF Control, Counters
<1>6. spawnInflight' \in 0..MaxParallel /\ spawnInflight' = Cardinality(In(Spawning)')
  BY <1>1, <1>3, <1>5, Bounds
<1>7. Counters'
  BY <1>1, <1>3, <1>5, <1>6, Zenon DEF Counters, history
<1>8. doorCalls' \in Nat
  BY <1>1, Zenon DEF Control, GatewayTypes
<1>9. QED
  BY <1>1, <1>2, <1>4, <1>7, <1>8, MoveControl, Zenon DEF ledger, history

LEMMA ReleaseControl ==
  ASSUME Control, NEW c \in Calls, release(c)
  PROVE  Control'
<1>1. /\ call[c].at = "release" /\ At(c, "done") /\ inflight' = inflight - 1
      /\ UNCHANGED <<wf, engine, ledger, ctx, closing, doorCalls, spawnInflight, spawnTotal, history>>
  BY Zenon DEF release
<1>2. "done" \in Places /\ "release" \in Held /\ "done" \notin Held /\ "release" \notin Spawning /\ "done" \notin Spawning
      /\ "release" \notin {"child"} /\ "done" \notin {"child"} /\ "done" \notin {"idle", "arrived"}
  BY DEF Places, Held, Spawning
<1>3. /\ In(Spawning)' = In(Spawning) /\ In({"child"})' = In({"child"})
      /\ Cardinality(In(Held)) # 0 /\ Cardinality(In(Held)) \in Nat
      /\ Cardinality(In(Held)') = Cardinality(In(Held)) - 1
  BY <1>1, <1>2, MoveCount, Zenon DEF Control
<1>4. pc # "dead"
  BY <1>1, <1>2, HeldIsServed, Zenon
<1>5. /\ inflight = Cardinality(In(Held)) /\ spawnInflight = Cardinality(In(Spawning))
      /\ spawnTotal = provisioned + Cardinality(In({"child"}))
      /\ spawnInflight \in 0..MaxParallel
      /\ spawnTotal \in 0..MaxTotalSpawns /\ provisioned \in 0..spawnTotal
  BY <1>4, Zenon DEF Control, Counters
<1>6. inflight' \in Nat /\ inflight' = Cardinality(In(Held)')
  BY <1>1, <1>3, <1>5
<1>7. Counters'
  BY <1>1, <1>3, <1>5, <1>6, Zenon DEF Counters, history
<1>8. doorCalls' \in Nat
  BY <1>1, Zenon DEF Control, GatewayTypes
<1>9. QED
  BY <1>1, <1>2, <1>7, <1>8, MoveControl, Zenon DEF ledger, history

LEMMA ArriveControl ==
  ASSUME Control, NEW c \in Calls, NEW d \in Doors, Arrive(c, d)
  PROVE  Control'
<1> DEFINE a == [at |-> "arrived", door |-> d, step |-> i]
<1>1. /\ pc = "exec" /\ wf[i].fronted /\ call[c].at = "idle" /\ call' = [call EXCEPT ![c] = a]
      /\ UNCHANGED <<wf, engine, ledger, ctx, gateway, history>>
  BY Zenon DEF Arrive
<1>2. a \in Call /\ a.at = "arrived"
  <2>1. i \in Nat /\ "arrived" \in Places
    BY Workflow DEF Control, EngineTypes, Places
  <2>2. QED
    BY <2>1 DEF Call
<1> HIDE DEF a
<1>3. call' \in [Calls -> Call] /\ call'[c].at = "arrived" /\ \A b \in Calls \ {c} : call'[b] = call[b]
  BY <1>1, <1>2, Zenon DEF Control, GatewayTypes
<1>4. EngineTypes' /\ Cancels'
  <2>1. N' = N
    BY <1>1, Zenon DEF N
  <2>2. QED
    BY <1>1, <2>1, Zenon DEF Control, EngineTypes, Cancels, engine, ledger, history
<1>5. GatewayTypes'
  BY <1>1, <1>3, Zenon DEF Control, GatewayTypes, gateway, history
<1>6. In(Held)' = In(Held) /\ In(Spawning)' = In(Spawning) /\ In({"child"})' = In({"child"})
  <2>1. call[c].at \notin Held /\ call[c].at \notin Spawning /\ call[c].at \notin {"child"}
        /\ "arrived" \notin Held /\ "arrived" \notin Spawning /\ "arrived" \notin {"child"}
    BY <1>1 DEF Held, Spawning
  <2>2. QED
    BY <1>3, <2>1, Zenon DEF In
<1>7. Counters'
  BY <1>1, <1>6, Zenon DEF Control, Counters, engine, gateway, history
<1>8. Gate'
  <2>1. Serving /\ Serving' /\ pc' = pc /\ i' = i /\ N' = N /\ closing' = closing /\ admitted' = admitted
    BY <1>1, Zenon DEF Serving, engine, N, gateway, history
  <2>2. \A b \in Calls : /\ call'[b].at \in {"idle", "arrived"} => b \notin admitted'
                         /\ call'[b].at \in Held => b \in admitted'
    <3>1. c \notin admitted /\ "arrived" \notin Held
      BY <1>1, Zenon DEF Control, Gate, Held
    <3>2. QED
      BY <1>3, <2>1, <3>1, Zenon DEF Control, Gate
  <2>3. QED
    BY <1>1, <1>6, <2>1, <2>2, Zenon DEF Control, Gate
<1>9. QED
  BY <1>4, <1>5, <1>7, <1>8, Zenon DEF Control

(* What the doors do with a held call besides counting: append its event,  *)
(* or pass it on.                                                          *)
Appends(c, l) ==
  /\ call[c].at \in Unwritten \ {"child"} /\ l \in {"release", "recorded", "giveback"}
  /\ call[c].at \in Spawning <=> l \in Spawning
  /\ appendEvent(c) /\ At(c, l) /\ UNCHANGED <<wf, engine, ctx, gateway, history>>

Passes(c, l) ==
  /\ call[c].at \in Held \ Spawning /\ l \in Held \ Spawning /\ (l \in Unwritten => call[c].at \in Unwritten)
  /\ call[c].at \in Unwritten => l \in Unwritten
  /\ At(c, l) /\ UNCHANGED <<wf, engine, ledger, ctx, gateway, history>>

LEMMA DoorKinds ==
  ASSUME NEW c \in Calls, Door(c)
  PROVE  \/ admit(c) \/ Reserve(c) \/ SpawnReturns(c) \/ GiveBack(c) \/ release(c)
         \/ \E l : Appends(c, l) \/ Passes(c, l)
<1>1. CASE toolsCallMiddleware(c) \/ execRunHandler(c) \/ modelHandler(c)
  <2>1. call[c].at = "door" /\ (Records(c, "release") \/ Dials(c))
    BY <1>1, Zenon DEF toolsCallMiddleware, execRunHandler, modelHandler, InDoor
  <2>2. Records(c, "release") => Appends(c, "release")
    BY <2>1 DEF Records, Appends, Unwritten, Spawning
  <2>3. Dials(c) => Passes(c, "dialed")
    BY <2>1 DEF Dials, Passes, Unwritten, Spawning, Held
  <2>4. QED
    BY <2>1, <2>2, <2>3, Zenon
<1>2. CASE forward(c) \/ execAnswer(c) \/ RefuseSpawn(c)
  <2>1. call[c].at \in {"door", "dialed"} /\ Records(c, "release")
    BY <1>2, Zenon DEF forward, execAnswer, RefuseSpawn, InDoor
  <2>2. Appends(c, "release")
    BY <2>1 DEF Records, Appends, Unwritten, Spawning
  <2>3. QED
    BY <2>2, Zenon
<1>3. CASE ModifyResponse(c)
  <2>1. PICK l \in {"release", "recorded"} : call[c].at = "dialed" /\ Records(c, l)
    BY <1>3, Zenon DEF ModifyResponse
  <2>2. Appends(c, l)
    BY <2>1 DEF Records, Appends, Unwritten, Spawning
  <2>3. QED
    BY <2>2, Zenon
<1>4. CASE RoundTripFails(c)
  <2>1. Passes(c, "unrecorded")
    BY <1>4 DEF RoundTripFails, Passes, Unwritten, Spawning, Held
  <2>2. QED
    BY <2>1, Zenon
<1>5. CASE ErrorHandler(c)
  <2>1. CASE call[c].at = "recorded"
    <3>1. Passes(c, "release")
      BY <1>5, <2>1 DEF ErrorHandler, Passes, Unwritten, Spawning, Held
    <3>2. QED
      BY <3>1, Zenon
  <2>2. CASE call[c].at = "unrecorded"
    <3>1. Appends(c, "release")
      BY <1>5, <2>2 DEF ErrorHandler, Appends, Unwritten, Spawning
    <3>2. QED
      BY <3>1, Zenon
  <2>3. QED
    BY <1>5, <2>1, <2>2, Zenon DEF ErrorHandler
<1>6. CASE RecordSpawn(c)
  <2>1. Appends(c, "giveback")
    BY <1>6 DEF RecordSpawn, Records, Appends, Unwritten, Spawning
  <2>2. QED
    BY <2>1, Zenon
<1>7. QED
  BY <1>1, <1>2, <1>3, <1>4, <1>5, <1>6, Zenon DEF Door

LEMMA DoorControl ==
  ASSUME Control, NEW c \in Calls, Door(c)
  PROVE  Control'
<1>1. ASSUME NEW l, Appends(c, l) PROVE Control'
  <2>1. /\ call[c].at \in Held /\ l \in Held /\ call[c].at # "child" /\ l # "child" /\ At(c, l)
        /\ (call[c].at \in Spawning <=> l \in Spawning) /\ UNCHANGED <<wf, engine, ctx, gateway, history>>
    BY <1>1, Zenon DEF Appends, Unwritten, Held
  <2>2. logErr' = logErr
    BY <1>1, Zenon DEF Appends, appendEvent
  <2>3. QED
    BY <2>1, <2>2, StayControl, Zenon
<1>2. ASSUME NEW l, Passes(c, l) PROVE Control'
  <2>1. /\ call[c].at \in Held /\ l \in Held /\ call[c].at # "child" /\ l # "child" /\ At(c, l)
        /\ (call[c].at \in Spawning <=> l \in Spawning) /\ UNCHANGED <<wf, engine, ctx, gateway, history, logErr>>
    BY <1>2, Zenon DEF Passes, Spawning, ledger
  <2>2. QED
    BY <2>1, StayControl, Zenon
<1>3. QED
  BY <1>1, <1>2, DoorKinds, AdmitControl, ReserveControl, ReturnControl, GiveBackControl, ReleaseControl, Zenon

LEMMA InitControl ==
  ASSUME Init
  PROVE  Control
<1>1. EngineTypes
  <2>1. wf \in Workflows
    BY Zenon DEF Init
  <2>2. Len(wf) \in Nat
    BY <2>1, WorkflowsAreValid
  <2>3. result \in Result
    BY DEF Init, Result
  <2>4. i \in 1..(N + 1) /\ bounces \in [DOMAIN wf -> Nat] /\ counted \in Nat
    BY <2>2 DEF Init, N
  <2>5. QED
    BY <2>1, <2>3, <2>4, Zenon DEF Init, EngineTypes, Running
<1>2. GatewayTypes
  <2>1. NoCall \in Call
    BY DEF NoCall, Call, Places, NoStep
  <2>2. call \in [Calls -> Call]
    BY <2>1, Zenon DEF Init
  <2>3. QED
    BY <2>2, Zenon DEF Init, GatewayTypes
<1>3. \A c \in Calls : call[c].at = "idle"
  BY DEF Init, NoCall
<1>4. In(Held) = {} /\ In(Spawning) = {} /\ In({"child"}) = {} /\ In({"arrived"}) = {}
  BY <1>3, Zenon DEF In, Held, Spawning
<1>5. Counters
  <2>1. Cardinality({}) = 0
    BY FS_EmptySet, Zenon
  <2>2. inflight = 0 /\ spawnInflight = 0 /\ spawnTotal = 0 /\ provisioned = 0
    BY DEF Init
  <2>3. 0 = 0 + 0 /\ 0 \in Nat /\ 0 \in 0..MaxParallel /\ 0 \in 0..MaxTotalSpawns /\ 0 \in 0..0
    BY Bounds
  <2>4. QED
    BY <1>4, <2>1, <2>2, <2>3, Zenon DEF Counters
<1>6. Gate
  BY <1>3, <1>4, Zenon DEF Init, Gate, AtAStep, Serving, Held
<1>7. Cancels
  BY DEF Init, Cancels
<1>8. QED
  BY <1>1, <1>2, <1>5, <1>6, <1>7, Zenon DEF Control

(* The gateway's counters count, whatever the interleaving: calls are held *)
(* only while Run executes a fronted step or waits in Stop.                *)
THEOREM ControlInvariance == Spec => []Control
<1>1. Init => Control
  BY InitControl, Zenon
<1>2. Control /\ [Next]_vars => Control'
  <2> SUFFICES ASSUME Control, [Next]_vars PROVE Control'
    OBVIOUS
  <2>1. CASE Engine
    BY <2>1, EdgeControl, WalkControl, ServeControl, Zenon DEF Engine
  <2>2. CASE \E c \in Calls : Door(c) \/ \E d \in Doors : Arrive(c, d)
    BY <2>2, DoorControl, ArriveControl, Zenon
  <2>3. CASE UNCHANGED vars
    <3>1. UNCHANGED <<wf, pc, i, bounces, counted, fin, result, logErr, ctx, closing, doorCalls, inflight,
                      spawnInflight, spawnTotal, call, admitted, provisioned, late>>
      BY <2>3, Zenon DEF vars, engine, ledger, gateway, history
    <3>2. EngineTypes' /\ Cancels'
      BY <3>1, Zenon DEF Control, EngineTypes, Cancels, N
    <3>3. GatewayTypes' /\ Counters'
      BY <3>1, Zenon DEF Control, GatewayTypes, Counters, In
    <3>4. Gate'
      BY <3>1, Zenon DEF Control, Gate, In, Serving, N
    <3>5. QED
      BY <3>2, <3>3, <3>4, Zenon DEF Control
  <2>4. QED
    BY <2>1, <2>2, <2>3, CancelControl, CrashControl, Zenon DEF Next
<1>3. QED
  BY <1>1, <1>2, PTL DEF Spec

(* However the spawn calls of a run's steps overlap, max_parallel holds,   *)
(* the sets reported as provisioned stay within max_total_spawns and the   *)
(* other places are given back (the spawn door's reservation under mu).    *)
THEOREM SpawnsAreCapped == Spec => []SpawnCaps
<1>1. Control => SpawnCaps
  <2> SUFFICES ASSUME Control PROVE SpawnCaps
    OBVIOUS
  <2>1. Children = In({"child"}) /\ In({"child"}) \in SUBSET In(Spawning) /\ In(Spawning) \in SUBSET In(Held)
        /\ In(Held) \in SUBSET Calls
    BY Zenon DEF Children, In, Spawning, Held
  <2>2. IsFiniteSet(In(Held)) /\ IsFiniteSet(In(Spawning)) /\ IsFiniteSet(In({"child"}))
    BY <2>1, FiniteCalls, FS_Subset, Zenon
  <2>3. /\ Cardinality(In({"child"})) <= Cardinality(In(Spawning))
        /\ Cardinality(In({"child"})) \in Nat /\ Cardinality(In(Spawning)) \in Nat
    BY <2>1, <2>2, FS_Subset, FS_CardinalityType, Zenon
  <2>4. CASE In(Held) = {}
    <3>1. Cardinality(In({"child"})) = 0 /\ Cardinality(In(Spawning)) = 0
      <4>1. In({"child"}) = {} /\ In(Spawning) = {}
        BY <2>1, <2>4, Zenon
      <4>2. QED
        BY <4>1, FS_EmptySet, Zenon
    <3>2. /\ pc # "dead" => spawnInflight = 0 /\ spawnTotal = provisioned + 0
          /\ spawnTotal \in 0..MaxTotalSpawns /\ provisioned \in 0..spawnTotal
      BY <3>1, Zenon DEF Control, Counters
    <3>3. QED
      BY <2>1, <3>1, <3>2, Bounds DEF SpawnCaps
  <2>5. CASE In(Held) # {}
    <3>1. pc \notin {"over", "dead"}
      BY <2>5, Zenon DEF Control, Gate, Serving
    <3>2. /\ spawnInflight = Cardinality(In(Spawning)) /\ spawnTotal = provisioned + Cardinality(In({"child"}))
          /\ spawnInflight \in 0..MaxParallel
          /\ spawnTotal \in 0..MaxTotalSpawns /\ provisioned \in 0..spawnTotal
      BY <3>1, Zenon DEF Control, Counters
    <3>3. QED
      BY <2>1, <2>3, <3>1, <3>2, Bounds DEF SpawnCaps
  <2>6. QED
    BY <2>4, <2>5, Zenon
<1>2. QED
  BY <1>1, ControlInvariance, PTL

-----------------------------------------------------------------------------
(* The ledger: a write leaves its events alone, or adds the one.            *)

Keeps == disk'.events = disk.events /\ disk'.tail \in {disk.tail, "damaged"}
Adds(e) == disk.tail = "clean" /\ disk'.events = Append(disk.events, e) /\ disk'.tail \in {"clean", "ahead"}

(* What a write that is confirmed did. *)
Confirms(e) == IF disk.tail = "clean" THEN Adds(e) /\ disk'.tail = "clean" ELSE disk'.tail = "damaged"

LEMMA WriteCases ==
  ASSUME LedgerTypes, NEW e \in Ev, NEW ok \in BOOLEAN, Write(e, ok)
  PROVE  /\ LedgerTypes' /\ (faults' = 0 => ok /\ faults = 0)
         /\ Keeps \/ Adds(e)
         /\ ok => Confirms(e)
<1>1. disk \in Disk /\ disk.events \in Seq(Ev) /\ disk.tail \in {"clean", "ahead", "damaged"} /\ faults \in Nat
  BY DEF LedgerTypes, Disk
<1>2. Append(disk.events, e) \in Seq(Ev)
  BY <1>1
<1>3. CASE ok
  <2>1. disk' = WithLine(disk, e) /\ faults' = faults
    BY <1>3, Zenon DEF Write
  <2>2. CASE disk.tail = "clean"
    <3>1. disk' = [disk EXCEPT !.events = Append(disk.events, e)]
      BY <2>1, <2>2 DEF WithLine
    <3>2. disk' \in Disk /\ disk'.events = Append(disk.events, e) /\ disk'.tail = "clean"
      BY <1>1, <1>2, <2>2, <3>1, Zenon DEF Disk
    <3>3. QED
      BY <1>1, <1>3, <2>1, <2>2, <3>2, Zenon DEF LedgerTypes, Adds, Confirms
  <2>3. CASE disk.tail # "clean"
    <3>1. disk' = [disk EXCEPT !.tail = "damaged"]
      BY <2>1, <2>3, Zenon DEF WithLine
    <3>2. disk' \in Disk /\ disk'.events = disk.events /\ disk'.tail = "damaged"
      BY <1>1, <3>1 DEF Disk
    <3>3. QED
      BY <1>1, <1>3, <2>1, <2>3, <3>2, Zenon DEF LedgerTypes, Keeps, Confirms
  <2>4. QED
    BY <2>2, <2>3, Zenon
<1>4. CASE ~ok
  <2>1. faults' = faults + 1 /\ disk' \in {disk, [disk EXCEPT !.tail = "damaged"], Unconfirmed(disk, e)}
    BY <1>4, Zenon DEF Write, Fault
  <2>2. faults' \in Nat /\ faults' # 0
    BY <1>1, <2>1
  <2>3. disk' \in Disk /\ (Keeps \/ Adds(e))
    <3>1. CASE disk' = disk
      BY <1>1, <3>1, Zenon DEF Keeps
    <3>2. CASE disk' = [disk EXCEPT !.tail = "damaged"]
      BY <1>1, <3>2 DEF Keeps, Disk
    <3>3. CASE disk' = Unconfirmed(disk, e)
      <4>1. CASE disk.tail = "clean"
        <5>1. disk' = [events |-> Append(disk.events, e), tail |-> "ahead"]
          BY <3>3, <4>1, Zenon DEF Unconfirmed
        <5>2. QED
          BY <1>2, <4>1, <5>1 DEF Adds, Disk
      <4>2. CASE disk.tail # "clean"
        <5>1. disk' = [disk EXCEPT !.tail = "damaged"]
          BY <3>3, <4>2, Zenon DEF Unconfirmed
        <5>2. QED
          BY <1>1, <5>1 DEF Keeps, Disk
      <4>3. QED
        BY <4>1, <4>2, Zenon
    <3>4. QED
      BY <2>1, <3>1, <3>2, <3>3, Zenon
  <2>4. QED
    BY <1>4, <2>2, <2>3, Zenon DEF LedgerTypes
<1>5. QED
  BY <1>3, <1>4, Zenon

LEMMA EmitCases ==
  ASSUME LedgerTypes, logErr \in BOOLEAN, NEW e \in Ev, emit(e)
  PROVE  /\ LedgerTypes' /\ (logErr => logErr' /\ disk' = disk) /\ (faults' = 0 => faults = 0)
         /\ Keeps \/ Adds(e)
         /\ ~logErr' => ~logErr /\ Confirms(e)
         /\ faults' = 0 /\ ~logErr => ~logErr'
<1>1. CASE logErr
  <2>1. UNCHANGED <<disk, logErr, faults>>
    BY <1>1, Zenon DEF emit, ledger
  <2>2. QED
    BY <1>1, <2>1, Zenon DEF LedgerTypes, Keeps
<1>2. CASE ~logErr
  <2>1. PICK ok \in BOOLEAN : Write(e, ok) /\ logErr' = ~ok
    BY <1>2, Zenon DEF emit
  <2>2. /\ LedgerTypes' /\ (faults' = 0 => ok /\ faults = 0)
        /\ Keeps \/ Adds(e)
        /\ ok => Confirms(e)
    BY <2>1, WriteCases, Zenon
  <2>3. QED
    BY <1>2, <2>1, <2>2, Zenon
<1>3. QED
  BY <1>1, <1>2, Zenon

LEMMA Grown ==
  ASSUME LedgerTypes, NEW e \in Ev, Adds(e)
  PROVE  LET n == Len(disk.events)
         IN  /\ n \in Nat /\ disk.events \in Seq(Ev) /\ disk'.events \in Seq(Ev)
             /\ DOMAIN disk.events = 1..n /\ DOMAIN disk'.events = 1..(n + 1) /\ Len(disk'.events) = n + 1
             /\ n + 1 \in DOMAIN disk'.events /\ n + 1 \notin DOMAIN disk.events /\ disk'.events[n + 1] = e
             /\ \A k \in DOMAIN disk.events : k \in DOMAIN disk'.events /\ disk'.events[k] = disk.events[k]
             /\ \A k \in DOMAIN disk'.events : k \in DOMAIN disk.events \/ k = n + 1
<1>1. disk.events \in Seq(Ev) /\ disk'.events = Append(disk.events, e)
  BY DEF LedgerTypes, Disk, Adds
<1>2. QED
  BY <1>1

-----------------------------------------------------------------------------
(* The events.                                                              *)

LEMMA EventFields ==
  ASSUME NEW type \in EventTypes, NEW step \in Nat
  PROVE  /\ Event(type, step) \in Ev /\ Event(type, step).type = type
         /\ Event(type, step).step = step /\ Event(type, step).call = "none"
<1>1. NoStep \in Nat /\ NoCount \in Int /\ "" \in Statuses \cup {"", "none"} /\ "none" \in Calls \cup {"none"}
  BY DEF NoStep, NoCount
<1>2. QED
  BY <1>1 DEF Event, Ev

LEMMA StartedEvent ==
  LET e == [Event("workflow_started", NoStep) EXCEPT !.marker = TRUE]
  IN  e \in Ev /\ e.type = "workflow_started" /\ e.call = "none" /\ e.marker = TRUE
<1> DEFINE f == Event("workflow_started", NoStep)
<1>1. f \in Ev /\ f.type = "workflow_started" /\ f.call = "none"
  <2>1. "workflow_started" \in EventTypes /\ NoStep \in Nat
    BY DEF EventTypes, NoStep
  <2>2. QED
    BY <2>1, EventFields, Zenon
<1> HIDE DEF f
<1>2. LET e == [f EXCEPT !.marker = TRUE]
      IN  e \in Ev /\ e.type = "workflow_started" /\ e.call = "none" /\ e.marker = TRUE
  BY <1>1, Zenon DEF Ev
<1>3. QED
  BY <1>2, Zenon DEF f

LEMMA TerminalEvent ==
  ASSUME NEW ok \in BOOLEAN, NEW n \in Nat, i \in Nat
  PROVE  /\ StepTerminal(ok, n) \in Ev /\ StepTerminal(ok, n).step = i
         /\ (ok => StepTerminal(ok, n).type = "step_succeeded") /\ (~ok => StepTerminal(ok, n).type = "step_failed")
         /\ StepTerminal(ok, n).doors = n /\ StepTerminal(ok, n).call = "none"
<1> DEFINE type == IF ok THEN "step_succeeded" ELSE "step_failed"
           f == Event(type, i)
<1>1. type \in EventTypes
  BY DEF EventTypes, StepTerminals
<1> HIDE DEF type
<1>2. f \in Ev /\ f.type = type /\ f.step = i /\ f.call = "none"
  BY <1>1, EventFields, Zenon
<1> HIDE DEF f
<1>3. LET e == [f EXCEPT !.doors = n]
      IN  e \in Ev /\ e.type = type /\ e.step = i /\ e.doors = n /\ e.call = "none"
  <2>1. n \in Int
    OBVIOUS
  <2>2. QED
    BY <1>2, <2>1, Zenon DEF Ev
<1>4. StepTerminal(ok, n) = [f EXCEPT !.doors = n]
  BY Zenon DEF StepTerminal, f, type
<1>5. QED
  BY <1>3, <1>4, Zenon DEF type

LEMMA BouncedEvent ==
  ASSUME NEW t \in Nat, i \in Nat
  PROVE  LET e == [Event("bounced_back", i) EXCEPT !.target = t]
         IN  e \in Ev /\ e.type = "bounced_back" /\ e.step = i /\ e.target = t /\ e.call = "none"
<1> DEFINE f == Event("bounced_back", i)
<1>1. f \in Ev /\ f.type = "bounced_back" /\ f.step = i /\ f.call = "none"
  <2>1. "bounced_back" \in EventTypes
    BY DEF EventTypes
  <2>2. QED
    BY <2>1, EventFields, Zenon
<1> HIDE DEF f
<1>2. LET e == [f EXCEPT !.target = t]
      IN  e \in Ev /\ e.type = "bounced_back" /\ e.step = i /\ e.target = t /\ e.call = "none"
  BY <1>1, Zenon DEF Ev
<1>3. QED
  BY <1>2, Zenon DEF f

LEMMA FinishedEvent ==
  ASSUME fin \in Statuses \cup {"none"}
  PROVE  LET e == [Event("workflow_finished", NoStep) EXCEPT !.status = fin]
         IN  e \in Ev /\ e.type = "workflow_finished" /\ e.status = fin /\ e.call = "none"
<1> DEFINE f == Event("workflow_finished", NoStep)
<1>1. f \in Ev /\ f.type = "workflow_finished" /\ f.call = "none"
  <2>1. "workflow_finished" \in EventTypes /\ NoStep \in Nat
    BY DEF EventTypes, NoStep
  <2>2. f \in Ev
    BY <2>1, EventFields, Zenon
  <2>3. f.type = "workflow_finished" /\ f.call = "none"
    BY <2>1, EventFields, Zenon
  <2>4. QED
    BY <2>2, <2>3, Zenon
<1> HIDE DEF f
<1>2. LET e == [f EXCEPT !.status = fin]
      IN  e \in Ev /\ e.type = "workflow_finished" /\ e.status = fin /\ e.call = "none"
  BY <1>1, Zenon DEF Ev
<1>3. QED
  BY <1>2, Zenon DEF f

DoorEvent(c) == [Event("door", call[c].step) EXCEPT !.call = c]

LEMMA DoorFields ==
  ASSUME NEW c \in Calls, call[c].step \in Nat
  PROVE  DoorEvent(c) \in Ev /\ DoorEvent(c).type = "door" /\ DoorEvent(c).call = c
<1> DEFINE f == Event("door", call[c].step)
<1>1. f \in Ev /\ f.type = "door"
  <2>1. "door" \in EventTypes
    BY DEF EventTypes
  <2>2. QED
    BY <2>1, EventFields, Zenon
<1> HIDE DEF f
<1>2. LET e == [f EXCEPT !.call = c] IN e \in Ev /\ e.type = "door" /\ e.call = c
  BY <1>1, Zenon DEF Ev
<1>3. QED
  BY <1>2, Zenon DEF f, DoorEvent

-----------------------------------------------------------------------------
(* The door events of the ledger.                                           *)

Book == LedgerTypes /\ Entries /\ Ended

(* Steps that leave the events alone. *)
LEMMA EntriesSame ==
  ASSUME Entries, admitted \subseteq Calls, disk'.events = disk.events,
         admitted \subseteq admitted', admitted' \subseteq Calls,
         \A c \in Calls : call'[c].at \in Unwritten => call[c].at \in Unwritten \/ c \notin admitted
  PROVE  Entries'
<1>1. \A c \in Calls \ admitted : \A k \in DOMAIN disk.events : disk.events[k].call # c
  <2> SUFFICES ASSUME NEW c \in Calls \ admitted, NEW k \in DOMAIN disk.events, disk.events[k].call = c
               PROVE  FALSE
    BY Zenon
  <2>1. disk.events[k].call = "none"
    BY Zenon DEF Entries
  <2>2. QED
    BY <2>1, FiniteCalls, Zenon
<1>2. \A k \in DOMAIN disk.events : disk.events[k].type = "door" <=> disk.events[k].call \in admitted'
  <2> SUFFICES ASSUME NEW k \in DOMAIN disk.events
               PROVE  disk.events[k].type = "door" <=> disk.events[k].call \in admitted'
    BY Zenon
  <2>1. disk.events[k].type = "door" <=> disk.events[k].call \in admitted
    BY Zenon DEF Entries
  <2>2. disk.events[k].call \in admitted' => disk.events[k].call \in admitted
    BY <1>1, Zenon
  <2>3. QED
    BY <2>1, <2>2, Zenon
<1>3. \A c \in Calls : call'[c].at \in Unwritten => \A k \in DOMAIN disk.events : disk.events[k].call # c
  BY <1>1, Zenon DEF Entries
<1>4. QED
  BY <1>2, <1>3, Zenon DEF Entries

(* A lifecycle event. *)
LEMMA EntriesNote ==
  ASSUME LedgerTypes, Entries, admitted \subseteq Calls, NEW e \in Ev, e.type # "door", e.call = "none", Adds(e),
         UNCHANGED <<call, admitted>>
  PROVE  Entries' /\ Missing' = Missing
<1> DEFINE n == Len(disk.events)
<1>1. /\ n + 1 \in DOMAIN disk'.events /\ n + 1 \notin DOMAIN disk.events /\ disk'.events[n + 1] = e
      /\ \A k \in DOMAIN disk.events : k \in DOMAIN disk'.events /\ disk'.events[k] = disk.events[k]
      /\ \A k \in DOMAIN disk'.events : k \in DOMAIN disk.events \/ k = n + 1
  BY Grown, Zenon
<1> HIDE DEF n
<1>2. "none" \notin admitted /\ "none" \notin Calls
  BY FiniteCalls, Zenon
<1>3. \A k \in DOMAIN disk'.events :
        /\ disk'.events[k].type = "door" <=> disk'.events[k].call \in admitted
        /\ disk'.events[k].type # "door" => disk'.events[k].call = "none"
  <2>1. \A k \in DOMAIN disk.events :
          /\ disk.events[k].type = "door" <=> disk.events[k].call \in admitted
          /\ disk.events[k].type # "door" => disk.events[k].call = "none"
    BY Zenon DEF Entries
  <2>2. SUFFICES ASSUME NEW k \in DOMAIN disk'.events
                 PROVE  /\ disk'.events[k].type = "door" <=> disk'.events[k].call \in admitted
                        /\ disk'.events[k].type # "door" => disk'.events[k].call = "none"
    BY Zenon
  <2>3. CASE k \in DOMAIN disk.events
    BY <1>1, <2>1, <2>3, Zenon
  <2>4. CASE k = n + 1
    BY <1>1, <1>2, <2>4, Zenon
  <2>5. QED
    BY <1>1, <2>3, <2>4, Zenon
<1>4. \A k, l \in DOMAIN disk'.events :
        disk'.events[k].call = disk'.events[l].call /\ disk'.events[k].type = "door" => k = l
  <2> SUFFICES ASSUME NEW k \in DOMAIN disk'.events, NEW l \in DOMAIN disk'.events,
                      disk'.events[k].call = disk'.events[l].call, disk'.events[k].type = "door"
               PROVE  k = l
    BY Zenon
  <2>1. disk'.events[k].call \in admitted
    BY <1>3, Zenon
  <2>2. k # n + 1 /\ l # n + 1
    BY <1>1, <1>2, <2>1, Zenon
  <2>3. k \in DOMAIN disk.events /\ l \in DOMAIN disk.events /\ disk'.events[k] = disk.events[k]
        /\ disk'.events[l] = disk.events[l]
    BY <1>1, <2>2, Zenon
  <2>4. QED
    BY <2>3, Zenon DEF Entries
<1>5. \A c \in Calls : (\A k \in DOMAIN disk'.events : disk'.events[k].call # c)
                         <=> (\A k \in DOMAIN disk.events : disk.events[k].call # c)
  BY <1>1, <1>2, Zenon
<1>6. Entries'
  BY <1>3, <1>4, <1>5, Zenon DEF Entries
<1>7. QED
  BY <1>5, <1>6, Zenon DEF Missing

(* A door event. *)
LEMMA EntriesDoor ==
  ASSUME LedgerTypes, Entries, admitted \subseteq Calls, NEW c \in admitted, NEW e \in Ev,
         e.type = "door", e.call = c, Adds(e), admitted' = admitted,
         \A k \in DOMAIN disk.events : disk.events[k].call # c,
         \A d \in Calls : call'[d].at \in Unwritten => d # c /\ call[d].at \in Unwritten
  PROVE  Entries' /\ Missing' = Missing \ {c} /\ c \in Missing
<1> DEFINE n == Len(disk.events)
<1>1. /\ n + 1 \in DOMAIN disk'.events /\ n + 1 \notin DOMAIN disk.events /\ disk'.events[n + 1] = e
      /\ \A k \in DOMAIN disk.events : k \in DOMAIN disk'.events /\ disk'.events[k] = disk.events[k]
      /\ \A k \in DOMAIN disk'.events : k \in DOMAIN disk.events \/ k = n + 1
  BY Grown, Zenon
<1> HIDE DEF n
<1>2. \A k \in DOMAIN disk'.events :
        /\ disk'.events[k].type = "door" <=> disk'.events[k].call \in admitted
        /\ disk'.events[k].type # "door" => disk'.events[k].call = "none"
  <2>1. \A k \in DOMAIN disk.events :
          /\ disk.events[k].type = "door" <=> disk.events[k].call \in admitted
          /\ disk.events[k].type # "door" => disk.events[k].call = "none"
    BY Zenon DEF Entries
  <2>2. SUFFICES ASSUME NEW k \in DOMAIN disk'.events
                 PROVE  /\ disk'.events[k].type = "door" <=> disk'.events[k].call \in admitted
                        /\ disk'.events[k].type # "door" => disk'.events[k].call = "none"
    BY Zenon
  <2>3. CASE k \in DOMAIN disk.events
    <3>1. disk'.events[k] = disk.events[k]
      BY <1>1, <2>3, Zenon
    <3>2. QED
      BY <2>1, <2>3, <3>1, Zenon
  <2>4. CASE k = n + 1
    BY <1>1, <2>4, Zenon
  <2>5. QED
    BY <1>1, <2>3, <2>4, Zenon
<1>3. \A k, l \in DOMAIN disk'.events :
        disk'.events[k].call = disk'.events[l].call /\ disk'.events[k].type = "door" => k = l
  <2> SUFFICES ASSUME NEW k \in DOMAIN disk'.events, NEW l \in DOMAIN disk'.events,
                      disk'.events[k].call = disk'.events[l].call, disk'.events[k].type = "door"
               PROVE  k = l
    BY Zenon
  <2>1. CASE k = n + 1 \/ l = n + 1
    <3>1. disk'.events[k].call = c /\ disk'.events[l].call = c
      BY <1>1, <2>1, Zenon
    <3>2. k \notin DOMAIN disk.events /\ l \notin DOMAIN disk.events
      BY <1>1, <3>1, Zenon
    <3>3. QED
      BY <1>1, <3>2, Zenon
  <2>2. CASE k # n + 1 /\ l # n + 1
    <3>1. k \in DOMAIN disk.events /\ l \in DOMAIN disk.events /\ disk'.events[k] = disk.events[k]
          /\ disk'.events[l] = disk.events[l]
      BY <1>1, <2>2, Zenon
    <3>2. QED
      BY <3>1, Zenon DEF Entries
  <2>3. QED
    BY <2>1, <2>2, Zenon
<1>4. \A d \in Calls : d # c => ((\A k \in DOMAIN disk'.events : disk'.events[k].call # d)
                                  <=> (\A k \in DOMAIN disk.events : disk.events[k].call # d))
  <2> SUFFICES ASSUME NEW d \in Calls, d # c
               PROVE  (\A k \in DOMAIN disk'.events : disk'.events[k].call # d)
                        <=> (\A k \in DOMAIN disk.events : disk.events[k].call # d)
    BY Zenon
  <2>1. ASSUME \A k \in DOMAIN disk.events : disk.events[k].call # d, NEW k \in DOMAIN disk'.events
        PROVE  disk'.events[k].call # d
    <3>1. CASE k \in DOMAIN disk.events
      BY <1>1, <2>1, <3>1, Zenon
    <3>2. CASE k = n + 1
      BY <1>1, <3>2, Zenon
    <3>3. QED
      BY <1>1, <3>1, <3>2, Zenon
  <2>2. ASSUME \A k \in DOMAIN disk'.events : disk'.events[k].call # d, NEW k \in DOMAIN disk.events
        PROVE  disk.events[k].call # d
    <3>1. k \in DOMAIN disk'.events /\ disk'.events[k] = disk.events[k]
      BY <1>1, Zenon
    <3>2. QED
      BY <2>2, <3>1, Zenon
  <2>3. QED
    BY <2>1, <2>2, Zenon
<1>5. Entries'
  BY <1>2, <1>3, <1>4, Zenon DEF Entries
<1>6. \E k \in DOMAIN disk'.events : disk'.events[k].call = c
  BY <1>1, Zenon
<1>7. Missing' = Missing \ {c}
  <2>1. ASSUME NEW d PROVE d \in Missing' <=> d \in Missing /\ d # c
    <3>1. CASE d = c
      BY <1>6, <3>1, Zenon DEF Missing
    <3>2. CASE d # c
      BY <1>4, <3>2, Zenon DEF Missing
    <3>3. QED
      BY <3>1, <3>2, Zenon
  <2>2. QED
    BY <2>1, Zenon
<1>8. QED
  BY <1>5, <1>7, Zenon DEF Missing

(* What Run writes. *)
Note(e) ==
  /\ e \in Ev /\ e.type # "door" /\ e.call = "none" /\ emit(e)
  /\ e.type \in {"workflow_finished", "run_refused"} => pc' = "over"

LEMMA RefuseNote ==
  ASSUME Refuse
  PROVE  Note(Event("run_refused", NoStep)) /\ Event("run_refused", NoStep).type = "run_refused"
<1>1. "run_refused" \in EventTypes /\ NoStep \in Nat
  BY DEF EventTypes, NoStep
<1>2. /\ Event("run_refused", NoStep) \in Ev /\ Event("run_refused", NoStep).type = "run_refused"
      /\ Event("run_refused", NoStep).call = "none"
  BY <1>1, EventFields, Zenon
<1>3. QED
  BY <1>2, Zenon DEF Refuse, Returns, Note

LEMMA BeginNote ==
  ASSUME Begin
  PROVE  LET e == [Event("workflow_started", NoStep) EXCEPT !.marker = TRUE]
         IN  Note(e) /\ e.type = "workflow_started" /\ e.marker = TRUE
BY StartedEvent, Zenon DEF Begin, Note

LEMMA StartNote ==
  ASSUME Control, StartStep
  PROVE  LET e == Event("step_started", i) IN Note(e) /\ e.type = "step_started" /\ e.step = i
<1>1. "step_started" \in EventTypes /\ i \in Nat
  BY Workflow DEF EventTypes, Control, EngineTypes
<1>2. /\ Event("step_started", i) \in Ev /\ Event("step_started", i).type = "step_started"
      /\ Event("step_started", i).call = "none" /\ Event("step_started", i).step = i
  BY <1>1, EventFields, Zenon
<1>3. QED
  BY <1>2, Zenon DEF StartStep, Note

LEMMA TerminalNote ==
  ASSUME Control, NEW ok \in BOOLEAN, NEW n \in Nat, emit(StepTerminal(ok, n))
  PROVE  /\ Note(StepTerminal(ok, n)) /\ StepTerminal(ok, n).step = i /\ StepTerminal(ok, n).doors = n
         /\ (ok => StepTerminal(ok, n).type = "step_succeeded") /\ (~ok => StepTerminal(ok, n).type = "step_failed")
         /\ StepTerminal(ok, n).type \in StepTerminals
<1>1. i \in Nat
  BY Workflow DEF Control, EngineTypes
<1>2. /\ StepTerminal(ok, n) \in Ev /\ StepTerminal(ok, n).step = i
      /\ (ok => StepTerminal(ok, n).type = "step_succeeded") /\ (~ok => StepTerminal(ok, n).type = "step_failed")
      /\ StepTerminal(ok, n).doors = n /\ StepTerminal(ok, n).call = "none"
  <2>1. StepTerminal(ok, n) \in Ev /\ StepTerminal(ok, n).step = i
    BY <1>1, TerminalEvent, Zenon
  <2>2. (ok => StepTerminal(ok, n).type = "step_succeeded") /\ (~ok => StepTerminal(ok, n).type = "step_failed")
    BY <1>1, TerminalEvent, Zenon
  <2>3. StepTerminal(ok, n).doors = n
    BY <1>1, TerminalEvent, Zenon
  <2>4. StepTerminal(ok, n).call = "none"
    BY <1>1, TerminalEvent, SMT
  <2>5. QED
    BY <2>1, <2>2, <2>3, <2>4, Zenon
<1>3. StepTerminal(ok, n).type \in StepTerminals
  BY <1>2, Zenon DEF StepTerminals
<1>4. StepTerminal(ok, n).type \notin {"door", "workflow_finished", "run_refused"}
  BY <1>3, Zenon DEF StepTerminals
<1>5. QED
  BY <1>2, <1>3, <1>4, Zenon DEF Note

LEMMA BounceNote ==
  ASSUME Control, Bounce
  PROVE  LET e == [Event("bounced_back", i) EXCEPT !.target = Target]
         IN  /\ Note(e) /\ e.type = "bounced_back" /\ e.step = i /\ e.target = Target
             /\ Target \in 1..N /\ Target < i
<1>1. pc = "failed" /\ "failed" \in AtAStep /\ Target # NoStep
  BY Zenon DEF Bounce, AtAStep, Exhausted
<1>2. i \in 1..N /\ N \in Nat
  BY <1>1, Workflow, Zenon DEF Control, Gate
<1>3. Target \in 0..N /\ Target < i
  BY <1>2, BounceTarget, Zenon DEF Control
<1>4. Target \in 1..N /\ Target \in Nat /\ i \in Nat
  BY <1>1, <1>2, <1>3 DEF NoStep
<1>5. QED
  BY <1>3, <1>4, BouncedEvent, Zenon DEF Bounce, Note

LEMMA FinishNote ==
  ASSUME Control, Finish
  PROVE  LET e == [Event("workflow_finished", NoStep) EXCEPT !.status = fin]
         IN  Note(e) /\ e.type = "workflow_finished" /\ e.status = fin
<1>1. fin \in Statuses \cup {"none"}
  BY Zenon DEF Control, EngineTypes
<1>2. QED
  BY <1>1, FinishedEvent, Zenon DEF Finish, Returns, Note

LEMMA EngineKinds ==
  ASSUME Control, Engine
  PROVE  /\ UNCHANGED <<wf, ctx, call, admitted>>
         /\ pc \in Running /\ pc' \in (Running \cup {"over"}) \ {"open"}
         /\ UNCHANGED ledger \/ \E e : Note(e)
<1>1. i \in Nat /\ counted \in Nat /\ fin \in Statuses \cup {"none"} /\ (pc \in AtAStep => i \in 1..N)
  BY Workflow DEF Control, EngineTypes, Gate
<1>2. CASE OpenFails \/ LedgerFailed \/ Between \/ GatewayStart \/ Execute \/ StopClose \/ StopWait \/ GiveUp
  <2>1. UNCHANGED <<wf, ctx, call, admitted, ledger>>
    BY <1>2, Zenon DEF OpenFails, LedgerFailed, Between, GatewayStart, Execute, StopClose, StopWait, GiveUp, history
  <2>2. pc \in Running
    BY <1>2, Zenon DEF OpenFails, LedgerFailed, Between, GatewayStart, Execute, StopClose, StopWait, GiveUp, Running
  <2>3. pc' \in {"over", "end", "begin", "exec", "stop", "finish", "wait"}
    <3>1. i > N \/ i <= N
      BY <1>1, Workflow DEF Control
    <3>2. Between => pc' \in {"end", "begin"}
      BY <3>1, Zenon DEF Between, Goto, Control, EngineTypes
    <3>3. QED
      BY <1>2, <3>2, Zenon DEF OpenFails, LedgerFailed, GatewayStart, Execute, StopClose, StopWait, GiveUp,
                               Goto, Returns
  <2>4. QED
    BY <2>1, <2>2, <2>3, Zenon DEF Running
<1>3. CASE Refuse
  BY <1>3, RefuseNote, Zenon DEF Refuse, Returns, Running, history
<1>4. CASE Begin
  BY <1>4, BeginNote, Zenon DEF Begin, Goto, Running, history
<1>5. CASE StartStep
  BY <1>5, StartNote, Zenon DEF StartStep, Goto, Running, history
<1>6. CASE GatewayStartFails \/ StepSucceeds \/ StepFailsRun \/ StepFails
  <2>1. PICK ok \in BOOLEAN, n \in Nat : emit(StepTerminal(ok, n))
    <3>1. 0 \in Nat
      OBVIOUS
    <3>2. QED
      BY <1>1, <1>6, <3>1, Zenon DEF GatewayStartFails, StepSucceeds, StepFailsRun, StepFails
  <2>2. Note(StepTerminal(ok, n))
    BY <2>1, TerminalNote, Zenon
  <2>3. UNCHANGED <<wf, ctx, call, admitted>> /\ pc \in Running /\ pc' \in (Running \cup {"over"}) \ {"open"}
    BY <1>6, Zenon DEF GatewayStartFails, StepSucceeds, StepFailsRun, StepFails, Goto, Running, history
  <2>4. QED
    BY <2>2, <2>3, Zenon
<1>7. CASE Bounce
  BY <1>7, BounceNote, Zenon DEF Bounce, Goto, Running, history
<1>8. CASE Finish
  BY <1>8, FinishNote, Zenon DEF Finish, Returns, Running, history
<1>9. QED
  BY <1>2, <1>3, <1>4, <1>5, <1>6, <1>7, <1>8, Zenon DEF Engine

LEMMA EngineBook ==
  ASSUME Control, Book, Engine
  PROVE  Book'
<1>1. /\ UNCHANGED <<call, admitted>> /\ pc \in Running /\ pc' # "open"
      /\ admitted \subseteq Calls /\ logErr \in BOOLEAN /\ LedgerTypes /\ Entries /\ Ended
  BY EngineKinds, Zenon DEF Control, EngineTypes, GatewayTypes, Book
<1>2. \A k \in DOMAIN disk.events : disk.events[k].type \notin {"workflow_finished", "run_refused"}
  BY <1>1, Zenon DEF Ended, Running
<1>3. ASSUME disk'.events = disk.events, LedgerTypes' PROVE Book'
  <2>1. Entries'
    BY <1>1, <1>3, EntriesSame, Zenon
  <2>2. Ended'
    BY <1>1, <1>2, <1>3, Zenon DEF Ended
  <2>3. QED
    BY <1>3, <2>1, <2>2, Zenon DEF Book
<1>4. CASE UNCHANGED ledger
  BY <1>1, <1>3, <1>4, Zenon DEF LedgerTypes, ledger
<1>5. ASSUME NEW e, Note(e) PROVE Book'
  <2>1. e \in Ev /\ e.type # "door" /\ e.call = "none" /\ emit(e)
        /\ (e.type \in {"workflow_finished", "run_refused"} => pc' = "over")
    BY <1>5, Zenon DEF Note
  <2>2. LedgerTypes' /\ (Keeps \/ Adds(e))
    BY <1>1, <2>1, EmitCases, Zenon
  <2>3. CASE Keeps
    BY <1>3, <2>2, <2>3, Zenon DEF Keeps
  <2>4. CASE Adds(e)
    <3>1. Entries'
      BY <1>1, <2>1, <2>4, EntriesNote, Zenon
    <3>2. Ended'
      <4>1. /\ \A k \in DOMAIN disk'.events : k \in DOMAIN disk.events \/ k = Len(disk.events) + 1
            /\ disk'.events[Len(disk.events) + 1] = e
            /\ \A k \in DOMAIN disk.events : disk'.events[k] = disk.events[k]
        BY <1>1, <2>1, <2>4, Grown, Zenon
      <4>2. \A k \in DOMAIN disk'.events : disk'.events[k].type \in {"workflow_finished", "run_refused"} => pc' = "over"
        BY <1>2, <2>1, <4>1, Zenon
      <4>3. QED
        BY <1>1, <4>2, Zenon DEF Ended
    <3>3. QED
      BY <2>2, <3>1, <3>2, Zenon DEF Book
  <2>5. QED
    BY <2>2, <2>3, <2>4, Zenon
<1>6. QED
  BY <1>4, <1>5, EngineKinds, Zenon

(* A door's append. *)
LEMMA AppendCases ==
  ASSUME Control, Book, NEW c \in Calls, NEW l, Appends(c, l)
  PROVE  /\ LedgerTypes' /\ (faults' = 0 => faults = 0)
         /\ Keeps \/ Adds(DoorEvent(c))
         /\ faults' = 0 => Confirms(DoorEvent(c))
         /\ disk'.tail = "clean" => disk.tail = "clean"
         /\ DoorEvent(c) \in Ev /\ DoorEvent(c).type = "door" /\ DoorEvent(c).call = c
         /\ c \in admitted /\ call[c].at \in Unwritten /\ i \in 1..N
         /\ pc \in {"exec", "stop", "wait"} /\ (Serving \/ pc = "wait")
         /\ UNCHANGED <<wf, engine, ctx, gateway, history, logErr>>
         /\ l \notin Unwritten /\ call'[c].at = l /\ \A d \in Calls \ {c} : call'[d] = call[d]
<1>1. /\ call[c].at \in Unwritten /\ l \in {"release", "recorded", "giveback"} /\ At(c, l)
      /\ appendEvent(c) /\ UNCHANGED <<wf, engine, ctx, gateway, history, logErr>>
  BY Zenon DEF Appends, appendEvent
<1>2. l \in Places /\ l \notin Unwritten /\ call[c].at \in Held
  BY <1>1, Zenon DEF Places, Held, Unwritten
<1>3. call'[c].at = l /\ \A d \in Calls \ {c} : call'[d] = call[d]
  BY <1>1, <1>2, Move, Zenon DEF Control
<1>4. c \in admitted /\ (Serving \/ pc = "wait") /\ pc \in {"exec", "stop", "wait"} /\ i \in 1..N
  BY <1>2, HeldIsServed, Zenon
<1>5. call[c].step \in Nat
  BY DEF Control, GatewayTypes, Call
<1>6. DoorEvent(c) \in Ev /\ DoorEvent(c).type = "door" /\ DoorEvent(c).call = c
  BY <1>5, DoorFields, Zenon
<1>7. PICK ok \in BOOLEAN : Write(DoorEvent(c), ok)
  BY <1>1, Zenon DEF appendEvent, DoorEvent
<1>8. /\ LedgerTypes' /\ (faults' = 0 => ok /\ faults = 0)
      /\ Keeps \/ Adds(DoorEvent(c))
      /\ ok => Confirms(DoorEvent(c))
  BY <1>6, <1>7, WriteCases, Zenon DEF Book
<1>9. disk'.tail = "clean" => disk.tail = "clean"
  BY <1>8, Zenon DEF Keeps, Adds
<1>10. QED
  BY <1>1, <1>2, <1>3, <1>4, <1>6, <1>8, <1>9, Zenon

LEMMA AppendBook ==
  ASSUME Control, Book, NEW c \in Calls, NEW l, Appends(c, l)
  PROVE  Book' /\ (Adds(DoorEvent(c)) => Missing' = Missing \ {c} /\ c \in Missing)
<1>1. /\ LedgerTypes' /\ (Keeps \/ Adds(DoorEvent(c)))
      /\ DoorEvent(c) \in Ev /\ DoorEvent(c).type = "door" /\ DoorEvent(c).call = c
      /\ c \in admitted /\ call[c].at \in Unwritten /\ pc \in {"exec", "stop", "wait"}
      /\ UNCHANGED <<engine, history>>
      /\ l \notin Unwritten /\ call'[c].at = l /\ \A d \in Calls \ {c} : call'[d] = call[d]
  BY AppendCases, Zenon
<1>2. LedgerTypes /\ Entries /\ Ended /\ admitted \subseteq Calls /\ admitted' = admitted /\ pc' = pc
  BY <1>1, Zenon DEF Control, GatewayTypes, Book, engine, history
<1>3. \A d \in Calls : call'[d].at \in Unwritten => d # c /\ call[d].at \in Unwritten
  BY <1>1, Zenon
<1>4. \A k \in DOMAIN disk.events : disk.events[k].type \notin {"workflow_finished", "run_refused"}
  BY <1>1, <1>2, Zenon DEF Ended
<1>5. CASE Keeps
  <2>1. Entries'
    BY <1>2, <1>3, <1>5, EntriesSame, Zenon DEF Keeps
  <2>2. Ended'
    BY <1>1, <1>2, <1>4, <1>5, Zenon DEF Ended, Keeps
  <2>3. ~Adds(DoorEvent(c))
    <3>1. disk.events \in Seq(Ev) /\ disk'.events = disk.events
      BY <1>2, <1>5 DEF LedgerTypes, Disk, Keeps
    <3>2. QED
      BY <1>1, <1>2, <3>1, Grown, Zenon
  <2>4. QED
    BY <1>1, <2>1, <2>2, <2>3, Zenon DEF Book
<1>6. CASE Adds(DoorEvent(c))
  <2>1. \A k \in DOMAIN disk.events : disk.events[k].call # c
    BY <1>1, <1>2, Zenon DEF Entries
  <2>2. Entries' /\ Missing' = Missing \ {c} /\ c \in Missing
    BY <1>1, <1>2, <1>3, <1>6, <2>1, EntriesDoor, Zenon
  <2>3. Ended'
    <3>1. /\ \A k \in DOMAIN disk'.events : k \in DOMAIN disk.events \/ k = Len(disk.events) + 1
          /\ disk'.events[Len(disk.events) + 1] = DoorEvent(c)
          /\ \A k \in DOMAIN disk.events : disk'.events[k] = disk.events[k]
      BY <1>1, <1>2, <1>6, Grown, Zenon
    <3>2. \A k \in DOMAIN disk'.events : disk'.events[k].type \notin {"workflow_finished", "run_refused"}
      BY <1>1, <1>4, <3>1, Zenon
    <3>3. QED
      BY <1>1, <1>2, <3>2, Zenon DEF Ended
  <2>4. QED
    BY <1>1, <2>2, <2>3, Zenon DEF Book
<1>7. QED
  BY <1>1, <1>5, <1>6, Zenon

(* The steps at the doors that write nothing. *)
Silent ==
  /\ UNCHANGED <<wf, engine, ledger, ctx>>
  /\ admitted \subseteq admitted' /\ admitted' \subseteq Calls
  /\ \A c \in Calls : call'[c].at \in Unwritten => call[c].at \in Unwritten \/ c \notin admitted
  /\ \A c \in Calls : call[c].at \in Unwritten => call'[c].at \in Unwritten
  /\ \A c \in admitted' \ admitted : call'[c].at \in Unwritten /\ ~closing
  /\ \/ admitted' = admitted /\ doorCalls' = doorCalls
     \/ doorCalls' = doorCalls + 1 /\ \E c \in Calls \ admitted : admitted' = admitted \cup {c}

LEMMA DoorSilent ==
  ASSUME Control, NEW c \in Calls, Door(c)
  PROVE  Silent \/ \E l : Appends(c, l)
<1>1. admitted \subseteq Calls
  BY Zenon DEF Control, GatewayTypes
<1>2. ASSUME NEW l \in Places, At(c, l), l \in Unwritten <=> call[c].at \in Unwritten,
             UNCHANGED <<wf, engine, ledger, ctx, admitted, doorCalls>>
      PROVE  Silent
  <2>1. call'[c].at = l /\ \A d \in Calls \ {c} : call'[d] = call[d]
    BY <1>2, Move, Zenon DEF Control
  <2>2. \A d \in Calls : call'[d].at \in Unwritten <=> call[d].at \in Unwritten
    BY <1>2, <2>1, Zenon
  <2>3. QED
    BY <1>1, <1>2, <2>2, Zenon DEF Silent
<1>3. CASE admit(c)
  <2>1. CASE closing
    <3>1. At(c, "done") /\ UNCHANGED <<wf, engine, ledger, ctx, admitted, doorCalls>> /\ call[c].at = "arrived"
      BY <1>3, <2>1, Zenon DEF admit
    <3>2. "done" \in Places /\ "done" \notin Unwritten /\ "arrived" \notin Unwritten
      BY DEF Places, Unwritten
    <3>3. QED
      BY <1>2, <3>1, <3>2, Zenon
  <2>2. CASE ~closing
    <3>1. At(c, "door") /\ UNCHANGED <<wf, engine, ledger, ctx>> /\ call[c].at = "arrived"
          /\ doorCalls' = doorCalls + 1 /\ admitted' = admitted \cup {c}
      BY <1>3, <2>2, Zenon DEF admit
    <3>2. "door" \in Places /\ "door" \in Unwritten /\ "arrived" \notin Unwritten
      BY DEF Places, Held, Unwritten
    <3>3. call'[c].at = "door" /\ \A d \in Calls \ {c} : call'[d] = call[d]
      BY <3>1, <3>2, Move, Zenon DEF Control
    <3>4. c \notin admitted
      BY <3>1, Zenon DEF Control, Gate
    <3>5. admitted \subseteq admitted' /\ admitted' \subseteq Calls
      BY <1>1, <3>1, Zenon
    <3>6. \A d \in Calls : /\ call'[d].at \in Unwritten => call[d].at \in Unwritten \/ d \notin admitted
                           /\ call[d].at \in Unwritten => call'[d].at \in Unwritten
      BY <3>1, <3>2, <3>3, <3>4, Zenon
    <3>7. \A d \in admitted' \ admitted : call'[d].at \in Unwritten /\ ~closing
      BY <2>2, <3>1, <3>2, <3>3, Zenon
    <3>8. QED
      BY <3>1, <3>4, <3>5, <3>6, <3>7, Zenon DEF Silent
  <2>3. QED
    BY <2>1, <2>2, Zenon
<1>4. CASE Reserve(c)
  <2>1. /\ At(c, "child") /\ call[c].at = "door" /\ UNCHANGED <<wf, engine, ledger, ctx, admitted, doorCalls>>
    BY <1>4, Zenon DEF Reserve, InDoor, history
  <2>2. "child" \in Places /\ "child" \in Unwritten /\ "door" \in Unwritten
    BY DEF Places, Held, Unwritten
  <2>3. QED
    BY <1>2, <2>1, <2>2, Zenon
<1>5. CASE SpawnReturns(c)
  <2>1. /\ At(c, "spawned") /\ call[c].at = "child" /\ UNCHANGED <<wf, engine, ledger, ctx, admitted, doorCalls>>
    BY <1>5, Zenon DEF SpawnReturns
  <2>2. "spawned" \in Places /\ "child" \in Unwritten /\ "spawned" \in Unwritten
    BY DEF Places, Held, Unwritten
  <2>3. QED
    BY <1>2, <2>1, <2>2, Zenon
<1>6. CASE GiveBack(c)
  <2>1. /\ At(c, "release") /\ call[c].at = "giveback" /\ UNCHANGED <<wf, engine, ledger, ctx, admitted, doorCalls>>
    BY <1>6, Zenon DEF GiveBack, history
  <2>2. "release" \in Places /\ "release" \notin Unwritten /\ "giveback" \notin Unwritten
    BY DEF Places, Held, Unwritten
  <2>3. QED
    BY <1>2, <2>1, <2>2, Zenon
<1>7. CASE release(c)
  <2>1. /\ At(c, "done") /\ call[c].at = "release" /\ UNCHANGED <<wf, engine, ledger, ctx, admitted, doorCalls>>
    BY <1>7, Zenon DEF release, history
  <2>2. "done" \in Places /\ "release" \notin Unwritten /\ "done" \notin Unwritten
    BY DEF Places, Held, Unwritten
  <2>3. QED
    BY <1>2, <2>1, <2>2, Zenon
<1>8. ASSUME NEW l, Passes(c, l) PROVE Silent
  <2>1. /\ At(c, l) /\ l \in Places /\ (l \in Unwritten <=> call[c].at \in Unwritten)
        /\ UNCHANGED <<wf, engine, ledger, ctx, admitted, doorCalls>>
    BY <1>8, Zenon DEF Passes, Places, gateway, history
  <2>2. QED
    BY <1>2, <2>1, Zenon
<1>9. QED
  BY <1>3, <1>4, <1>5, <1>6, <1>7, <1>8, DoorKinds, Zenon

LEMMA ArriveSilent ==
  ASSUME Control, NEW c \in Calls, NEW d \in Doors, Arrive(c, d)
  PROVE  Silent
<1>1. /\ call[c].at = "idle" /\ call' = [call EXCEPT ![c] = [at |-> "arrived", door |-> d, step |-> i]]
      /\ UNCHANGED <<wf, engine, ledger, ctx, admitted, doorCalls>> /\ call \in [Calls -> Call]
      /\ admitted \subseteq Calls
  BY Zenon DEF Arrive, gateway, history, Control, GatewayTypes
<1>2. call'[c].at = "arrived" /\ \A b \in Calls \ {c} : call'[b] = call[b]
  BY <1>1
<1>3. \A b \in Calls : call'[b].at \in Unwritten <=> call[b].at \in Unwritten
  BY <1>1, <1>2, Zenon DEF Unwritten
<1>4. QED
  BY <1>1, <1>3, Zenon DEF Silent

LEMMA SilentBook ==
  ASSUME Control, Book, Silent
  PROVE  Book'
<1>1. LedgerTypes /\ Entries /\ Ended /\ admitted \subseteq Calls
  BY Zenon DEF Control, GatewayTypes, Book
<1>2. UNCHANGED <<disk, logErr, faults, pc>>
  BY Zenon DEF Silent, ledger, engine
<1>3. Entries'
  BY <1>1, <1>2, EntriesSame, Zenon DEF Silent
<1>4. QED
  BY <1>1, <1>2, <1>3, Zenon DEF Book, LedgerTypes, Ended

LEMMA CrashBook ==
  ASSUME Control, Book, Crash
  PROVE  Book' /\ Missing' = Missing
<1>1. /\ disk' \in {disk, [disk EXCEPT !.tail = "damaged"]} /\ faults' = faults + 1 /\ pc' = "dead" /\ pc \in Running
      /\ UNCHANGED <<logErr, history>> /\ call' = [c \in Calls |-> [call[c] EXCEPT !.at = "done"]]
  BY Zenon DEF Crash, Fault
<1>2. LedgerTypes /\ Entries /\ Ended /\ admitted \subseteq Calls /\ admitted' = admitted
  BY <1>1, Zenon DEF Control, GatewayTypes, Book, history
<1>3. disk' \in Disk /\ disk'.events = disk.events /\ faults' \in Nat
  BY <1>1, <1>2 DEF LedgerTypes, Disk
<1>4. \A c \in Calls : call'[c].at \notin Unwritten
  <2>1. \A c \in Calls : call'[c].at = "done"
    BY <1>1 DEF Control, GatewayTypes, Call
  <2>2. QED
    BY <2>1, Zenon DEF Unwritten
<1>5. Entries'
  BY <1>2, <1>3, <1>4, EntriesSame, Zenon
<1>6. Ended'
  BY <1>1, <1>2, <1>3, Zenon DEF Ended, Running
<1>7. Missing' = Missing
  BY <1>2, <1>3, Zenon DEF Missing
<1>8. QED
  BY <1>3, <1>5, <1>6, <1>7, Zenon DEF Book, LedgerTypes

LEMMA InitBook ==
  ASSUME Init
  PROVE  Book
<1>1. disk.events = <<>> /\ disk.tail = "clean" /\ logErr = FALSE /\ pc = "open"
  BY DEF Init
<1>2. LedgerTypes
  BY DEF Init, LedgerTypes, Disk
<1>3. DOMAIN disk.events = {}
  BY <1>1
<1>4. Entries /\ Ended
  BY <1>1, <1>3, Zenon DEF Entries, Ended
<1>5. QED
  BY <1>2, <1>4, Zenon DEF Book

LEMMA BookStep ==
  ASSUME Control, Book, [Next]_vars
  PROVE  Book'
<1>1. CASE Engine
  BY <1>1, EngineBook, Zenon
<1>2. CASE \E c \in Calls : Door(c) \/ \E d \in Doors : Arrive(c, d)
  BY <1>2, DoorSilent, ArriveSilent, SilentBook, AppendBook, Zenon
<1>3. CASE Cancel \/ UNCHANGED vars
  <2>1. UNCHANGED <<disk, logErr, faults, pc, call, admitted>>
    BY <1>3, Zenon DEF Cancel, vars, engine, ledger, history
  <2>2. LedgerTypes' /\ Ended'
    BY <2>1, Zenon DEF Book, LedgerTypes, Ended
  <2>3. Entries'
    BY <2>1, Zenon DEF Book, Entries
  <2>4. QED
    BY <2>2, <2>3, Zenon DEF Book
<1>4. QED
  BY <1>1, <1>2, <1>3, CrashBook, Zenon DEF Next

-----------------------------------------------------------------------------
(* Where Run starts, and while it writes.                                   *)

(* Before Run's first event nothing has happened. *)
Opening == pc = "open" => i = 1 /\ admitted = {} /\ \A s \in DOMAIN wf : bounces[s] = 0

(* Run writes on, to a ledger that takes its lines. *)
Walking == pc \in Running \ {"open"} /\ disk.tail = "clean" /\ ~logErr

InStep == {"start", "exec", "stop", "wait", "finish"}

LEMMA OpeningStep ==
  ASSUME Control, Control', Opening, [Next]_vars
  PROVE  Opening'
<1> SUFFICES ASSUME pc' = "open" PROVE Opening'
  BY Zenon DEF Opening
<1>1. CASE Engine
  BY <1>1, EngineKinds, Zenon
<1>2. ASSUME UNCHANGED <<wf, engine>>, admitted' = admitted PROVE Opening'
  BY <1>2, Zenon DEF Opening, engine
<1>3. ASSUME Silent PROVE Opening'
  <2>1. UNCHANGED <<wf, engine>>
    BY <1>3, Zenon DEF Silent
  <2>2. admitted' = admitted
    <3> SUFFICES ASSUME NEW c \in admitted' \ admitted PROVE FALSE
      BY <1>3, Zenon DEF Silent
    <3>1. In(Held)' # {}
      BY <1>3, Zenon DEF Silent, In, Held, Unwritten
    <3>2. QED
      BY <3>1, Zenon DEF Control, Gate, Serving
  <2>3. QED
    BY <1>2, <2>1, <2>2, Zenon
<1>4. CASE \E c \in Calls : Door(c) \/ \E d \in Doors : Arrive(c, d)
  <2>1. ASSUME NEW c \in Calls, NEW l, Appends(c, l) PROVE Opening'
    BY <1>2, <2>1, Zenon DEF Appends, history
  <2>2. QED
    BY <1>3, <1>4, <2>1, DoorSilent, ArriveSilent, Zenon
<1>5. CASE Cancel \/ UNCHANGED vars
  BY <1>2, <1>5, Zenon DEF Cancel, vars, history
<1>6. CASE Crash
  BY <1>6, Zenon DEF Crash
<1>7. QED
  BY <1>1, <1>4, <1>5, <1>6, Zenon DEF Next

(* What Run and its doors have written is theirs: the door events are the  *)
(* admitted calls' own, each at most once, the lifecycle events Run's, and *)
(* a terminal event Run's last (Run's emit and the doors' appendEvent).    *)
THEOREM BookInvariance == Spec => [](Book /\ Opening)
<1>1. Init => Book /\ Opening
  <2> SUFFICES ASSUME Init PROVE Book /\ Opening
    OBVIOUS
  <2>1. i = 1 /\ admitted = {} /\ bounces = [k \in DOMAIN wf |-> 0]
    BY DEF Init
  <2>2. Opening
    BY <2>1, Zenon DEF Opening
  <2>3. QED
    BY <2>2, InitBook, Zenon
<1>2. Control /\ Control' /\ Book /\ Opening /\ [Next]_vars => Book' /\ Opening'
  BY BookStep, OpeningStep, Zenon
<1>3. QED
  BY <1>1, <1>2, ControlInvariance, PTL DEF Spec

-----------------------------------------------------------------------------
(* The walk: what a run has on its disk is a walk of its workflow. Below is *)
(* the inductive invariant of that argument, which rests on the two above.  *)

(* The last lifecycle event says where Run is: at p, at step k of n, about *)
(* to finish with f.                                                       *)
Fits(e, p, k, f, n) ==
  /\ p \in {"top", "begin"} =>
       \/ e.type = "workflow_started" /\ k = 1
       \/ e.type = "step_succeeded" /\ k = e.step + 1
       \/ e.type = "bounced_back" /\ k = e.target /\ k <= n
  /\ p \in InStep => e.type = "step_started" /\ e.step = k
  /\ p = "failed" => e.type = "step_failed" /\ e.step = k
  /\ p = "end" /\ f = "succeeded" => e.type = "step_succeeded" /\ e.step = n

Trail ==
  \E j \in DOMAIN disk.events :
    Precedes(disk.events, j, Len(disk.events) + 1) /\ Fits(disk.events[j], pc, i, fin, N)

Followed(es, n) ==
  \A k \in DOMAIN es : es[k].type \notin {"door", "workflow_started", "run_refused"} =>
    \E j \in 1..(k - 1) : Precedes(es, j, k) /\ MayFollow(es[j], es[k], n)

Failed(s) == Cardinality(FailuresOf(disk.events, s))

Bounces ==
  \A s \in DOMAIN wf :
    /\ IsFiniteSet(FailuresOf(disk.events, s)) /\ Failed(s) <= CapOf(s) + 1
    /\ pc \in Running \ {"end"} =>
         /\ bounces[s] <= CapOf(s)
         /\ Failed(s) <= IF pc = "failed" /\ s = i THEN bounces[s] + 1 ELSE bounces[s]

Path == (Walking => Trail) /\ Followed(disk.events, N) /\ Bounces

-----------------------------------------------------------------------------
(* The walk, an event at a time.                                            *)

LEMMA PrecedesAppend ==
  ASSUME NEW es \in Seq(Ev), NEW e \in Ev
  PROVE  /\ \A k \in DOMAIN es : \A j \in 1..(k - 1) : Precedes(es, j, k) => Precedes(Append(es, e), j, k)
         /\ \A j \in DOMAIN es : Precedes(es, j, Len(es) + 1) =>
              /\ Precedes(Append(es, e), j, Len(es) + 1)
              /\ e.type = "door" => Precedes(Append(es, e), j, (Len(es) + 1) + 1)
         /\ e.type # "door" => Precedes(Append(es, e), Len(es) + 1, (Len(es) + 1) + 1)
<1> DEFINE fs == Append(es, e)
           n == Len(es)
<1>1. n \in Nat /\ DOMAIN es = 1..n /\ fs[n + 1] = e /\ \A k \in 1..n : fs[k] = es[k]
  OBVIOUS
<1> HIDE DEF fs, n
<1>2. ASSUME NEW k \in 1..(n + 1), NEW j \in 1..(k - 1), Precedes(es, j, k) PROVE Precedes(fs, j, k)
  <2>1. j \in 1..n /\ \A m \in (j + 1)..(k - 1) : m \in 1..n
    BY <1>1
  <2>2. QED
    BY <1>1, <1>2, <2>1, Zenon DEF Precedes
<1>3. ASSUME NEW j \in 1..n, Precedes(es, j, n + 1), e.type = "door" PROVE Precedes(fs, j, (n + 1) + 1)
  <2>1. \A m \in (j + 1)..(((n + 1) + 1) - 1) : m = n + 1 \/ (m \in (j + 1)..((n + 1) - 1) /\ m \in 1..n)
    BY <1>1
  <2>2. QED
    BY <1>1, <1>3, <2>1, Zenon DEF Precedes
<1>4. ASSUME e.type # "door" PROVE Precedes(fs, n + 1, (n + 1) + 1)
  <2>1. \A m \in ((n + 1) + 1)..(((n + 1) + 1) - 1) : FALSE
    BY <1>1
  <2>2. QED
    BY <1>1, <1>4, <2>1, Zenon DEF Precedes
<1>5. /\ \A k \in 1..n : k \in 1..(n + 1)
      /\ \A j \in 1..n : j \in 1..((n + 1) - 1) /\ n + 1 \in 1..(n + 1)
  BY <1>1
<1>6. QED
  BY <1>1, <1>2, <1>3, <1>4, <1>5, Zenon DEF fs, n

LEMMA FollowedAppend ==
  ASSUME NEW es \in Seq(Ev), NEW e \in Ev, NEW n, Followed(es, n),
         e.type \notin {"door", "workflow_started", "run_refused"} =>
           \E j \in DOMAIN es : Precedes(es, j, Len(es) + 1) /\ MayFollow(es[j], e, n)
  PROVE  Followed(Append(es, e), n)
<1> DEFINE fs == Append(es, e)
           l == Len(es)
<1>1. /\ l \in Nat /\ DOMAIN es = 1..l /\ DOMAIN fs = 1..(l + 1) /\ fs[l + 1] = e
      /\ \A k \in 1..l : fs[k] = es[k]
      /\ \A k \in 1..(l + 1) : k \in 1..l \/ k = l + 1
      /\ \A k \in 1..l : \A j \in 1..(k - 1) : j \in 1..l
      /\ (l + 1) - 1 = l
  OBVIOUS
<1>2. /\ \A k \in DOMAIN es : \A j \in 1..(k - 1) : Precedes(es, j, k) => Precedes(fs, j, k)
      /\ \A j \in DOMAIN es : Precedes(es, j, l + 1) => Precedes(fs, j, l + 1)
  BY PrecedesAppend, Zenon
<1> HIDE DEF fs, l
<1>3. SUFFICES ASSUME NEW k \in DOMAIN fs, fs[k].type \notin {"door", "workflow_started", "run_refused"}
               PROVE  \E j \in 1..(k - 1) : Precedes(fs, j, k) /\ MayFollow(fs[j], fs[k], n)
  BY Zenon DEF Followed, fs
<1>4. CASE k \in 1..l
  <2>1. fs[k] = es[k]
    BY <1>1, <1>4, Zenon
  <2>2. PICK j \in 1..(k - 1) : Precedes(es, j, k) /\ MayFollow(es[j], es[k], n)
    BY <1>1, <1>3, <1>4, <2>1, Zenon DEF Followed
  <2>3. j \in 1..l /\ fs[j] = es[j] /\ Precedes(fs, j, k)
    BY <1>1, <1>2, <1>4, <2>2, Zenon
  <2>4. QED
    BY <2>1, <2>2, <2>3, Zenon
<1>5. CASE k = l + 1
  <2>1. fs[k] = e
    BY <1>1, <1>5, Zenon
  <2>2. PICK j \in DOMAIN es : Precedes(es, j, l + 1) /\ MayFollow(es[j], e, n)
    BY <1>3, <2>1, Zenon DEF l
  <2>3. j \in 1..(k - 1) /\ fs[j] = es[j] /\ Precedes(fs, j, k)
    BY <1>1, <1>2, <1>5, <2>2, Zenon
  <2>4. QED
    BY <2>1, <2>2, <2>3, Zenon
<1>6. QED
  BY <1>1, <1>4, <1>5, Zenon

(* What Run writes, when it may follow whatever fits where Run is. *)
LEMMA NotePath ==
  ASSUME Control, Book, Walking => Trail, Followed(disk.events, N), NEW e, Note(e), wf' = wf,
         e.type \notin {"workflow_started", "run_refused"} =>
           pc \in Running \ {"open"} /\ \A p \in Ev : Fits(p, pc, i, fin, N) => MayFollow(p, e, N),
         pc' # "over" => Fits(e, pc', i', fin', N)
  PROVE  Followed(disk'.events, N) /\ (Walking' => Trail')
<1>1. /\ e \in Ev /\ e.type # "door" /\ emit(e) /\ LedgerTypes /\ logErr \in BOOLEAN
      /\ N' = N
  BY Zenon DEF Note, Book, Control, EngineTypes, N
<1>2. /\ Keeps \/ Adds(e)
      /\ logErr => disk' = disk
      /\ ~logErr' => ~logErr /\ Confirms(e)
  BY <1>1, EmitCases, Zenon
<1>3. disk.events \in Seq(Ev)
  BY <1>1 DEF LedgerTypes, Disk
<1>4. Followed(disk'.events, N)
  <2>1. CASE Keeps
    BY <2>1, Zenon DEF Keeps
  <2>2. CASE Adds(e)
    <3>1. disk.tail = "clean" /\ ~logErr /\ disk'.events = Append(disk.events, e)
      BY <1>1, <1>2, <2>2, Grown, Zenon DEF Adds
    <3>2. ASSUME e.type \notin {"door", "workflow_started", "run_refused"}
          PROVE  \E j \in DOMAIN disk.events :
                   Precedes(disk.events, j, Len(disk.events) + 1) /\ MayFollow(disk.events[j], e, N)
      <4>1. e.type \notin {"workflow_started", "run_refused"}
        BY <3>2, Zenon
      <4>2. Walking
        BY <3>1, <4>1, Zenon DEF Walking
      <4>3. PICK j \in DOMAIN disk.events :
              Precedes(disk.events, j, Len(disk.events) + 1) /\ Fits(disk.events[j], pc, i, fin, N)
        BY <4>2, Zenon DEF Trail
      <4>4. disk.events[j] \in Ev
        BY <1>3, <4>3
      <4>5. QED
        BY <4>1, <4>3, <4>4, Zenon
    <3>3. QED
      BY <1>1, <1>3, <3>1, <3>2, FollowedAppend, Zenon
  <2>3. QED
    BY <1>2, <2>1, <2>2, Zenon
<1>5. ASSUME Walking' PROVE Trail'
  <2>1. disk'.tail = "clean" /\ ~logErr' /\ pc' # "over"
    BY <1>5, Zenon DEF Walking, Running
  <2>2. Adds(e)
    BY <1>2, <2>1, Zenon DEF Confirms
  <2>3. disk'.events = Append(disk.events, e)
    BY <2>2, Zenon DEF Adds
  <2>4. Precedes(disk'.events, Len(disk.events) + 1, (Len(disk.events) + 1) + 1)
    BY <1>1, <1>3, <2>3, PrecedesAppend, Zenon
  <2>5. /\ Len(disk.events) + 1 \in DOMAIN disk'.events /\ disk'.events[Len(disk.events) + 1] = e
        /\ Len(disk'.events) = Len(disk.events) + 1
    BY <1>1, <2>2, Grown, Zenon
  <2>6. QED
    BY <1>1, <2>1, <2>4, <2>5, Zenon DEF Trail
<1>6. QED
  BY <1>4, <1>5, Zenon

(* What leaves the events alone. *)
LEMMA SamePath ==
  ASSUME Walking => Trail, Followed(disk.events, N), wf' = wf, disk'.events = disk.events,
         Walking' => Walking /\ \A e \in Ev : Fits(e, pc, i, fin, N) => Fits(e, pc', i', fin', N),
         disk.events \in Seq(Ev)
  PROVE  Followed(disk'.events, N) /\ (Walking' => Trail')
<1>1. N' = N
  BY Zenon DEF N
<1>2. ASSUME Walking' PROVE Trail'
  <2>1. PICK j \in DOMAIN disk.events :
          Precedes(disk.events, j, Len(disk.events) + 1) /\ Fits(disk.events[j], pc, i, fin, N)
    BY <1>2, Zenon DEF Trail
  <2>2. disk.events[j] \in Ev
    BY <2>1
  <2>3. Fits(disk.events[j], pc', i', fin', N')
    BY <1>1, <1>2, <2>1, <2>2, Zenon
  <2>4. QED
    BY <2>1, <2>3, Zenon DEF Trail
<1>3. QED
  BY <1>2, Zenon

LEMMA EnginePath ==
  ASSUME Control, Control', Book, Opening, Walking => Trail, Followed(disk.events, N), Engine
  PROVE  Followed(disk'.events, N) /\ (Walking' => Trail')
<1>1. /\ wf' = wf /\ N \in Nat /\ i \in 1..(N + 1) /\ i \in Nat /\ N # 0 /\ disk.events \in Seq(Ev)
      /\ \A e \in Ev : e.step \in Nat /\ e.target \in Nat
  <2>1. wf' = wf /\ N \in Nat /\ N # 0 /\ i \in 1..(N + 1)
    BY EngineKinds, Workflow, Zenon DEF Control, EngineTypes
  <2>2. disk.events \in Seq(Ev) /\ \A e \in Ev : e.step \in Nat /\ e.target \in Nat
    BY Zenon DEF Book, LedgerTypes, Disk, Ev
  <2>3. QED
    BY <2>1, <2>2
<1>2. CASE OpenFails \/ LedgerFailed
  <2>1. disk' = disk /\ ~Walking'
    BY <1>2, Zenon DEF OpenFails, LedgerFailed, Returns, ledger, Walking, Running
  <2>2. QED
    BY <1>1, <2>1, SamePath, Zenon
<1>3. CASE GatewayStart \/ Execute \/ StopClose \/ StopWait
  <2>1. disk' = disk /\ pc \in InStep /\ pc' \in InStep /\ i' = i /\ logErr' = logErr
    BY <1>3, Zenon DEF GatewayStart, Execute, StopClose, StopWait, Goto, ledger, InStep
  <2>2. Walking' => Walking
    BY <2>1, Zenon DEF Walking, Running, InStep
  <2>3. \A e \in Ev : Fits(e, pc, i, fin, N) => Fits(e, pc', i', fin', N)
    BY <2>1, Zenon DEF Fits, InStep
  <2>4. QED
    BY <1>1, <2>1, <2>2, <2>3, SamePath, Zenon
<1>4. CASE Between
  <2>1. disk' = disk /\ pc = "top" /\ i' = i /\ logErr' = logErr
    BY <1>4, Zenon DEF Between, ledger
  <2>2. Walking' => Walking
    BY <2>1, Zenon DEF Walking, Running
  <2>3. i > N \/ (i <= N /\ ctx) \/ (i <= N /\ ~ctx)
    BY <1>1
  <2>4. \/ i > N /\ pc' = "end" /\ fin' = "succeeded"
        \/ pc' = "end" /\ fin' = "cancelled"
        \/ pc' = "begin"
    BY <1>4, <2>3, Zenon DEF Between, Goto
  <2>5. ASSUME NEW e \in Ev, Fits(e, "top", i, fin, N) PROVE Fits(e, pc', i, fin', N)
    <3>1. \/ e.type = "workflow_started" /\ i = 1
          \/ e.type = "step_succeeded" /\ i = e.step + 1
          \/ e.type = "bounced_back" /\ i = e.target /\ i <= N
      BY <2>5, Zenon DEF Fits
    <3>2. CASE i > N /\ pc' = "end" /\ fin' = "succeeded"
      <4>1. e.type = "step_succeeded" /\ e.step = N
        BY <1>1, <3>1, <3>2
      <4>2. QED
        BY <3>2, <4>1, Zenon DEF Fits, InStep
    <3>3. CASE pc' = "end" /\ fin' = "cancelled"
      BY <3>3, Zenon DEF Fits, InStep
    <3>4. CASE pc' = "begin"
      BY <3>1, <3>4, Zenon DEF Fits, InStep
    <3>5. QED
      BY <2>4, <3>2, <3>3, <3>4, Zenon
  <2>6. QED
    BY <1>1, <2>1, <2>2, <2>5, SamePath, Zenon
<1>5. CASE GiveUp
  <2>1. disk' = disk /\ pc = "failed" /\ logErr' = logErr /\ pc' = "end" /\ fin' \in {"cancelled", "failed"}
    BY <1>5, Zenon DEF GiveUp, Goto, ledger
  <2>2. Walking' => Walking
    BY <2>1, Zenon DEF Walking, Running
  <2>3. \A e \in Ev : Fits(e, pc', i', fin', N)
    BY <2>1, Zenon DEF Fits, InStep
  <2>4. QED
    BY <1>1, <2>1, <2>2, <2>3, SamePath, Zenon
<1>6. CASE Refuse
  <2> DEFINE e == Event("run_refused", NoStep)
  <2>1. Note(e) /\ e.type = "run_refused" /\ pc' = "over"
    BY <1>6, RefuseNote, Zenon DEF Refuse, Returns
  <2> HIDE DEF e
  <2>2. QED
    BY <1>1, <2>1, NotePath, Zenon
<1>7. CASE Begin
  <2> DEFINE e == [Event("workflow_started", NoStep) EXCEPT !.marker = TRUE]
  <2>1. Note(e) /\ e.type = "workflow_started" /\ pc' = "top" /\ i' = 1
    BY <1>7, BeginNote, Zenon DEF Begin, Goto, Opening
  <2> HIDE DEF e
  <2>2. Fits(e, pc', i', fin', N)
    BY <2>1, Zenon DEF Fits, InStep
  <2>3. QED
    BY <1>1, <2>1, <2>2, NotePath, Zenon
<1>8. CASE StartStep
  <2> DEFINE e == Event("step_started", i)
  <2>1. /\ Note(e) /\ e.type = "step_started" /\ e.step = i /\ pc = "begin" /\ pc' \in {"start", "exec"} /\ i' = i
        /\ pc \in Running \ {"open"}
    BY <1>8, StartNote, Zenon DEF StartStep, Goto, Running
  <2> HIDE DEF e
  <2>2. ASSUME NEW p \in Ev, Fits(p, pc, i, fin, N) PROVE MayFollow(p, e, N)
    BY <2>1, <2>2, Zenon DEF Fits, InStep, MayFollow, StepTerminals
  <2>3. Fits(e, pc', i', fin', N)
    BY <2>1, Zenon DEF Fits, InStep
  <2>4. QED
    BY <1>1, <2>1, <2>2, <2>3, NotePath, Zenon
<1>9. CASE GatewayStartFails \/ StepSucceeds \/ StepFailsRun \/ StepFails
  <2>1. PICK ok \in BOOLEAN, n \in Nat :
          /\ emit(StepTerminal(ok, n)) /\ pc \in {"start", "finish"} /\ pc \in Running \ {"open"}
          /\ \/ ok /\ pc' = "top" /\ i' = i + 1
             \/ ~ok /\ pc' = "end" /\ fin' = "failed"
             \/ ~ok /\ pc' = "failed" /\ i' = i
    <3>1. TRUE \in BOOLEAN /\ FALSE \in BOOLEAN /\ 0 \in Nat /\ counted \in Nat
      BY DEF Control, EngineTypes
    <3>2. pc \in {"start", "finish"}
      BY <1>9, Zenon DEF GatewayStartFails, StepSucceeds, StepFailsRun, StepFails
    <3>3. pc \in Running \ {"open"}
      BY <3>2, Zenon DEF Running
    <3>4. CASE GatewayStartFails \/ StepFailsRun \/ StepFails
      <4>1. /\ emit(StepTerminal(FALSE, 0)) \/ emit(StepTerminal(FALSE, counted))
            /\ (pc' = "end" /\ fin' = "failed") \/ (pc' = "failed" /\ i' = i)
        BY <3>4, Zenon DEF GatewayStartFails, StepFailsRun, StepFails, Goto
      <4>2. QED
        BY <3>1, <3>2, <3>3, <4>1, Zenon
    <3>5. CASE StepSucceeds
      <4>1. emit(StepTerminal(TRUE, counted)) /\ pc' = "top" /\ i' = i + 1
        BY <3>5, Zenon DEF StepSucceeds, Goto
      <4>2. QED
        BY <3>1, <3>2, <3>3, <4>1, Zenon
    <3>6. QED
      BY <1>9, <3>4, <3>5, Zenon
  <2> DEFINE e == StepTerminal(ok, n)
  <2>2. /\ Note(e) /\ e.step = i /\ e.type \in StepTerminals
        /\ (ok => e.type = "step_succeeded") /\ (~ok => e.type = "step_failed")
    BY <2>1, TerminalNote, Zenon
  <2> HIDE DEF e
  <2>3. ASSUME NEW p \in Ev, Fits(p, pc, i, fin, N) PROVE MayFollow(p, e, N)
    <3>1. p.type = "step_started" /\ p.step = i
      BY <2>1, <2>3, Zenon DEF Fits, InStep
    <3>2. QED
      BY <2>2, <3>1, Zenon DEF MayFollow, StepTerminals
  <2>4. Fits(e, pc', i', fin', N)
    BY <2>1, <2>2, Zenon DEF Fits, InStep
  <2>5. QED
    BY <1>1, <2>1, <2>2, <2>3, <2>4, NotePath, Zenon
<1>10. CASE Bounce
  <2> DEFINE e == [Event("bounced_back", i) EXCEPT !.target = Target]
  <2>1. Note(e) /\ e.type = "bounced_back" /\ e.step = i /\ e.target = Target /\ Target \in 1..N /\ Target < i
    BY <1>10, BounceNote, Zenon
  <2> HIDE DEF e
  <2>2. pc = "failed" /\ pc' = "top" /\ i' = Target /\ pc \in Running \ {"open"}
    BY <1>10, Zenon DEF Bounce, Goto, Running
  <2>3. ASSUME NEW p \in Ev, Fits(p, pc, i, fin, N) PROVE MayFollow(p, e, N)
    <3>1. p.type = "step_failed" /\ p.step = i
      BY <2>2, <2>3, Zenon DEF Fits
    <3>2. QED
      BY <2>1, <3>1, Zenon DEF MayFollow, StepTerminals
  <2>4. Target <= N
    BY <1>1, <2>1
  <2>5. Fits(e, pc', i', fin', N)
    BY <2>1, <2>2, <2>4, Zenon DEF Fits, InStep
  <2>6. QED
    BY <1>1, <2>1, <2>2, <2>3, <2>5, NotePath, Zenon
<1>11. CASE Finish
  <2> DEFINE e == [Event("workflow_finished", NoStep) EXCEPT !.status = fin]
  <2>1. Note(e) /\ e.type = "workflow_finished" /\ e.status = fin
    BY <1>11, FinishNote, Zenon
  <2> HIDE DEF e
  <2>2. pc = "end" /\ pc' = "over" /\ pc \in Running \ {"open"}
    BY <1>11, Zenon DEF Finish, Returns, Running
  <2>3. ASSUME NEW p \in Ev, Fits(p, pc, i, fin, N) PROVE MayFollow(p, e, N)
    BY <2>1, <2>2, <2>3, Zenon DEF Fits, MayFollow, StepTerminals
  <2>4. QED
    BY <1>1, <2>1, <2>2, <2>3, NotePath, Zenon
<1>12. QED
  BY <1>2, <1>3, <1>4, <1>5, <1>6, <1>7, <1>8, <1>9, <1>10, <1>11, Zenon DEF Engine

LEMMA AppendPath ==
  ASSUME Control, Book, Walking => Trail, Followed(disk.events, N), NEW c \in Calls, NEW l, Appends(c, l)
  PROVE  Followed(disk'.events, N) /\ (Walking' => Trail')
<1>1. /\ Keeps \/ Adds(DoorEvent(c))
      /\ DoorEvent(c) \in Ev /\ DoorEvent(c).type = "door"
      /\ disk'.tail = "clean" => disk.tail = "clean"
      /\ UNCHANGED <<wf, engine, logErr>>
  BY AppendCases, Zenon
<1>2. pc' = pc /\ i' = i /\ fin' = fin /\ logErr' = logErr /\ wf' = wf /\ N' = N
  BY <1>1, Zenon DEF engine, N
<1>3. Walking' => Walking
  <2>1. disk'.tail = "clean" => disk.tail = "clean"
    BY <1>1, Zenon
  <2>2. QED
    BY <1>2, <2>1, Zenon DEF Walking
<1>4. disk.events \in Seq(Ev) /\ LedgerTypes
  BY DEF Book, LedgerTypes, Disk
<1>5. CASE Keeps
  <2>1. disk'.events = disk.events
    BY <1>5, Zenon DEF Keeps
  <2>2. \A e \in Ev : Fits(e, pc, i, fin, N) => Fits(e, pc', i', fin', N)
    BY <1>2, Zenon
  <2>3. QED
    BY <1>2, <1>3, <1>4, <2>1, <2>2, SamePath, Zenon
<1>6. CASE Adds(DoorEvent(c))
  <2>1. disk'.events = Append(disk.events, DoorEvent(c))
    BY <1>6, Zenon DEF Adds
  <2>2. Followed(disk'.events, N)
    BY <1>1, <1>4, <2>1, FollowedAppend, Zenon
  <2>3. ASSUME Walking' PROVE Trail'
    <3>1. PICK j \in DOMAIN disk.events :
            Precedes(disk.events, j, Len(disk.events) + 1) /\ Fits(disk.events[j], pc, i, fin, N)
      BY <1>3, <2>3, Zenon DEF Trail
    <3>2. Precedes(disk'.events, j, (Len(disk.events) + 1) + 1)
      BY <1>1, <1>4, <2>1, <3>1, PrecedesAppend, Zenon
    <3>3. j \in DOMAIN disk'.events /\ disk'.events[j] = disk.events[j] /\ Len(disk'.events) = Len(disk.events) + 1
      BY <1>1, <1>4, <1>6, <3>1, Grown, Zenon
    <3>4. QED
      BY <1>2, <3>1, <3>2, <3>3, Zenon DEF Trail
  <2>4. QED
    BY <2>2, <2>3, Zenon
<1>7. QED
  BY <1>1, <1>5, <1>6, Zenon

LEMMA PathStep ==
  ASSUME Control, Control', Book, Opening, Walking => Trail, Followed(disk.events, N), [Next]_vars
  PROVE  Followed(disk'.events, N') /\ (Walking' => Trail')
<1>1. disk.events \in Seq(Ev)
  BY DEF Book, LedgerTypes, Disk
<1>2. ASSUME UNCHANGED <<wf, engine, disk, logErr>> PROVE Followed(disk'.events, N) /\ (Walking' => Trail')
  <2>1. pc' = pc /\ i' = i /\ fin' = fin /\ logErr' = logErr /\ wf' = wf /\ disk' = disk
    BY <1>2, Zenon DEF engine
  <2>2. Walking' => Walking
    BY <2>1, Zenon DEF Walking
  <2>3. \A e \in Ev : Fits(e, pc, i, fin, N) => Fits(e, pc', i', fin', N)
    BY <2>1, Zenon
  <2>4. QED
    BY <1>1, <2>1, <2>2, <2>3, SamePath, Zenon
<1>3. CASE Engine
  <2>1. N' = N
    BY <1>3, EngineKinds, Zenon DEF N
  <2>2. QED
    BY <1>3, <2>1, EnginePath, Zenon
<1>4. CASE \E c \in Calls : Door(c) \/ \E d \in Doors : Arrive(c, d)
  <2>1. ASSUME Silent PROVE UNCHANGED <<wf, engine, disk, logErr>>
    BY <2>1, Zenon DEF Silent, ledger
  <2>2. ASSUME NEW c \in Calls, NEW l, Appends(c, l) PROVE wf' = wf
    BY <2>2, AppendCases, Zenon
  <2>3. N' = N
    BY <1>4, <2>1, <2>2, DoorSilent, ArriveSilent, Zenon DEF N
  <2>4. QED
    BY <1>2, <1>4, <2>1, <2>3, DoorSilent, ArriveSilent, AppendPath, Zenon
<1>5. CASE Cancel \/ UNCHANGED vars
  <2>1. UNCHANGED <<wf, engine, disk, logErr>>
    BY <1>5, Zenon DEF Cancel, vars, ledger
  <2>2. N' = N
    BY <2>1, Zenon DEF N
  <2>3. QED
    BY <1>2, <2>1, <2>2, Zenon
<1>6. CASE Crash
  <2>1. disk' \in {disk, [disk EXCEPT !.tail = "damaged"]} /\ wf' = wf /\ ~Walking' /\ disk \in Disk
    BY <1>6, Zenon DEF Crash, Walking, Running, Book, LedgerTypes
  <2>2. disk'.events = disk.events /\ N' = N
    BY <2>1 DEF Disk, N
  <2>3. QED
    BY <1>1, <2>1, <2>2, SamePath, Zenon
<1>7. QED
  BY <1>3, <1>4, <1>5, <1>6, Zenon DEF Next

LEMMA FailuresAppend ==
  ASSUME NEW es \in Seq(Ev), NEW e \in Ev, NEW s, IsFiniteSet(FailuresOf(es, s))
  PROVE  /\ IsFiniteSet(FailuresOf(Append(es, e), s))
         /\ Cardinality(FailuresOf(Append(es, e), s)) \in Nat
         /\ Cardinality(FailuresOf(Append(es, e), s)) <= Cardinality(FailuresOf(es, s)) + 1
         /\ e.type # "step_failed" \/ e.step # s => FailuresOf(Append(es, e), s) = FailuresOf(es, s)
<1>1. \/ FailuresOf(Append(es, e), s) = FailuresOf(es, s)
      \/ /\ e.type = "step_failed" /\ e.step = s
         /\ FailuresOf(Append(es, e), s) = FailuresOf(es, s) \cup {Len(es) + 1}
  BY DEF FailuresOf
<1>2. Len(es) + 1 \notin FailuresOf(es, s)
  BY DEF FailuresOf
<1>3. Cardinality(FailuresOf(es, s)) \in Nat
  BY FS_CardinalityType, Zenon
<1>4. CASE FailuresOf(Append(es, e), s) = FailuresOf(es, s)
  BY <1>3, <1>4
<1>5. CASE e.type = "step_failed" /\ e.step = s /\ FailuresOf(Append(es, e), s) = FailuresOf(es, s) \cup {Len(es) + 1}
  <2>1. /\ IsFiniteSet(FailuresOf(es, s) \cup {Len(es) + 1})
        /\ Cardinality(FailuresOf(es, s) \cup {Len(es) + 1}) = Cardinality(FailuresOf(es, s)) + 1
    BY <1>2, FS_AddElement, Zenon
  <2>2. QED
    BY <1>3, <1>5, <2>1
<1>6. QED
  BY <1>1, <1>4, <1>5, Zenon

(* A step that records no failure and forgets no bounce. *)
LEMMA SameBounces ==
  ASSUME Control, Bounces, wf' = wf,
         \A s \in DOMAIN wf : FailuresOf(disk'.events, s) = FailuresOf(disk.events, s),
         pc' \in Running \ {"end"} =>
           bounces' = bounces /\ pc \in Running \ {"end"} /\ ((pc' = pc /\ i' = i) \/ pc # "failed")
  PROVE  Bounces'
<1> SUFFICES ASSUME NEW s \in DOMAIN wf
             PROVE  /\ IsFiniteSet(FailuresOf(disk'.events, s))
                    /\ Cardinality(FailuresOf(disk'.events, s)) <= CapOf(s) + 1
                    /\ pc' \in Running \ {"end"} =>
                         /\ bounces'[s] <= CapOf(s)
                         /\ Cardinality(FailuresOf(disk'.events, s)) <=
                              IF pc' = "failed" /\ s = i' THEN bounces'[s] + 1 ELSE bounces'[s]
  BY Zenon DEF Bounces, Failed, CapOf
<1> DEFINE f == Cardinality(FailuresOf(disk.events, s))
<1>1. /\ FailuresOf(disk'.events, s) = FailuresOf(disk.events, s)
      /\ IsFiniteSet(FailuresOf(disk.events, s)) /\ f <= CapOf(s) + 1
      /\ pc \in Running \ {"end"} =>
           bounces[s] <= CapOf(s) /\ f <= IF pc = "failed" /\ s = i THEN bounces[s] + 1 ELSE bounces[s]
  BY Zenon DEF Bounces, Failed
<1>2. f \in Nat /\ bounces[s] \in Nat
  BY <1>1, FS_CardinalityType, Zenon DEF Control, EngineTypes
<1> HIDE DEF f
<1>3. ASSUME pc' \in Running \ {"end"}
      PROVE  bounces'[s] <= CapOf(s) /\ f <= IF pc' = "failed" /\ s = i' THEN bounces'[s] + 1 ELSE bounces'[s]
  <2>1. bounces' = bounces /\ pc \in Running \ {"end"} /\ ((pc' = pc /\ i' = i) \/ pc # "failed")
    BY <1>3, Zenon
  <2>2. CASE pc' = pc /\ i' = i
    BY <1>1, <2>1, <2>2, Zenon
  <2>3. CASE pc # "failed"
    <3>1. bounces[s] <= CapOf(s) /\ f <= bounces[s]
      BY <1>1, <2>1, <2>3, Zenon
    <3>2. f <= bounces[s] + 1
      BY <1>2, <3>1
    <3>3. QED
      BY <2>1, <3>1, <3>2, Zenon
  <2>4. QED
    BY <2>1, <2>2, <2>3, Zenon
<1>4. QED
  BY <1>1, <1>3, Zenon DEF f

(* The failures recorded, when Run writes. *)
LEMMA NoteFailures ==
  ASSUME Control, Book, Bounces, NEW e, Note(e), NEW s \in DOMAIN wf
  PROVE  /\ IsFiniteSet(FailuresOf(disk'.events, s))
         /\ Cardinality(FailuresOf(disk'.events, s)) \in Nat
         /\ Cardinality(FailuresOf(disk'.events, s)) <= Failed(s) + 1
         /\ e.type # "step_failed" \/ e.step # s => FailuresOf(disk'.events, s) = FailuresOf(disk.events, s)
<1>1. e \in Ev /\ LedgerTypes /\ disk.events \in Seq(Ev) /\ IsFiniteSet(FailuresOf(disk.events, s)) /\ emit(e)
      /\ logErr \in BOOLEAN
  BY DEF Book, Note, LedgerTypes, Disk, Bounces, Control, EngineTypes
<1>2. disk'.events = disk.events \/ disk'.events = Append(disk.events, e)
  BY <1>1, EmitCases, Zenon DEF Keeps, Adds
<1>3. Failed(s) \in Nat
  BY <1>1, FS_CardinalityType, Zenon DEF Failed
<1>4. CASE disk'.events = disk.events
  <2>1. Failed(s) <= Failed(s) + 1
    BY <1>3
  <2>2. QED
    BY <1>1, <1>3, <1>4, <2>1, Zenon DEF Failed
<1>5. CASE disk'.events = Append(disk.events, e)
  BY <1>1, <1>5, FailuresAppend, Zenon DEF Failed
<1>6. QED
  BY <1>2, <1>4, <1>5, Zenon

LEMMA EngineBounces ==
  ASSUME Control, Book, Bounces, Engine
  PROVE  Bounces'
<1>1. /\ wf' = wf /\ N \in Nat /\ bounces \in [DOMAIN wf -> Nat] /\ DOMAIN wf = 1..N
      /\ \A s \in DOMAIN wf : CapOf(s) \in Nat /\ CapOf(s)' = CapOf(s)
  <2>1. wf' = wf
    BY EngineKinds, Zenon
  <2>2. QED
    BY <2>1, Workflow, Zenon DEF Control, EngineTypes, CapOf
<1>2. CASE OpenFails \/ LedgerFailed \/ GiveUp \/ Between \/ GatewayStart \/ Execute \/ StopClose \/ StopWait
  <2>1. disk' = disk
    BY <1>2, Zenon DEF OpenFails, LedgerFailed, GiveUp, Between, GatewayStart, Execute, StopClose, StopWait, ledger
  <2>2. CASE OpenFails \/ LedgerFailed \/ GiveUp
    <3>1. pc' \notin Running \ {"end"}
      BY <2>2, Zenon DEF OpenFails, LedgerFailed, GiveUp, Returns, Goto, Running
    <3>2. QED
      BY <1>1, <2>1, <3>1, SameBounces, Zenon
  <2>3. CASE Between \/ GatewayStart \/ Execute \/ StopClose \/ StopWait
    <3>1. bounces' = bounces /\ pc \in Running \ {"end"} /\ pc # "failed"
      BY <2>3, Zenon DEF Between, GatewayStart, Execute, StopClose, StopWait, Running
    <3>2. QED
      BY <1>1, <2>1, <3>1, SameBounces, Zenon
  <2>4. QED
    BY <1>2, <2>2, <2>3, Zenon
<1>3. CASE Refuse \/ Begin \/ StartStep \/ StepSucceeds \/ Finish
  <2>1. PICK e : Note(e) /\ e.type # "step_failed"
    <3>1. CASE Refuse
      BY <3>1, RefuseNote, Zenon
    <3>2. CASE Begin
      BY <3>2, BeginNote, Zenon
    <3>3. CASE StartStep
      BY <3>3, StartNote, Zenon
    <3>4. CASE StepSucceeds
      <4>1. TRUE \in BOOLEAN /\ counted \in Nat /\ emit(StepTerminal(TRUE, counted))
        BY <3>4, Zenon DEF StepSucceeds, Control, EngineTypes
      <4>2. Note(StepTerminal(TRUE, counted)) /\ StepTerminal(TRUE, counted).type = "step_succeeded"
        BY <4>1, TerminalNote, Zenon
      <4>3. QED
        BY <4>2, Zenon
    <3>5. CASE Finish
      BY <3>5, FinishNote, Zenon
    <3>6. QED
      BY <1>3, <3>1, <3>2, <3>3, <3>4, <3>5, Zenon
  <2>2. \A s \in DOMAIN wf : FailuresOf(disk'.events, s) = FailuresOf(disk.events, s)
    BY <2>1, NoteFailures, Zenon
  <2>3. \/ pc' \notin Running \ {"end"}
        \/ bounces' = bounces /\ pc \in Running \ {"end"} /\ pc # "failed"
    BY <1>3, Zenon DEF Refuse, Begin, StartStep, StepSucceeds, Finish, Returns, Running
  <2>4. QED
    BY <1>1, <2>2, <2>3, SameBounces, Zenon
<1>4. CASE GatewayStartFails \/ StepFailsRun \/ StepFails
  <2>1. PICK n \in Nat : emit(StepTerminal(FALSE, n))
    <3>1. 0 \in Nat /\ counted \in Nat
      BY DEF Control, EngineTypes
    <3>2. QED
      BY <1>4, <3>1, Zenon DEF GatewayStartFails, StepFailsRun, StepFails
  <2> DEFINE e == StepTerminal(FALSE, n)
  <2>2. Note(e) /\ e.step = i
    <3>1. FALSE \in BOOLEAN
      OBVIOUS
    <3>2. QED
      BY <2>1, <3>1, TerminalNote, Zenon
  <2> HIDE DEF e
  <2>3. /\ pc \in Running \ {"end"} /\ pc # "failed"
        /\ pc' = "end" \/ (pc' = "failed" /\ i' = i /\ bounces' = bounces)
    BY <1>4, Zenon DEF GatewayStartFails, StepFailsRun, StepFails, Goto, Running
  <2> SUFFICES ASSUME NEW s \in DOMAIN wf
               PROVE  /\ IsFiniteSet(FailuresOf(disk'.events, s))
                      /\ Cardinality(FailuresOf(disk'.events, s)) <= CapOf(s) + 1
                      /\ pc' \in Running \ {"end"} =>
                           /\ bounces'[s] <= CapOf(s)
                           /\ Cardinality(FailuresOf(disk'.events, s)) <=
                                IF pc' = "failed" /\ s = i' THEN bounces'[s] + 1 ELSE bounces'[s]
    BY <1>1, Zenon DEF Bounces, Failed
  <2> DEFINE g == Cardinality(FailuresOf(disk'.events, s))
  <2>4. /\ IsFiniteSet(FailuresOf(disk'.events, s)) /\ g \in Nat /\ g <= Failed(s) + 1
        /\ s # i => g = Failed(s)
    BY <2>2, NoteFailures, Zenon DEF Failed
  <2>5. bounces[s] \in Nat /\ CapOf(s) \in Nat /\ bounces[s] <= CapOf(s) /\ Failed(s) <= bounces[s] /\ Failed(s) \in Nat
    <3>1. IsFiniteSet(FailuresOf(disk.events, s)) /\ bounces[s] <= CapOf(s) /\ Failed(s) <= bounces[s]
      BY <2>3, Zenon DEF Bounces
    <3>2. Failed(s) \in Nat
      BY <3>1, FS_CardinalityType, Zenon DEF Failed
    <3>3. QED
      BY <1>1, <3>1, <3>2
  <2> HIDE DEF g
  <2>6. g <= CapOf(s) + 1 /\ g <= bounces[s] + 1
    <3> DEFINE f == Failed(s)
               b == bounces[s]
               m == CapOf(s)
    <3>1. g \in Nat /\ f \in Nat /\ b \in Nat /\ m \in Nat /\ g <= f + 1 /\ f <= b /\ b <= m
      BY <2>4, <2>5, Zenon
    <3> HIDE DEF f, b, m
    <3>2. g <= m + 1 /\ g <= b + 1
      BY <3>1
    <3>3. QED
      BY <3>2, Zenon DEF b, m
  <2>7. s # i => g <= bounces[s]
    BY <2>4, <2>5, Zenon
  <2>8. QED
    <3>1. pc' \in Running \ {"end"} => pc' = "failed" /\ i' = i /\ bounces' = bounces
      BY <2>3, Zenon
    <3>2. QED
      BY <2>4, <2>5, <2>6, <2>7, <3>1, Zenon DEF g
<1>5. CASE Bounce
  <2> DEFINE e == [Event("bounced_back", i) EXCEPT !.target = Target]
  <2>1. Note(e) /\ e.type = "bounced_back"
    BY <1>5, BounceNote, Zenon
  <2> HIDE DEF e
  <2>2. pc = "failed" /\ pc' = "top" /\ bounces' = [bounces EXCEPT ![i] = @ + 1] /\ ~(bounces[i] + 1 > CapOf(i))
        /\ pc \in Running \ {"end"}
    BY <1>5, Zenon DEF Bounce, Goto, Exhausted, Running
  <2>3. i \in DOMAIN wf
    BY <1>1, <2>2, Zenon DEF Control, Gate, AtAStep
  <2> SUFFICES ASSUME NEW s \in DOMAIN wf
               PROVE  /\ IsFiniteSet(FailuresOf(disk'.events, s))
                      /\ Cardinality(FailuresOf(disk'.events, s)) <= CapOf(s) + 1
                      /\ bounces'[s] <= CapOf(s)
                      /\ Cardinality(FailuresOf(disk'.events, s)) <= bounces'[s]
    <3>1. pc' # "failed"
      BY <2>2
    <3>2. QED
      BY <1>1, <3>1, Zenon DEF Bounces, Failed
  <2>4. FailuresOf(disk'.events, s) = FailuresOf(disk.events, s) /\ IsFiniteSet(FailuresOf(disk.events, s))
    BY <2>1, NoteFailures, Zenon DEF Bounces
  <2>5. /\ Failed(s) <= CapOf(s) + 1 /\ bounces[s] <= CapOf(s)
        /\ Failed(s) <= IF s = i THEN bounces[s] + 1 ELSE bounces[s]
    BY <2>2, Zenon DEF Bounces
  <2>6. bounces[s] \in Nat /\ CapOf(s) \in Nat /\ CapOf(i) \in Nat /\ bounces[i] \in Nat
    BY <1>1, <2>3, Zenon
  <2>7. bounces'[s] = IF s = i THEN bounces[s] + 1 ELSE bounces[s]
    BY <1>1, <2>2, <2>3
  <2>8. bounces'[s] <= CapOf(s)
    BY <2>2, <2>5, <2>6, <2>7
  <2>9. QED
    BY <2>4, <2>5, <2>7, <2>8, Zenon DEF Failed
<1>6. QED
  BY <1>2, <1>3, <1>4, <1>5, Zenon DEF Engine

LEMMA BouncesStep ==
  ASSUME Control, Book, Bounces, [Next]_vars
  PROVE  Bounces'
<1>1. ASSUME UNCHANGED <<wf, engine, disk>> PROVE Bounces'
  <2>1. wf' = wf /\ pc' = pc /\ i' = i /\ bounces' = bounces /\ disk' = disk
    BY <1>1, Zenon DEF engine
  <2>2. QED
    BY <2>1, SameBounces, Zenon
<1>2. CASE Engine
  BY <1>2, EngineBounces, Zenon
<1>3. ASSUME NEW c \in Calls, NEW l, Appends(c, l) PROVE Bounces'
  <2>1. /\ Keeps \/ Adds(DoorEvent(c))
        /\ DoorEvent(c) \in Ev /\ DoorEvent(c).type = "door"
        /\ UNCHANGED <<wf, engine>>
    BY <1>3, AppendCases, Zenon
  <2>2. wf' = wf /\ pc' = pc /\ i' = i /\ bounces' = bounces
    BY <2>1, Zenon DEF engine
  <2>3. disk'.events = disk.events \/ disk'.events = Append(disk.events, DoorEvent(c))
    BY <2>1, Zenon DEF Keeps, Adds
  <2>4. disk.events \in Seq(Ev) /\ DoorEvent(c).type # "step_failed"
    BY <2>1 DEF Book, LedgerTypes, Disk
  <2>5. \A s \in DOMAIN wf : FailuresOf(disk'.events, s) = FailuresOf(disk.events, s)
    <3>1. CASE disk'.events = disk.events
      BY <3>1, Zenon
    <3>2. CASE disk'.events = Append(disk.events, DoorEvent(c))
      <4>1. \A s \in DOMAIN wf : IsFiniteSet(FailuresOf(disk.events, s))
        BY Zenon DEF Bounces
      <4>2. \A s \in DOMAIN wf : FailuresOf(Append(disk.events, DoorEvent(c)), s) = FailuresOf(disk.events, s)
        BY <2>1, <2>4, <4>1, FailuresAppend, Zenon
      <4>3. QED
        BY <3>2, <4>2, Zenon
    <3>3. QED
      BY <2>3, <3>1, <3>2, Zenon
  <2>6. QED
    BY <2>2, <2>5, SameBounces, Zenon
<1>4. CASE \E c \in Calls : Door(c) \/ \E d \in Doors : Arrive(c, d)
  <2>1. ASSUME Silent PROVE UNCHANGED <<wf, engine, disk>>
    BY <2>1, Zenon DEF Silent, ledger
  <2>2. QED
    BY <1>1, <1>3, <1>4, <2>1, DoorSilent, ArriveSilent, Zenon
<1>5. CASE Cancel \/ UNCHANGED vars
  <2>1. UNCHANGED <<wf, engine, disk>>
    BY <1>5, Zenon DEF Cancel, vars, ledger
  <2>2. QED
    BY <1>1, <2>1, Zenon
<1>6. CASE Crash
  <2>1. disk' \in {disk, [disk EXCEPT !.tail = "damaged"]} /\ wf' = wf /\ pc' \notin Running /\ disk \in Disk
    BY <1>6, Zenon DEF Crash, Running, Book, LedgerTypes
  <2>2. disk'.events = disk.events
    BY <2>1 DEF Disk
  <2>3. QED
    BY <2>1, <2>2, SameBounces, Zenon
<1>7. QED
  BY <1>2, <1>4, <1>5, <1>6, Zenon DEF Next

LEMMA InitPath ==
  ASSUME Init
  PROVE  Path
<1>1. disk.events = <<>> /\ pc = "open" /\ bounces = [k \in DOMAIN wf |-> 0] /\ EngineTypes
  <2>1. EngineTypes
    BY InitControl, Zenon DEF Control
  <2>2. QED
    BY <2>1 DEF Init
<1>2. ~Walking /\ pc # "failed"
  BY <1>1 DEF Walking
<1>3. DOMAIN disk.events = {}
  BY <1>1
<1>4. Followed(disk.events, N)
  BY <1>3, Zenon DEF Followed
<1>5. ASSUME NEW s \in DOMAIN wf
      PROVE  IsFiniteSet(FailuresOf(disk.events, s)) /\ Failed(s) = 0 /\ bounces[s] = 0 /\ CapOf(s) \in Nat
  <2>1. FailuresOf(disk.events, s) = {}
    BY <1>3, Zenon DEF FailuresOf
  <2>2. CapOf(s) \in Nat
    BY <1>1, <1>5, Workflow, Zenon
  <2>3. QED
    BY <1>1, <2>1, <2>2, FS_EmptySet, Zenon DEF Failed
<1>6. ASSUME NEW s \in DOMAIN wf
      PROVE  Failed(s) <= CapOf(s) + 1 /\ bounces[s] <= CapOf(s) /\ Failed(s) <= bounces[s]
  BY <1>5
<1>7. Bounces
  BY <1>2, <1>5, <1>6, Zenon DEF Bounces
<1>8. QED
  BY <1>2, <1>4, <1>7, Zenon DEF Path

(* What is on a run's disk is a walk of its workflow: every lifecycle      *)
(* event follows one it may follow, and no step fails more often than its  *)
(* bounce cap lets it (Run's loop, its fail-backs and its terminals),      *)
(* whichever writes failed and wherever the run was cancelled or killed.   *)
THEOREM LedgersAreWalks == Spec => []LedgerIsAWalk
<1>1. Init => Path
  BY InitPath, Zenon
<1>2. Control /\ Control' /\ Book /\ Opening /\ Path /\ [Next]_vars => Path'
  <2> SUFFICES ASSUME Control, Control', Book, Opening, Path, [Next]_vars PROVE Path'
    OBVIOUS
  <2>1. (Walking => Trail) /\ Followed(disk.events, N) /\ Bounces
    BY Zenon DEF Path
  <2>2. Followed(disk'.events, N') /\ (Walking' => Trail')
    BY <2>1, PathStep, Zenon
  <2>3. Bounces'
    BY <2>1, BouncesStep, Zenon
  <2>4. QED
    BY <2>2, <2>3, Zenon DEF Path
<1>3. Path => LedgerIsAWalk
  BY Zenon DEF Path, Followed, Bounces, Failed, LedgerIsAWalk
<1>4. QED
  BY <1>1, <1>2, <1>3, ControlInvariance, BookInvariance, PTL DEF Spec

=============================================================================
