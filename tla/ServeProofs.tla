----------------------------- MODULE ServeProofs -----------------------------
(***************************************************************************)
(* The safety properties of the server, for any number of requests, run    *)
(* ids, slots and lives of the process.                                    *)
(***************************************************************************)
EXTENDS Serve, TLAPS, FiniteSetTheorems

-----------------------------------------------------------------------------
(* The inductive invariant.                                                 *)

HoldingAt == {"reserved", "refusing"}
CountedAt == HoldingAt \cup {"admitted", "bundle", "applying", "installed"}
Stages == CountedAt \cup {"idle", "post", "apply", "done"}
Writing == {"opened", "starting", "started", "ending"}
Unwinding == {"returned", "finished"}

Handlers == [at : Stages, id : Ids \cup {NoId}]
Goroutines == [at : {"none", "minted"} \cup Writing \cup Unwinding, result : Final \cup {"none"}]
Ledgers == [by : {"none", "server", "other"}, end : Final \cup {"none"}, torn : BOOLEAN]

Types ==
  /\ phase \in {"up", "draining", "cancelled", "drained", "late", "down"}
  /\ applying \in BOOLEAN
  /\ req \in [Reqs -> Handlers]
  /\ run \in [Ids -> Goroutines]
  /\ table \in [Ids -> Final \cup {"none", "running"}]
  /\ ledger \in [Ids -> Ledgers]
  /\ told \in [Ids -> Lasting \cup {"none"}]

(* applyMu is held by an apply that is counted, the table says running only *)
(* of a run whose goroutine has not told it otherwise, and it knows every  *)
(* run that has a goroutine.                                               *)
Owners ==
  /\ applying => \E q \in Reqs : req[q].at \in {"applying", "installed"}
  /\ \A r \in Ids : table[r] = "running" => run[r].at # "none" /\ run[r].at # "finished"
  /\ \A r \in Ids : run[r].at # "none" => table[r] # "none"

(* A ledger has one writer: a goroutine, a refusal, or another process.    *)
OneWriter ==
  /\ \A r \in Ids : ledger[r].by = "none" => ledger[r].end = "none"
  /\ \A r \in Ids : run[r].at \in Writing => ledger[r].by = "server" /\ ledger[r].end = "none"
  /\ \A q \in Reqs : req[q].at = "refusing" =>
       /\ req[q].id \in Ids
       /\ ledger[req[q].id].by = "server" /\ ledger[req[q].id].end = "none"
       /\ run[req[q].id].at \notin Writing
       /\ \A p \in Reqs : req[p].at = "refusing" /\ req[p].id = req[q].id => p = q

(* What memory holds as a lasting outcome is on disk.                      *)
Outcomes ==
  /\ \A r \in Ids : run[r].at = "ending" => run[r].result \in {"succeeded", "failed", "cancelled"}
  /\ \A r \in Ids : run[r].at \in Unwinding =>
       run[r].result # "none" /\ (run[r].result \in Lasting => ledger[r].end = run[r].result)
  /\ \A r \in Ids : table[r] \in Lasting => ledger[r].end = table[r]

Drained == phase = "drained" => Live = {} /\ Counted = {}

IInv == Types /\ SlotsAccount /\ Owners /\ OneWriter /\ Outcomes /\ Drained /\ AnswersAreOnRecord

-----------------------------------------------------------------------------
(* Counting.                                                                *)

Bit(b) == IF b THEN 1 ELSE 0

(* A set that changes in one element at most.                              *)
LEMMA OneMember ==
  ASSUME NEW S, IsFiniteSet(S), NEW T, NEW x,
         \A y : y # x => (y \in T <=> y \in S)
  PROVE  /\ IsFiniteSet(T)
         /\ Cardinality(S) \in Nat /\ Cardinality(T) \in Nat
         /\ Cardinality(T) = Cardinality(S) + Bit(x \in T) - Bit(x \in S)
<1>1. Cardinality(S) \in Nat
  BY FS_CardinalityType
<1>2. CASE x \in T
  <2>1. T = S \cup {x}
    BY <1>2
  <2>2. IsFiniteSet(T) /\ Cardinality(T) = IF x \in S THEN Cardinality(S) ELSE Cardinality(S) + 1
    BY <2>1, FS_AddElement
  <2> QED
    BY <1>1, <1>2, <2>2, FS_CardinalityType DEF Bit
<1>3. CASE x \notin T
  <2>1. T = S \ {x}
    BY <1>3
  <2>2. IsFiniteSet(T) /\ Cardinality(T) = IF x \in S THEN Cardinality(S) - 1 ELSE Cardinality(S)
    BY <2>1, FS_RemoveElement
  <2>3. Cardinality(T) \in Nat
    BY <2>2, FS_CardinalityType
  <2> QED
    BY <1>1, <1>3, <2>2, <2>3 DEF Bit
<1> QED
  BY <1>2, <1>3

(* The sets counted are finite, being subsets of the requests and the ids. *)
LEMMA Finite == IsFiniteSet(Holding) /\ IsFiniteSet(Counted) /\ IsFiniteSet(Live)
<1>1. IsFiniteSet(Reqs) /\ IsFiniteSet(Ids)
  BY Bounds
<1>2. Holding \in SUBSET Reqs /\ Counted \in SUBSET Reqs /\ Live \in SUBSET Ids
  BY DEF Holding, Counted, Live
<1> QED
  BY <1>1, <1>2, FS_Subset

(* One handler moves.                                                      *)
LEMMA ReqMove ==
  ASSUME NEW q \in Reqs, \A p \in Reqs : p # q => req'[p] = req[p]
  PROVE  /\ Cardinality(Holding) \in Nat /\ Cardinality(Holding') \in Nat
         /\ Cardinality(Counted) \in Nat /\ Cardinality(Counted') \in Nat
         /\ Cardinality(Holding') = Cardinality(Holding) + Bit(req'[q].at \in HoldingAt) - Bit(req[q].at \in HoldingAt)
         /\ Cardinality(Counted') = Cardinality(Counted) + Bit(req'[q].at \in CountedAt) - Bit(req[q].at \in CountedAt)
<1>1. /\ \A y : y # q => (y \in Holding' <=> y \in Holding)
      /\ \A y : y # q => (y \in Counted' <=> y \in Counted)
  BY DEF Holding, Counted
<1>2. /\ q \in Holding <=> req[q].at \in HoldingAt
      /\ q \in Holding' <=> req'[q].at \in HoldingAt
      /\ q \in Counted <=> req[q].at \in CountedAt
      /\ q \in Counted' <=> req'[q].at \in CountedAt
  BY DEF Holding, Counted, HoldingAt, CountedAt
<1>3. Cardinality(Holding') = Cardinality(Holding) + Bit(q \in Holding') - Bit(q \in Holding)
      /\ Cardinality(Holding) \in Nat /\ Cardinality(Holding') \in Nat
  BY <1>1, Finite, OneMember
<1>4. Cardinality(Counted') = Cardinality(Counted) + Bit(q \in Counted') - Bit(q \in Counted)
      /\ Cardinality(Counted) \in Nat /\ Cardinality(Counted') \in Nat
  BY <1>1, Finite, OneMember
<1> QED
  BY <1>2, <1>3, <1>4 DEF Bit

(* One run's goroutine moves.                                              *)
LEMMA RunMove ==
  ASSUME NEW r \in Ids, \A s \in Ids : s # r => run'[s] = run[s]
  PROVE  /\ Cardinality(Live) \in Nat /\ Cardinality(Live') \in Nat
         /\ Cardinality(Live') = Cardinality(Live) + Bit(run'[r].at # "none") - Bit(run[r].at # "none")
<1>1. \A y : y # r => (y \in Live' <=> y \in Live)
  BY DEF Live
<1>2. (r \in Live <=> run[r].at # "none") /\ (r \in Live' <=> run'[r].at # "none")
  BY DEF Live
<1>3. Cardinality(Live') = Cardinality(Live) + Bit(r \in Live') - Bit(r \in Live)
      /\ Cardinality(Live) \in Nat /\ Cardinality(Live') \in Nat
  BY <1>1, Finite, OneMember
<1> QED
  BY <1>2, <1>3 DEF Bit

(* What is counted stands still with the handlers and the goroutines.      *)
LEMMA Same ==
  /\ UNCHANGED req => Holding' = Holding /\ Counted' = Counted
  /\ UNCHANGED run => Live' = Live
  BY DEF Holding, Counted, Live
-----------------------------------------------------------------------------
(* What a step may change.                                                  *)

OnlyReq(q) == req' \in [Reqs -> Handlers] /\ \A p \in Reqs : p # q => req'[p] = req[p]
OnlyRun(r) == run' \in [Ids -> Goroutines] /\ \A s \in Ids : s # r => run'[s] = run[s]
OnlyLedger(r) == ledger' \in [Ids -> Ledgers] /\ \A s \in Ids : s # r => ledger'[s] = ledger[s]

(* A handler goes to its next stage; the others stay.                      *)
LEMMA ReqAt ==
  ASSUME req \in [Reqs -> Handlers], NEW q \in Reqs, NEW x \in Stages, req' = [req EXCEPT ![q].at = x]
  PROVE  OnlyReq(q) /\ req'[q].at = x /\ req'[q].id = req[q].id
  BY DEF OnlyReq, Handlers

(* A handler's record is replaced; the others stay.                        *)
LEMMA ReqIs ==
  ASSUME req \in [Reqs -> Handlers], NEW q \in Reqs, NEW x \in Handlers, req' = [req EXCEPT ![q] = x]
  PROVE  OnlyReq(q) /\ req'[q] = x
  BY DEF OnlyReq

(* The records of a request not yet seen and of one answered.              *)
LEMMA DoneIs == Done \in Handlers /\ Idle \in Handlers /\ Done.at = "done" /\ Idle.at = "idle"
  BY DEF Done, Idle, Handlers, Stages

(* A goroutine goes to its next stage; the others stay.                    *)
LEMMA RunAt ==
  ASSUME run \in [Ids -> Goroutines], NEW r \in Ids,
         NEW x \in {"none", "minted"} \cup Writing \cup Unwinding, run' = [run EXCEPT ![r].at = x]
  PROVE  OnlyRun(r) /\ run'[r].at = x /\ run'[r].result = run[r].result
  BY DEF OnlyRun, Goroutines

(* A goroutine's record is replaced; the others stay.                      *)
LEMMA RunIs ==
  ASSUME run \in [Ids -> Goroutines], NEW r \in Ids, NEW g \in Goroutines, run' = [run EXCEPT ![r] = g]
  PROVE  OnlyRun(r) /\ run'[r] = g
  BY DEF OnlyRun

(* A ledger is created; the others stay.                                   *)
LEMMA LedgerBy ==
  ASSUME ledger \in [Ids -> Ledgers], NEW r \in Ids, NEW b \in {"server", "other"},
         ledger' = [ledger EXCEPT ![r].by = b]
  PROVE  OnlyLedger(r) /\ ledger'[r].by = b /\ ledger'[r].end = ledger[r].end
  BY DEF OnlyLedger, Ledgers

(* A record is begun, or an append fails: no final event.                  *)
LEMMA LedgerTorn ==
  ASSUME ledger \in [Ids -> Ledgers], NEW r \in Ids, NEW t \in BOOLEAN,
         ledger' = [ledger EXCEPT ![r].torn = t]
  PROVE  OnlyLedger(r) /\ ledger'[r].by = ledger[r].by /\ ledger'[r].end = ledger[r].end
  BY DEF OnlyLedger, Ledgers

(* The final event of a refusal, or of another process's run.              *)
LEMMA LedgerEnd ==
  ASSUME ledger \in [Ids -> Ledgers], NEW r \in Ids, NEW e \in Final, ledger' = [ledger EXCEPT ![r].end = e]
  PROVE  OnlyLedger(r) /\ ledger'[r].by = ledger[r].by /\ ledger'[r].end = e
  BY DEF OnlyLedger, Ledgers

(* The final event of a run of this server.                                *)
LEMMA LedgerEnds ==
  ASSUME ledger \in [Ids -> Ledgers], NEW r \in Ids, NEW e \in Final,
         ledger' = [ledger EXCEPT ![r].torn = FALSE, ![r].end = e]
  PROVE  OnlyLedger(r) /\ ledger'[r].by = ledger[r].by /\ ledger'[r].end = e
<1>1. ledger[r] \in Ledgers
  OBVIOUS
<1>2. /\ ledger'[r] = [[ledger[r] EXCEPT !.torn = FALSE] EXCEPT !.end = e]
      /\ DOMAIN ledger' = Ids
      /\ \A s \in Ids : s # r => ledger'[s] = ledger[s]
  OBVIOUS
<1>3. ledger'[r] \in Ledgers /\ ledger'[r].by = ledger[r].by /\ ledger'[r].end = e
  BY <1>1, <1>2, Zenon DEF Ledgers
<1>4. ledger' \in [Ids -> Ledgers]
  BY <1>2, <1>3
<1> QED
  BY <1>2, <1>3, <1>4 DEF OnlyLedger

-----------------------------------------------------------------------------
(* The handlers.                                                            *)

(* A handler that is not refusing bears on no ledger and on no run.        *)
LEMMA Quiet ==
  ASSUME IInv, NEW q \in Reqs, OnlyReq(q), req[q].at # "refusing", req'[q].at # "refusing",
         UNCHANGED <<run, table, ledger, told>>
  PROVE  OneWriter' /\ Outcomes' /\ AnswersAreOnRecord'
<1>1. OneWriter'
  <2>1. \A p \in Reqs : req'[p].at = "refusing" => p # q /\ req'[p] = req[p]
    BY DEF OnlyReq
  <2> QED
    BY <2>1 DEF IInv, OneWriter
<1>2. Outcomes'
  BY DEF IInv, Outcomes
<1>3. AnswersAreOnRecord'
  BY DEF IInv, AnswersAreOnRecord
<1> QED
  BY <1>1, <1>2, <1>3

(* The slots and the units, when one handler moves.                        *)
LEMMA Account ==
  ASSUME IInv, NEW q \in Reqs, OnlyReq(q), UNCHANGED run,
         slots' = slots + Bit(req'[q].at \in HoldingAt) - Bit(req[q].at \in HoldingAt),
         wg' = wg + Bit(req'[q].at \in CountedAt) - Bit(req[q].at \in CountedAt),
         slots' <= MaxConcurrentRuns
  PROVE  SlotsAccount'
<1>1. Live' = Live /\ Cardinality(Live) \in Nat
  BY Same, Finite, FS_CardinalityType
<1>2. slots = Cardinality(Holding) + Cardinality(Live) /\ wg = Cardinality(Counted) + Cardinality(Live)
  BY DEF IInv, SlotsAccount
<1>3. /\ Cardinality(Holding) \in Nat /\ Cardinality(Holding') \in Nat
      /\ Cardinality(Counted) \in Nat /\ Cardinality(Counted') \in Nat
      /\ Cardinality(Holding') = Cardinality(Holding) + Bit(req'[q].at \in HoldingAt) - Bit(req[q].at \in HoldingAt)
      /\ Cardinality(Counted') = Cardinality(Counted) + Bit(req'[q].at \in CountedAt) - Bit(req[q].at \in CountedAt)
  BY ReqMove DEF OnlyReq
<1>4. Cardinality(Live') = Cardinality(Live)
  BY <1>1
<1>5. \A b : Bit(b) \in {0, 1}
  BY DEF Bit
<1>6. slots' = Cardinality(Holding') + Cardinality(Live') /\ wg' = Cardinality(Counted') + Cardinality(Live')
  BY <1>1, <1>2, <1>3, <1>4, <1>5
<1> QED
  BY <1>6 DEF SlotsAccount

(* Neither count is negative.                                              *)
LEMMA SlotsNat == ASSUME IInv PROVE slots \in Nat /\ wg \in Nat /\ slots <= MaxConcurrentRuns
  BY Finite, FS_CardinalityType DEF IInv, SlotsAccount

(* Nothing counted appears once the server has drained.                    *)
LEMMA StaysDrained ==
  ASSUME IInv, NEW q \in Reqs, OnlyReq(q), UNCHANGED <<run, phase>>,
         phase = "drained" => req'[q].at \notin CountedAt
  PROVE  Drained'
<1>1. \A p \in Reqs : phase = "drained" => req[p].at \notin CountedAt
  BY DEF IInv, Drained, Counted, Holding, CountedAt, HoldingAt
<1>2. \A p \in Reqs : phase = "drained" => req'[p].at \notin CountedAt
  BY <1>1 DEF OnlyReq
<1> QED
  BY <1>2 DEF IInv, Drained, Live, Counted, Holding, CountedAt, HoldingAt

(* authenticate passes a request on or answers it; nothing is held yet.    *)
LEMMA AuthenticateKeeps ==
  ASSUME IInv, NEW q \in Reqs, Authenticate(q)
  PROVE  IInv'
<1>1. PICK x \in {"post", "apply", "done"} : req' = [req EXCEPT ![q].at = x]
  BY Zenon DEF Authenticate
<1>2. /\ OnlyReq(q) /\ req'[q].at = x /\ req[q].at = "idle"
      /\ UNCHANGED <<phase, slots, wg, applying, run, table, ledger, told>>
  BY <1>1, ReqAt, Zenon DEF Authenticate, IInv, Types, Stages
<1>3. Types'
  BY <1>2 DEF IInv, Types, OnlyReq
<1>4. SlotsAccount'
  BY <1>2, Account, SlotsNat DEF Bit, HoldingAt, CountedAt
<1>5. Owners'
  BY <1>2 DEF IInv, Owners, OnlyReq
<1>6. Drained'
  BY <1>2, StaysDrained DEF CountedAt, HoldingAt
<1> QED
  BY <1>2, <1>3, <1>4, <1>5, <1>6, Quiet DEF IInv

(* admit adds a unit, or answers 503 once the drain has begun.             *)
LEMMA AdmitKeeps ==
  ASSUME IInv, NEW q \in Reqs, Admit(q)
  PROVE  IInv'
<1>1. PICK x \in {"admitted", "bundle"} :
        /\ req[q].at \in {"post", "apply"}
        /\ IF draining THEN req' = [req EXCEPT ![q] = Done] /\ wg' = wg
                       ELSE req' = [req EXCEPT ![q].at = x] /\ wg' = wg + 1
        /\ UNCHANGED <<phase, slots, applying, run, table, ledger, told>>
  BY DEF Admit, admit
<1>2. /\ OnlyReq(q)
      /\ IF draining THEN req'[q].at = "done" ELSE req'[q].at = x
  BY <1>1, ReqAt, ReqIs, DoneIs DEF IInv, Types, Stages, CountedAt
<1>3. Types'
  BY <1>1, <1>2 DEF IInv, Types, OnlyReq
<1>4. SlotsAccount'
  BY <1>1, <1>2, Account, SlotsNat DEF Bit, HoldingAt, CountedAt
<1>5. Owners'
  BY <1>1, <1>2 DEF IInv, Owners, OnlyReq
<1>6. Drained'
  BY <1>1, <1>2, StaysDrained DEF CountedAt, HoldingAt, draining
<1> QED
  BY <1>1, <1>2, <1>3, <1>4, <1>5, <1>6, Quiet DEF IInv

(* reserve takes a slot, or gives the unit back with a 429.                *)
LEMMA ReserveKeeps ==
  ASSUME IInv, NEW q \in Reqs, Reserve(q)
  PROVE  IInv'
<1>1. /\ req[q].at = "admitted"
      /\ IF slots < MaxConcurrentRuns
         THEN slots' = slots + 1 /\ wg' = wg /\ req' = [req EXCEPT ![q].at = "reserved"]
         ELSE slots' = slots /\ wg' = wg - 1 /\ req' = [req EXCEPT ![q] = Done]
      /\ UNCHANGED <<phase, applying, run, table, ledger, told>>
  BY DEF Reserve
<1>2. /\ OnlyReq(q)
      /\ req'[q].at = IF slots < MaxConcurrentRuns THEN "reserved" ELSE "done"
  BY <1>1, ReqAt, ReqIs, DoneIs DEF IInv, Types, Stages, CountedAt, HoldingAt
<1>3. Types'
  BY <1>1, <1>2 DEF IInv, Types, OnlyReq
<1>4. SlotsAccount'
  BY <1>1, <1>2, Account, SlotsNat, Bounds DEF Bit, HoldingAt, CountedAt
<1>5. Owners'
  BY <1>1, <1>2 DEF IInv, Owners, OnlyReq
<1>6. Drained'
  <2>1. phase # "drained"
    BY <1>1 DEF IInv, Drained, Counted
  <2> QED
    BY <1>1, <1>2, <2>1, StaysDrained
<1> QED
  BY <1>1, <1>2, <1>3, <1>4, <1>5, <1>6, Quiet DEF IInv

(* startRun gives slot and unit back when it answers before the gate.      *)
LEMMA DropKeeps ==
  ASSUME IInv, NEW q \in Reqs, Drop(q)
  PROVE  IInv'
<1>1. /\ req[q].at = "reserved" /\ req' = [req EXCEPT ![q] = Done]
      /\ slots' = slots - 1 /\ wg' = wg - 1
      /\ UNCHANGED <<phase, applying, run, table, ledger, told>>
  BY DEF Drop, release
<1>2. OnlyReq(q) /\ req'[q].at = "done"
  BY <1>1, ReqIs, DoneIs, Zenon DEF IInv, Types
<1>3. Types'
  BY <1>1, <1>2 DEF IInv, Types, OnlyReq
<1>4. SlotsAccount'
  BY <1>1, <1>2, Account, SlotsNat, Bounds DEF Bit, HoldingAt, CountedAt
<1>5. Owners'
  BY <1>1, <1>2 DEF IInv, Owners, OnlyReq
<1>6. Drained'
  BY <1>1, <1>2, StaysDrained DEF CountedAt, HoldingAt
<1> QED
  BY <1>1, <1>2, <1>3, <1>4, <1>5, <1>6, Quiet DEF IInv

(* An apply takes applyMu, or gives its unit back.                         *)
LEMMA ApplyKeeps ==
  ASSUME IInv, NEW q \in Reqs, Apply(q)
  PROVE  IInv'
<1>1. /\ req[q].at = "bundle"
      /\ \/ applying' = TRUE /\ wg' = wg /\ req' = [req EXCEPT ![q].at = "applying"]
         \/ applying' = applying /\ wg' = wg - 1 /\ req' = [req EXCEPT ![q] = Done]
      /\ UNCHANGED <<phase, slots, run, table, ledger, told>>
  BY DEF Apply
<1>2. /\ OnlyReq(q)
      /\ \/ applying' = TRUE /\ wg' = wg /\ req'[q].at = "applying"
         \/ applying' = applying /\ wg' = wg - 1 /\ req'[q].at = "done"
  <2>1. req \in [Reqs -> Handlers] /\ "applying" \in Stages /\ Done \in Handlers /\ Done.at = "done"
    BY DoneIs DEF IInv, Types, Stages, CountedAt
  <2>2. CASE req' = [req EXCEPT ![q].at = "applying"] /\ applying' = TRUE /\ wg' = wg
    <3>1. OnlyReq(q) /\ req'[q].at = "applying"
      BY <2>1, <2>2, ReqAt, Zenon
    <3> QED
      BY <2>2, <3>1, Zenon
  <2>3. CASE req' = [req EXCEPT ![q] = Done] /\ applying' = applying /\ wg' = wg - 1
    <3>1. OnlyReq(q) /\ req'[q] = Done
      BY <2>1, <2>3, ReqIs, Zenon
    <3> QED
      BY <2>1, <2>3, <3>1
  <2> QED
    BY <1>1, <2>2, <2>3, Zenon
<1>3. Types'
  BY <1>1, <1>2, Zenon DEF IInv, Types, OnlyReq
<1>4. SlotsAccount'
  BY <1>1, <1>2, Account, SlotsNat DEF Bit, HoldingAt, CountedAt
<1>5. Owners'
  BY <1>1, <1>2 DEF IInv, Owners, OnlyReq
<1>6. Drained'
  <2>1. phase # "drained"
    BY <1>1 DEF IInv, Drained, Counted
  <2> QED
    BY <1>1, <1>2, <2>1, StaysDrained
<1> QED
  BY <1>1, <1>2, <1>3, <1>4, <1>5, <1>6, Quiet DEF IInv

(* An apply installs, then records, and gives applyMu and its unit back.   *)
LEMMA AppliedKeeps ==
  ASSUME IInv, NEW q \in Reqs, Applied(q)
  PROVE  IInv'
<1>1. /\ req[q].at \in {"applying", "installed"}
      /\ \/ applying' = applying /\ wg' = wg /\ req' = [req EXCEPT ![q].at = "installed"]
         \/ applying' = FALSE /\ wg' = wg - 1 /\ req' = [req EXCEPT ![q] = Done]
      /\ UNCHANGED <<phase, slots, run, table, ledger, told>>
  BY DEF Applied
<1>2. /\ OnlyReq(q)
      /\ \/ applying' = applying /\ wg' = wg /\ req'[q].at = "installed"
         \/ applying' = FALSE /\ wg' = wg - 1 /\ req'[q].at = "done"
  <2>1. req \in [Reqs -> Handlers] /\ "installed" \in Stages /\ Done \in Handlers /\ Done.at = "done"
    BY DoneIs DEF IInv, Types, Stages, CountedAt
  <2>2. CASE req' = [req EXCEPT ![q].at = "installed"] /\ applying' = applying /\ wg' = wg
    <3>1. OnlyReq(q) /\ req'[q].at = "installed"
      BY <2>1, <2>2, ReqAt, Zenon
    <3> QED
      BY <2>2, <3>1
  <2>3. CASE req' = [req EXCEPT ![q] = Done] /\ applying' = FALSE /\ wg' = wg - 1
    <3>1. OnlyReq(q) /\ req'[q] = Done
      BY <2>1, <2>3, ReqIs, Zenon
    <3> QED
      BY <2>1, <2>3, <3>1
  <2> QED
    BY <1>1, <2>2, <2>3, Zenon
<1>3. Types'
  BY <1>1, <1>2, Zenon DEF IInv, Types, OnlyReq
<1>4. SlotsAccount'
  BY <1>1, <1>2, Account, SlotsNat DEF Bit, HoldingAt, CountedAt
<1>5. Owners'
  BY <1>1, <1>2 DEF IInv, Owners, OnlyReq
<1>6. Drained'
  <2>1. phase # "drained"
    BY <1>1 DEF IInv, Drained, Counted
  <2> QED
    BY <1>1, <1>2, <2>1, StaysDrained
<1> QED
  BY <1>1, <1>2, <1>3, <1>4, <1>5, <1>6, Quiet DEF IInv

(* RecordRefused creates a ledger no one has, and is its only writer.      *)
LEMMA RefuseKeeps ==
  ASSUME IInv, NEW q \in Reqs, NEW r \in Ids, Refuse(q, r)
  PROVE  IInv'
<1>1. CASE ledger[r].by # "none"
  <2>1. /\ req[q].at = "reserved" /\ req' = [req EXCEPT ![q] = Done]
        /\ slots' = slots - 1 /\ wg' = wg - 1
        /\ UNCHANGED <<phase, applying, run, table, ledger, told>>
    BY <1>1 DEF Refuse, release
  <2>2. OnlyReq(q) /\ req'[q].at = "done"
    BY <2>1, ReqIs, DoneIs, Zenon DEF IInv, Types
  <2>3. Types' /\ Owners'
    BY <2>1, <2>2 DEF IInv, Types, Owners, OnlyReq
  <2>4. SlotsAccount'
    BY <2>1, <2>2, Account, SlotsNat, Bounds DEF Bit, HoldingAt, CountedAt
  <2>5. Drained'
    BY <2>1, <2>2, StaysDrained DEF CountedAt, HoldingAt
  <2> QED
    BY <2>1, <2>2, <2>3, <2>4, <2>5, Quiet DEF IInv
<1>2. CASE ledger[r].by = "none"
  <2>1. /\ req[q].at = "reserved" /\ req' = [req EXCEPT ![q] = [at |-> "refusing", id |-> r]]
        /\ ledger' = [ledger EXCEPT ![r].by = "server"]
        /\ UNCHANGED <<phase, slots, wg, applying, run, table, told>>
    BY <1>2 DEF Refuse
  <2>2. [at |-> "refusing", id |-> r] \in Handlers
    BY DEF Handlers, Stages, CountedAt, HoldingAt
  <2>3. OnlyReq(q) /\ req'[q].at = "refusing" /\ req'[q].id = r
    BY <2>1, <2>2, ReqIs, Zenon DEF IInv, Types
  <2>4. OnlyLedger(r) /\ ledger'[r].by = "server" /\ ledger'[r].end = ledger[r].end
    BY <2>1, LedgerBy, Zenon DEF IInv, Types
  <2>5. Types' /\ Owners'
    BY <2>1, <2>3, <2>4 DEF IInv, Types, Owners, OnlyReq, OnlyLedger
  <2>6. SlotsAccount'
    BY <2>1, <2>3, Account, SlotsNat DEF Bit, HoldingAt, CountedAt
  <2>7. Drained'
    <3>1. phase # "drained"
      BY <2>1 DEF IInv, Drained, Counted, Holding
    <3> QED
      BY <2>1, <2>3, <3>1, StaysDrained
  <2>8. OneWriter'
    <3>1. /\ run[r].at \notin Writing
          /\ \A p \in Reqs : req[p].at = "refusing" => req[p].id \in Ids /\ req[p].id # r
      BY <1>2 DEF IInv, OneWriter
    <3>2. \A s \in Ids : run'[s].at \in Writing => ledger'[s].by = "server" /\ ledger'[s].end = "none"
      BY <2>1, <2>4, <3>1 DEF IInv, OneWriter, OnlyLedger
    <3>3. ledger'[r].end = "none"
      BY <1>2, <2>4 DEF IInv, OneWriter
    <3>4. ASSUME NEW p \in Reqs, req'[p].at = "refusing"
          PROVE  /\ req'[p].id \in Ids
                 /\ ledger'[req'[p].id].by = "server" /\ ledger'[req'[p].id].end = "none"
                 /\ run'[req'[p].id].at \notin Writing
                 /\ \A o \in Reqs : req'[o].at = "refusing" /\ req'[o].id = req'[p].id => o = p
      <4>1. CASE p = q
        BY <2>1, <2>3, <2>4, <3>1, <3>3, <4>1 DEF OnlyReq
      <4>2. CASE p # q
        BY <2>1, <2>3, <2>4, <3>1, <3>4, <4>2 DEF IInv, OneWriter, OnlyReq, OnlyLedger
      <4> QED
        BY <4>1, <4>2
    <3>5. \A s \in Ids : ledger'[s].by = "none" => ledger'[s].end = "none"
      BY <2>4 DEF IInv, OneWriter, OnlyLedger
    <3> QED
      BY <3>2, <3>4, <3>5 DEF OneWriter
  <2>9. Outcomes' /\ AnswersAreOnRecord'
    BY <2>1, <2>4 DEF IInv, Outcomes, AnswersAreOnRecord, OnlyLedger
  <2> QED
    BY <2>5, <2>6, <2>7, <2>8, <2>9 DEF IInv
<1> QED
  BY <1>1, <1>2

(* A final event is written once, so no outcome in memory is contradicted. *)
LEMMA Recorded ==
  ASSUME IInv, NEW r \in Ids, OnlyLedger(r),
         ledger[r].end = "none" \/ ledger'[r].end = ledger[r].end
  PROVE  \A s \in Ids : ledger[s].end \in Lasting => ledger'[s].end = ledger[s].end
  BY DEF OnlyLedger, Lasting, Final

(* A refusal is recorded before it is told; slot and unit go back.         *)
LEMMA RefusedKeeps ==
  ASSUME IInv, NEW q \in Reqs, Refused(q)
  PROVE  IInv'
<1> DEFINE r == req[q].id
<1>1. /\ req[q].at = "refusing" /\ req' = [req EXCEPT ![q] = Done]
      /\ slots' = slots - 1 /\ wg' = wg - 1
      /\ UNCHANGED <<phase, applying, run, table>>
  BY DEF Refused, release
<1>2. /\ r \in Ids /\ ledger[r].by = "server" /\ ledger[r].end = "none" /\ run[r].at \notin Writing
      /\ \A p \in Reqs : req[p].at = "refusing" /\ p # q => req[p].id \in Ids /\ req[p].id # r
  BY <1>1 DEF IInv, OneWriter
<1>3. \/ ledger' = [ledger EXCEPT ![r].end = "refused"] /\ told' = [told EXCEPT ![r] = "refused"]
      \/ \E torn \in BOOLEAN : ledger' = [ledger EXCEPT ![r].torn = torn] /\ told' = told
      \/ ledger' = [ledger EXCEPT ![r].end = "refused"] /\ told' = told
  BY Zenon DEF Refused
<1> HIDE DEF r
<1>4. OnlyReq(q) /\ req'[q].at = "done"
  BY <1>1, ReqIs, DoneIs, Zenon DEF IInv, Types
<1>5. /\ OnlyLedger(r) /\ ledger'[r].by = "server"
      /\ \/ ledger'[r].end = "refused" /\ told' = [told EXCEPT ![r] = "refused"]
         \/ ledger'[r].end \in {"none", "refused"} /\ told' = told
  BY <1>2, <1>3, LedgerEnd, LedgerTorn DEF IInv, Types, Final
<1>6. told' \in [Ids -> Lasting \cup {"none"}]
  BY <1>2, <1>5 DEF IInv, Types, Lasting, Final
<1>7. Types' /\ Owners'
  BY <1>1, <1>4, <1>5, <1>6 DEF IInv, Types, Owners, OnlyReq, OnlyLedger
<1>8. SlotsAccount'
  BY <1>1, <1>4, Account, SlotsNat, Bounds DEF Bit, HoldingAt, CountedAt
<1>9. Drained'
  BY <1>1, <1>4, StaysDrained DEF CountedAt, HoldingAt
<1>10. OneWriter'
  <2>1. \A p \in Reqs : req'[p].at = "refusing" => p # q /\ req'[p] = req[p] /\ req[p].id \in Ids /\ req[p].id # r
    BY <1>2, <1>4 DEF OnlyReq
  <2>2. \A s \in Ids : ledger'[s].by = "none" => ledger'[s].end = "none"
    BY <1>5 DEF IInv, OneWriter, OnlyLedger
  <2>3. \A s \in Ids : run'[s].at \in Writing => ledger'[s].by = "server" /\ ledger'[s].end = "none"
    BY <1>1, <1>2, <1>5 DEF IInv, OneWriter, OnlyLedger
  <2>4. ASSUME NEW p \in Reqs, req'[p].at = "refusing"
        PROVE  /\ req'[p].id \in Ids
               /\ ledger'[req'[p].id].by = "server" /\ ledger'[req'[p].id].end = "none"
               /\ run'[req'[p].id].at \notin Writing
               /\ \A o \in Reqs : req'[o].at = "refusing" /\ req'[o].id = req'[p].id => o = p
    <3>1. /\ req'[p] = req[p] /\ req[p].at = "refusing" /\ req[p].id \in Ids
          /\ ledger'[req[p].id] = ledger[req[p].id] /\ run' = run
      BY <1>1, <1>5, <2>1, <2>4 DEF OnlyLedger
    <3>2. /\ ledger[req[p].id].by = "server" /\ ledger[req[p].id].end = "none"
          /\ run[req[p].id].at \notin Writing
          /\ \A o \in Reqs : req[o].at = "refusing" /\ req[o].id = req[p].id => o = p
      BY <3>1 DEF IInv, OneWriter
    <3> QED
      BY <2>1, <3>1, <3>2
  <2> QED
    BY <2>2, <2>3, <2>4 DEF OneWriter
<1>11. \A s \in Ids : ledger[s].end \in Lasting => ledger'[s].end = ledger[s].end
  BY <1>2, <1>5, Recorded
<1>12. Outcomes'
  BY <1>1, <1>11 DEF IInv, Outcomes
<1>13. AnswersAreOnRecord'
  BY <1>2, <1>5, <1>11 DEF IInv, Types, AnswersAreOnRecord, Lasting, Final
<1> QED
  BY <1>7, <1>8, <1>9, <1>10, <1>12, <1>13 DEF IInv

(* mint passes the handler's slot and unit to the goroutine of a fresh id.  *)
LEMMA MintKeeps ==
  ASSUME IInv, NEW q \in Reqs, Mint(q)
  PROVE  IInv'
<1>1. /\ req[q].at = "reserved" /\ req' = [req EXCEPT ![q] = Done]
      /\ UNCHANGED <<phase, applying, ledger, told>>
  BY DEF Mint
<1>2. OnlyReq(q) /\ req'[q].at = "done"
  BY <1>1, ReqIs, DoneIs, Zenon DEF IInv, Types
<1>3. CASE release /\ UNCHANGED <<table, run>>
  <2>1. slots' = slots - 1 /\ wg' = wg - 1 /\ UNCHANGED <<table, run>>
    BY <1>3 DEF release
  <2>2. Types' /\ Owners'
    BY <1>1, <1>2, <2>1 DEF IInv, Types, Owners, OnlyReq
  <2>3. SlotsAccount'
    BY <1>1, <1>2, <2>1, Account, SlotsNat, Bounds DEF Bit, HoldingAt, CountedAt
  <2>4. Drained'
    BY <1>1, <1>2, <2>1, StaysDrained DEF CountedAt, HoldingAt
  <2> QED
    BY <1>1, <1>2, <2>1, <2>2, <2>3, <2>4, Quiet DEF IInv
<1>4. ASSUME NEW r \in Ids, fresh(r), table' = [table EXCEPT ![r] = "running"],
             run' = [run EXCEPT ![r] = [at |-> "minted", result |-> "none"]], UNCHANGED <<slots, wg>>
      PROVE  IInv'
  <2>1. [at |-> "minted", result |-> "none"] \in Goroutines
    BY DEF Goroutines
  <2>2. OnlyRun(r) /\ run'[r].at = "minted" /\ run'[r].result = "none"
    BY <1>4, <2>1, RunIs, Zenon DEF IInv, Types
  <2>3. run[r].at = "none" /\ table[r] = "none"
    BY <1>4 DEF IInv, Owners, fresh
  <2>4. table' \in [Ids -> Final \cup {"none", "running"}]
        /\ table'[r] = "running" /\ \A s \in Ids : s # r => table'[s] = table[s]
    BY <1>4 DEF IInv, Types
  <2>5. Types'
    BY <1>1, <1>2, <2>2, <2>4 DEF IInv, Types, OnlyReq, OnlyRun
  <2>6. Owners'
    BY <1>1, <1>2, <2>2, <2>4 DEF IInv, Owners, OnlyReq, OnlyRun
  <2>7. SlotsAccount'
    <3>1. /\ Cardinality(Holding) \in Nat /\ Cardinality(Holding') \in Nat
          /\ Cardinality(Counted) \in Nat /\ Cardinality(Counted') \in Nat
          /\ Cardinality(Holding') = Cardinality(Holding) - 1
          /\ Cardinality(Counted') = Cardinality(Counted) - 1
      BY <1>1, <1>2, ReqMove DEF OnlyReq, Bit, HoldingAt, CountedAt
    <3>2. Cardinality(Live) \in Nat /\ Cardinality(Live') = Cardinality(Live) + 1
      BY <2>2, <2>3, RunMove DEF OnlyRun, Bit
    <3>3. slots' = slots /\ wg' = wg
      BY <1>4
    <3>4. /\ slots = Cardinality(Holding) + Cardinality(Live) /\ wg = Cardinality(Counted) + Cardinality(Live)
          /\ slots <= MaxConcurrentRuns
      BY DEF IInv, SlotsAccount
    <3>5. slots' = Cardinality(Holding') + Cardinality(Live') /\ wg' = Cardinality(Counted') + Cardinality(Live')
      BY <3>1, <3>2, <3>3, <3>4
    <3> QED
      BY <3>3, <3>4, <3>5 DEF SlotsAccount
  <2>8. Drained'
    <3>1. phase # "drained"
      BY <1>1 DEF IInv, Drained, Counted, Holding
    <3> QED
      BY <1>1, <3>1 DEF Drained
  <2>9. OneWriter'
    <3>1. \A p \in Reqs : req'[p].at = "refusing" => p # q /\ req'[p] = req[p]
      BY <1>2 DEF OnlyReq
    <3>2. \A s \in Ids : run'[s].at \in Writing => run'[s] = run[s]
      BY <2>2 DEF OnlyRun, Writing
    <3>3. ASSUME NEW p \in Reqs, req'[p].at = "refusing"
          PROVE  /\ req'[p].id \in Ids
                 /\ ledger'[req'[p].id].by = "server" /\ ledger'[req'[p].id].end = "none"
                 /\ run'[req'[p].id].at \notin Writing
                 /\ \A o \in Reqs : req'[o].at = "refusing" /\ req'[o].id = req'[p].id => o = p
      <4>1. req'[p] = req[p] /\ req[p].at = "refusing" /\ ledger' = ledger
        BY <1>1, <3>1, <3>3
      <4>2. /\ req[p].id \in Ids
            /\ ledger[req[p].id].by = "server" /\ ledger[req[p].id].end = "none"
            /\ run[req[p].id].at \notin Writing
            /\ \A o \in Reqs : req[o].at = "refusing" /\ req[o].id = req[p].id => o = p
        BY <4>1 DEF IInv, OneWriter
      <4>3. run'[req[p].id].at \notin Writing
        BY <3>2, <4>2
      <4> QED
        BY <3>1, <4>1, <4>2, <4>3
    <3>4. /\ \A s \in Ids : ledger'[s].by = "none" => ledger'[s].end = "none"
          /\ \A s \in Ids : run'[s].at \in Writing => ledger'[s].by = "server" /\ ledger'[s].end = "none"
      BY <1>1, <3>2 DEF IInv, OneWriter
    <3> QED
      BY <3>3, <3>4 DEF OneWriter
  <2>10. Outcomes'
    BY <1>1, <2>2, <2>4, SMTT(60) DEF IInv, Outcomes, OnlyRun, Unwinding, Lasting, Final
  <2>11. AnswersAreOnRecord'
    BY <1>1 DEF IInv, AnswersAreOnRecord
  <2> QED
    BY <2>5, <2>6, <2>7, <2>8, <2>9, <2>10, <2>11 DEF IInv
<1> QED
  BY <1>3, <1>4 DEF Mint

-----------------------------------------------------------------------------
(* The goroutine of a run.                                                  *)

(* A goroutine that stays keeps its slot and its unit.                     *)
LEMMA RunStays ==
  ASSUME IInv, NEW r \in Ids, OnlyRun(r), run[r].at # "none", run'[r].at # "none",
         UNCHANGED <<phase, slots, wg, req>>
  PROVE  SlotsAccount' /\ Drained'
<1>1. Live' = Live
  BY DEF Live, OnlyRun
<1>2. Holding' = Holding /\ Counted' = Counted
  BY Same
<1>3. SlotsAccount'
  BY <1>1, <1>2 DEF IInv, SlotsAccount
<1>4. Drained'
  BY <1>1, <1>2 DEF IInv, Drained
<1> QED
  BY <1>3, <1>4

(* A ledger passes to no second writer.                                    *)
LEMMA WriterStep ==
  ASSUME IInv, NEW r \in Ids, OnlyRun(r), OnlyLedger(r), UNCHANGED req,
         ledger'[r].by = "none" => ledger'[r].end = "none",
         run'[r].at \in Writing => ledger'[r].by = "server" /\ ledger'[r].end = "none",
         \A q \in Reqs : req[q].at = "refusing" /\ req[q].id = r =>
                           ledger'[r] = ledger[r] /\ run'[r].at \notin Writing
  PROVE  OneWriter'
<1>1. \A s \in Ids : ledger'[s].by = "none" => ledger'[s].end = "none"
  BY DEF IInv, OneWriter, OnlyLedger
<1>2. \A s \in Ids : run'[s].at \in Writing => ledger'[s].by = "server" /\ ledger'[s].end = "none"
  BY ZenonT(60) DEF IInv, OneWriter, OnlyLedger, OnlyRun
<1>3. ASSUME NEW q \in Reqs, req'[q].at = "refusing"
      PROVE  /\ req'[q].id \in Ids
             /\ ledger'[req'[q].id].by = "server" /\ ledger'[req'[q].id].end = "none"
             /\ run'[req'[q].id].at \notin Writing
             /\ \A p \in Reqs : req'[p].at = "refusing" /\ req'[p].id = req'[q].id => p = q
  <2>1. /\ req[q].id \in Ids
        /\ ledger[req[q].id].by = "server" /\ ledger[req[q].id].end = "none"
        /\ run[req[q].id].at \notin Writing
        /\ \A p \in Reqs : req[p].at = "refusing" /\ req[p].id = req[q].id => p = q
    BY <1>3 DEF IInv, OneWriter
  <2>2. CASE req[q].id = r
    BY <1>3, <2>1, <2>2
  <2>3. CASE req[q].id # r
    BY <1>3, <2>1, <2>3 DEF OnlyLedger, OnlyRun
  <2> QED
    BY <2>2, <2>3
<1> QED
  BY <1>1, <1>2, <1>3 DEF OneWriter

(* The outcomes, when a goroutine moves and the table is not told.         *)
LEMMA OutcomeStep ==
  ASSUME IInv, NEW r \in Ids, OnlyRun(r), OnlyLedger(r), UNCHANGED <<table, told>>,
         ledger[r].end = "none" \/ ledger'[r].end = ledger[r].end,
         run'[r].at = "ending" => run'[r].result \in {"succeeded", "failed", "cancelled"},
         run'[r].at \in Unwinding =>
           run'[r].result # "none" /\ (run'[r].result \in Lasting => ledger'[r].end = run'[r].result)
  PROVE  Outcomes' /\ AnswersAreOnRecord'
<1>1. \A s \in Ids : ledger[s].end \in Lasting => ledger'[s].end = ledger[s].end
  BY Recorded
<1>2. \A s \in Ids : table'[s] \in Lasting => ledger'[s].end = table'[s]
  BY <1>1 DEF IInv, Outcomes
<1>3. \A s \in Ids : run'[s].at = "ending" => run'[s].result \in {"succeeded", "failed", "cancelled"}
  BY DEF IInv, Outcomes, OnlyRun
<1>4. \A s \in Ids : run'[s].at \in Unwinding =>
        run'[s].result # "none" /\ (run'[s].result \in Lasting => ledger'[s].end = run'[s].result)
  BY <1>1 DEF IInv, Outcomes, OnlyRun
<1>5. AnswersAreOnRecord'
  BY <1>1 DEF IInv, AnswersAreOnRecord, Lasting, Final
<1> QED
  BY <1>2, <1>3, <1>4, <1>5 DEF Outcomes

(* What a step of Unheard leaves to show of a goroutine that has not       *)
(* finished.                                                               *)
LEMMA EngineStep ==
  ASSUME IInv, NEW r \in Ids, OnlyRun(r), OnlyLedger(r), UNCHANGED Unheard,
         run[r].at \notin {"none", "finished"}, run'[r].at \notin {"none", "finished"}
  PROVE  Types' /\ SlotsAccount' /\ Owners' /\ Drained'
<1>1. UNCHANGED <<phase, slots, wg, applying, req, table, told>>
  BY DEF Unheard
<1>2. Types'
  BY <1>1 DEF IInv, Types, OnlyRun, OnlyLedger
<1>3. Owners'
  BY <1>1 DEF IInv, Owners, OnlyRun
<1> QED
  BY <1>1, <1>2, <1>3, RunStays

(* A goroutine whose run failed without a final event.                     *)
LEMMA ReturnsIs ==
  ASSUME IInv, NEW r \in Ids, NEW from, Returns(r, from, "failed")
  PROVE  OnlyRun(r) /\ run[r].at = from /\ run'[r].at = "returned" /\ run'[r].result = "failed"
<1>1. [at |-> "returned", result |-> "failed"] \in Goroutines
  BY DEF Goroutines, Unwinding, Final
<1> QED
  BY <1>1, RunIs, Zenon DEF Returns, IInv, Types

(* A step of a goroutine that keeps its result.                            *)
LEMMA StepIs ==
  ASSUME IInv, NEW r \in Ids, NEW from, NEW to \in {"none", "minted"} \cup Writing \cup Unwinding,
         Step(r, from, to)
  PROVE  OnlyRun(r) /\ run[r].at = from /\ run'[r].at = to /\ run'[r].result = run[r].result
  BY RunAt, Zenon DEF Step, IInv, Types

(* No ledger is touched.                                                   *)
LEMMA LedgerSame ==
  ASSUME IInv, NEW r \in Ids, UNCHANGED ledger
  PROVE  OnlyLedger(r)
  BY DEF IInv, Types, OnlyLedger

(* The engine creates the run's ledger exclusively, or the run fails.      *)
LEMMA OpenLogKeeps ==
  ASSUME IInv, NEW r \in Ids, OpenLog(r)
  PROVE  IInv'
<1>1. UNCHANGED Unheard /\ UNCHANGED <<req, table, told>>
  BY DEF OpenLog, Unheard
<1>2. /\ OnlyRun(r) /\ run[r].at = "minted"
      /\ run'[r].at \in {"opened", "returned"}
      /\ run'[r].at = "returned" => run'[r].result = "failed"
      /\ OnlyLedger(r)
      /\ \/ ledger[r].by = "none" /\ ledger'[r].by = "server" /\ ledger'[r].end = ledger[r].end
         \/ run'[r].at = "returned" /\ ledger' = ledger
  <2>1. CASE Returns(r, "minted", "failed") /\ UNCHANGED ledger
    BY <2>1, ReturnsIs, LedgerSame
  <2>2. ASSUME ledger[r].by = "none", ledger' = [ledger EXCEPT ![r].by = "server"],
               Step(r, "minted", "opened") \/ Returns(r, "minted", "failed")
        PROVE  <1>2!:
    <3>1. OnlyLedger(r) /\ ledger'[r].by = "server" /\ ledger'[r].end = ledger[r].end
      BY <2>2, LedgerBy, Zenon DEF IInv, Types
    <3> QED
      BY <2>2, <3>1, ReturnsIs, StepIs DEF Writing
  <2> QED
    BY <2>1, <2>2 DEF OpenLog
<1>3. ledger[r].by = "none" => /\ ledger[r].end = "none"
                               /\ \A q \in Reqs : req[q].at = "refusing" => req[q].id # r
  BY DEF IInv, OneWriter
<1>4. Types' /\ SlotsAccount' /\ Owners' /\ Drained'
  BY <1>1, <1>2, EngineStep
<1>5. OneWriter'
  <2>1. ledger'[r].by = "none" => ledger'[r].end = "none"
    BY <1>2, <1>3
  <2>2. run'[r].at \in Writing => ledger'[r].by = "server" /\ ledger'[r].end = "none"
    BY <1>2, <1>3 DEF Writing
  <2>3. \A q \in Reqs : req[q].at = "refusing" /\ req[q].id = r => ledger'[r] = ledger[r] /\ run'[r].at \notin Writing
    BY <1>2, <1>3 DEF Writing
  <2> QED
    BY <1>1, <1>2, <2>1, <2>2, <2>3, WriterStep
<1>6. Outcomes' /\ AnswersAreOnRecord'
  BY <1>1, <1>2, OutcomeStep DEF Unwinding, Lasting
<1> QED
  BY <1>4, <1>5, <1>6 DEF IInv

(* A goroutine that writes owns its ledger, which has no final event.      *)
LEMMA Owned ==
  ASSUME IInv, NEW r \in Ids, run[r].at \in Writing
  PROVE  /\ ledger[r].by = "server" /\ ledger[r].end = "none"
         /\ \A q \in Reqs : req[q].at = "refusing" => req[q].id # r
  BY DEF IInv, OneWriter

(* The first and the final record are begun.                               *)
LEMMA WriteKeeps ==
  ASSUME IInv, NEW r \in Ids, Write(r)
  PROVE  IInv'
<1>1. UNCHANGED Unheard /\ UNCHANGED <<req, table, told>>
  BY DEF Write, Unheard
<1>2. OnlyLedger(r) /\ ledger'[r].by = ledger[r].by /\ ledger'[r].end = ledger[r].end
  BY LedgerTorn, Zenon DEF Write, IInv, Types
<1>3. /\ OnlyRun(r) /\ run[r].at \in {"opened", "started"}
      /\ run'[r].at \in {"starting", "ending"}
      /\ run'[r].at = "ending" => run'[r].result \in {"succeeded", "failed", "cancelled"}
  <2>1. CASE Step(r, "opened", "starting")
    BY <2>1, StepIs DEF Writing
  <2>2. ASSUME NEW s \in {"succeeded", "failed", "cancelled"}, run[r].at = "started",
               run' = [run EXCEPT ![r] = [at |-> "ending", result |-> s]]
        PROVE  <1>3!:
    <3>1. [at |-> "ending", result |-> s] \in Goroutines
      BY DEF Goroutines, Writing, Final
    <3> QED
      BY <2>2, <3>1, RunIs, Zenon DEF IInv, Types
  <2> QED
    BY <2>1, <2>2 DEF Write
<1>4. /\ ledger[r].by = "server" /\ ledger[r].end = "none"
      /\ \A q \in Reqs : req[q].at = "refusing" => req[q].id # r
  BY <1>3, Owned DEF Writing
<1>5. Types' /\ SlotsAccount' /\ Owners' /\ Drained'
  BY <1>1, <1>2, <1>3, EngineStep
<1>6. OneWriter'
  BY <1>1, <1>2, <1>3, <1>4, WriterStep
<1>7. Outcomes' /\ AnswersAreOnRecord'
  BY <1>1, <1>2, <1>3, OutcomeStep DEF Unwinding
<1> QED
  BY <1>5, <1>6, <1>7 DEF IInv

(* The first and the final record are whole.                               *)
LEMMA WrittenKeeps ==
  ASSUME IInv, NEW r \in Ids, Written(r)
  PROVE  IInv'
<1>1. UNCHANGED Unheard /\ UNCHANGED <<req, table, told>>
  BY DEF Written, Unheard
<1>2. /\ OnlyRun(r) /\ OnlyLedger(r) /\ ledger'[r].by = ledger[r].by
      /\ \/ run[r].at = "starting" /\ run'[r].at = "started" /\ ledger'[r].end = ledger[r].end
         \/ /\ run[r].at = "ending" /\ run'[r].at = "returned"
            /\ run'[r].result = run[r].result /\ ledger'[r].end = run[r].result
            /\ run[r].result \in {"succeeded", "failed", "cancelled"}
  <2>1. CASE Step(r, "starting", "started") /\ ledger' = [ledger EXCEPT ![r].torn = FALSE]
    <3>1. OnlyRun(r) /\ run[r].at = "starting" /\ run'[r].at = "started"
      BY <2>1, StepIs DEF Writing
    <3>2. OnlyLedger(r) /\ ledger'[r].by = ledger[r].by /\ ledger'[r].end = ledger[r].end
      BY <2>1, LedgerTorn, Zenon DEF IInv, Types
    <3> QED
      BY <3>1, <3>2
  <2>2. CASE /\ Step(r, "ending", "returned")
             /\ ledger' = [ledger EXCEPT ![r].torn = FALSE, ![r].end = run[r].result]
    <3>1. OnlyRun(r) /\ run[r].at = "ending" /\ run'[r].at = "returned" /\ run'[r].result = run[r].result
      BY <2>2, StepIs DEF Unwinding
    <3>2. run[r].result \in {"succeeded", "failed", "cancelled"}
      BY <3>1 DEF IInv, Outcomes
    <3>3. run[r].result \in Final
      BY <3>2 DEF Final
    <3>4. OnlyLedger(r) /\ ledger'[r].by = ledger[r].by /\ ledger'[r].end = run[r].result
      BY <2>2, <3>3, LedgerEnds, Zenon DEF IInv, Types
    <3> QED
      BY <3>1, <3>2, <3>4
  <2> QED
    BY <2>1, <2>2, Zenon DEF Written
<1>3. /\ ledger[r].by = "server" /\ ledger[r].end = "none"
      /\ \A q \in Reqs : req[q].at = "refusing" => req[q].id # r
  BY <1>2, Owned DEF Writing
<1>4. Types' /\ SlotsAccount' /\ Owners' /\ Drained'
  BY <1>1, <1>2, EngineStep
<1>5. OneWriter'
  BY <1>1, <1>2, <1>3, WriterStep DEF Writing
<1>6. Outcomes' /\ AnswersAreOnRecord'
  BY <1>1, <1>2, <1>3, OutcomeStep DEF Unwinding
<1> QED
  BY <1>4, <1>5, <1>6 DEF IInv

(* A failed append returns failed, whatever the outcome was to be.         *)
LEMMA WriteFailsKeeps ==
  ASSUME IInv, NEW r \in Ids, WriteFails(r)
  PROVE  IInv'
<1>1. UNCHANGED Unheard /\ UNCHANGED <<req, table, told>>
  BY DEF WriteFails, Unheard
<1>2. OnlyLedger(r) /\ ledger'[r].by = ledger[r].by
  <2>1. CASE \E torn \in BOOLEAN : ledger' = [ledger EXCEPT ![r].torn = torn]
    BY <2>1, LedgerTorn, Zenon DEF IInv, Types
  <2>2. CASE run[r].at = "ending" /\ ledger' = [ledger EXCEPT ![r].torn = FALSE, ![r].end = run[r].result]
    <3>1. run[r].result \in Final
      BY <2>2 DEF IInv, Outcomes, Final
    <3> QED
      BY <2>2, <3>1, LedgerEnds, Zenon DEF IInv, Types
  <2> QED
    BY <2>1, <2>2, Zenon DEF WriteFails
<1>3. /\ OnlyRun(r) /\ run[r].at \in {"starting", "ending"}
      /\ run'[r].at = "returned" /\ run'[r].result = "failed"
  BY ReturnsIs DEF WriteFails
<1>4. /\ ledger[r].by = "server" /\ ledger[r].end = "none"
      /\ \A q \in Reqs : req[q].at = "refusing" => req[q].id # r
  BY <1>3, Owned DEF Writing
<1>5. Types' /\ SlotsAccount' /\ Owners' /\ Drained'
  BY <1>1, <1>2, <1>3, EngineStep
<1>6. OneWriter'
  BY <1>1, <1>2, <1>3, <1>4, WriterStep DEF Writing
<1>7. Outcomes' /\ AnswersAreOnRecord'
  BY <1>1, <1>2, <1>3, <1>4, OutcomeStep DEF Unwinding, Lasting
<1> QED
  BY <1>5, <1>6, <1>7 DEF IInv

(* recover() in the goroutine returns failed.                              *)
LEMMA PanicKeeps ==
  ASSUME IInv, NEW r \in Ids, Panic(r)
  PROVE  IInv'
<1>1. UNCHANGED Unheard /\ UNCHANGED <<req, table, told, ledger>>
  BY DEF Panic, Unheard
<1>2. OnlyLedger(r)
  BY <1>1, LedgerSame
<1>3. /\ OnlyRun(r) /\ run[r].at \in {"opened", "started"}
      /\ run'[r].at = "returned" /\ run'[r].result = "failed"
  BY ReturnsIs DEF Panic
<1>4. /\ ledger[r].by = "server" /\ ledger[r].end = "none"
      /\ \A q \in Reqs : req[q].at = "refusing" => req[q].id # r
  BY <1>3, Owned DEF Writing
<1>5. Types' /\ SlotsAccount' /\ Owners' /\ Drained'
  BY <1>1, <1>2, <1>3, EngineStep
<1>6. OneWriter'
  BY <1>1, <1>2, <1>3, <1>4, WriterStep DEF Writing
<1>7. Outcomes' /\ AnswersAreOnRecord'
  BY <1>1, <1>2, <1>3, OutcomeStep DEF Unwinding, Lasting
<1> QED
  BY <1>5, <1>6, <1>7 DEF IInv

(* The table takes the result, which the ledger has if it is to last.      *)
LEMMA FinishKeeps ==
  ASSUME IInv, NEW r \in Ids, Finish(r)
  PROVE  IInv'
<1>1. UNCHANGED <<phase, slots, wg, applying, req, ledger, told>>
  BY DEF Finish
<1>2. OnlyLedger(r)
  BY <1>1, LedgerSame
<1>3. OnlyRun(r) /\ run[r].at = "returned" /\ run'[r].at = "finished" /\ run'[r].result = run[r].result
  BY StepIs DEF Finish, Unwinding
<1>4. /\ run[r].result \in Final
      /\ run[r].result \in Lasting => ledger[r].end = run[r].result
  <2>1. run[r].result \in Final \cup {"none"}
    BY DEF IInv, Types, Goroutines
  <2> QED
    BY <1>3, <2>1 DEF IInv, Outcomes, Unwinding
<1>5. /\ table' \in [Ids -> Final \cup {"none", "running"}]
      /\ table'[r] = run[r].result /\ \A s \in Ids : s # r => table'[s] = table[s]
  BY <1>4 DEF Finish, IInv, Types
<1>6. Types'
  BY <1>1, <1>2, <1>3, <1>5 DEF IInv, Types, OnlyRun, OnlyLedger
<1>7. Owners'
  BY <1>1, <1>3, <1>4, <1>5 DEF IInv, Owners, OnlyRun, Final
<1>8. SlotsAccount' /\ Drained'
  BY <1>1, <1>3, RunStays
<1>9. OneWriter'
  <2>1. ledger'[r].by = "none" => ledger'[r].end = "none"
    BY <1>1 DEF IInv, OneWriter
  <2> QED
    BY <1>1, <1>2, <1>3, <2>1, WriterStep DEF Writing
<1>10. Outcomes'
  <2>1. \A s \in Ids : table'[s] \in Lasting => ledger'[s].end = table'[s]
    BY <1>1, <1>4, <1>5 DEF IInv, Outcomes
  <2>2. \A s \in Ids : run'[s].at = "ending" => run'[s].result \in {"succeeded", "failed", "cancelled"}
    BY <1>3 DEF IInv, Outcomes, OnlyRun
  <2>3. \A s \in Ids : run'[s].at \in Unwinding =>
          run'[s].result # "none" /\ (run'[s].result \in Lasting => ledger'[s].end = run'[s].result)
    BY <1>1, <1>3, <1>4 DEF IInv, Outcomes, OnlyRun, Final
  <2> QED
    BY <2>1, <2>2, <2>3 DEF Outcomes
<1>11. AnswersAreOnRecord'
  BY <1>1 DEF IInv, AnswersAreOnRecord
<1> QED
  BY <1>6, <1>7, <1>8, <1>9, <1>10, <1>11 DEF IInv

(* The goroutine gives its slot and its unit back.                         *)
LEMMA ReleaseKeeps ==
  ASSUME IInv, NEW r \in Ids, Release(r)
  PROVE  IInv'
<1>1. /\ UNCHANGED <<phase, applying, req, table, ledger, told>>
      /\ run[r].at = "finished" /\ slots' = slots - 1 /\ wg' = wg - 1
  BY DEF Release, release
<1>2. OnlyLedger(r)
  BY <1>1, LedgerSame
<1>3. OnlyRun(r) /\ run'[r].at = "none"
  <2>1. NoRun \in Goroutines /\ NoRun.at = "none"
    BY DEF NoRun, Goroutines
  <2> QED
    BY <2>1, RunIs, Zenon DEF Release, IInv, Types
<1>4. Types'
  BY <1>1, <1>2, <1>3 DEF IInv, Types, OnlyRun, OnlyLedger
<1>5. Owners'
  BY <1>1, <1>3 DEF IInv, Owners, OnlyRun
<1>6. SlotsAccount'
  <2>1. Cardinality(Live) \in Nat /\ Cardinality(Live') \in Nat /\ Cardinality(Live') = Cardinality(Live) - 1
    BY <1>1, <1>3, RunMove DEF OnlyRun, Bit
  <2>2. Cardinality(Holding') = Cardinality(Holding) /\ Cardinality(Counted') = Cardinality(Counted)
        /\ Cardinality(Holding) \in Nat /\ Cardinality(Counted) \in Nat
    BY <1>1, Same, Finite, FS_CardinalityType
  <2>3. /\ slots = Cardinality(Holding) + Cardinality(Live) /\ wg = Cardinality(Counted) + Cardinality(Live)
        /\ slots <= MaxConcurrentRuns
    BY DEF IInv, SlotsAccount
  <2>4. /\ slots' = Cardinality(Holding') + Cardinality(Live') /\ wg' = Cardinality(Counted') + Cardinality(Live')
        /\ slots' <= MaxConcurrentRuns
    BY <1>1, <2>1, <2>2, <2>3, Bounds
  <2> QED
    BY <2>4 DEF SlotsAccount
<1>7. Drained'
  <2>1. phase # "drained"
    BY <1>1 DEF IInv, Drained, Live
  <2> QED
    BY <1>1, <2>1 DEF Drained
<1>8. OneWriter'
  <2>1. ledger'[r].by = "none" => ledger'[r].end = "none"
    BY <1>1 DEF IInv, OneWriter
  <2> QED
    BY <1>1, <1>2, <1>3, <2>1, WriterStep DEF Writing
<1>9. Outcomes' /\ AnswersAreOnRecord'
  BY <1>1, <1>2, <1>3, OutcomeStep DEF Unwinding
<1> QED
  BY <1>4, <1>5, <1>6, <1>7, <1>8, <1>9 DEF IInv

-----------------------------------------------------------------------------
(* The clients, the other process and the life of this one.                 *)

(* A step that changes nothing the accounts are about.                     *)
LEMMA AccountsStand ==
  ASSUME IInv, UNCHANGED <<phase, slots, wg, applying, req, run, table>>
  PROVE  SlotsAccount' /\ Owners' /\ Drained'
<1>1. Holding' = Holding /\ Counted' = Counted /\ Live' = Live
  BY Same
<1> QED
  BY <1>1 DEF IInv, SlotsAccount, Owners, Drained

(* A client is told the table's word, else the ledger's.                   *)
LEMMA GetRunKeeps ==
  ASSUME IInv, NEW r \in Ids, GetRun(r)
  PROVE  IInv'
<1>1. UNCHANGED <<phase, slots, wg, applying, req, run, table, ledger>>
  BY DEF GetRun, memory
<1> DEFINE s == IF table[r] # "none" THEN table[r] ELSE DiskStatus(r)
<1>2. (s \in Lasting => ledger[r].end = s) /\ Tell(r, s)
  <2>1. Tell(r, s)
    BY DEF GetRun
  <2>2. s \in Lasting => ledger[r].end = s
    BY DEF DiskStatus, IInv, Outcomes, Lasting, Final
  <2> QED
    BY <2>1, <2>2
<1> HIDE DEF s
<1>3. told' \in [Ids -> Lasting \cup {"none"}] /\ AnswersAreOnRecord'
  <2>1. CASE s \in Lasting
    <3>1. told' = [told EXCEPT ![r] = s] /\ told \in [Ids -> Lasting \cup {"none"}]
      BY <1>2, <2>1 DEF Tell, IInv, Types
    <3>2. \A x \in Ids : told'[x] = IF x = r THEN s ELSE told[x]
      BY <3>1
    <3> QED
      BY <1>1, <1>2, <2>1, <3>1, <3>2 DEF IInv, AnswersAreOnRecord
  <2>2. CASE s \notin Lasting
    BY <1>1, <1>2, <2>2 DEF Tell, IInv, Types, AnswersAreOnRecord
  <2> QED
    BY <2>1, <2>2
<1>4. Types'
  BY <1>1, <1>3 DEF IInv, Types
<1>5. OneWriter' /\ Outcomes'
  BY <1>1, Zenon DEF IInv, OneWriter, Outcomes
<1> QED
  BY <1>1, <1>3, <1>4, <1>5, AccountsStand DEF IInv

(* Another process creates and ends ledgers of its own.                    *)
LEMMA OtherRunKeeps ==
  ASSUME IInv, NEW r \in Ids, OtherRun(r)
  PROVE  IInv'
<1>1. UNCHANGED <<phase, slots, wg, applying, req, run, table, told>>
  BY DEF OtherRun, memory
<1>2. ledger[r].by \in {"none", "other"} /\ ledger[r].end = "none"
  BY DEF OtherRun, IInv, OneWriter
<1>3. OnlyLedger(r) /\ ledger'[r].by = "other"
  <2>1. CASE ledger' = [ledger EXCEPT ![r].by = "other"]
    BY <2>1, LedgerBy, Zenon DEF IInv, Types
  <2>2. CASE ledger[r].by = "other" /\ ledger' = [ledger EXCEPT ![r].end = "succeeded"]
    BY <2>2, LedgerEnd, Zenon DEF IInv, Types, Final
  <2> QED
    BY <2>1, <2>2 DEF OtherRun
<1>4. OnlyRun(r)
  BY <1>1 DEF IInv, Types, OnlyRun
<1>5. run[r].at \notin Writing /\ \A q \in Reqs : req[q].at = "refusing" => req[q].id # r
  BY <1>2, Zenon DEF IInv, OneWriter
<1>6. Types'
  BY <1>1, <1>3 DEF IInv, Types, OnlyLedger
<1>7. OneWriter'
  BY <1>1, <1>3, <1>4, <1>5, WriterStep, Zenon
<1>8. \A s \in Ids : ledger[s].end \in Lasting => ledger'[s].end = ledger[s].end
  BY <1>2, <1>3, Recorded
<1>9. Outcomes'
  BY <1>1, <1>8 DEF IInv, Outcomes
<1>10. AnswersAreOnRecord'
  BY <1>1, <1>8 DEF IInv, AnswersAreOnRecord, Lasting, Final
<1> QED
  BY <1>1, <1>6, <1>7, <1>9, <1>10, AccountsStand DEF IInv

(* The WaitGroup at zero: nothing is counted and no goroutine is left.     *)
LEMMA NothingLeft ==
  ASSUME IInv, wg = 0
  PROVE  Live = {} /\ Counted = {}
<1>1. /\ Cardinality(Counted) \in Nat /\ Cardinality(Live) \in Nat
      /\ Cardinality(Counted) + Cardinality(Live) = 0
  BY Finite, FS_CardinalityType DEF IInv, SlotsAccount
<1>2. Cardinality(Counted) = 0 /\ Cardinality(Live) = 0
  BY <1>1
<1> QED
  BY <1>2, Finite, FS_EmptySet

(* A step of the process's own phase, which no run or handler takes.       *)
LEMMA PhaseKeeps ==
  ASSUME IInv, UNCHANGED <<slots, wg, applying, req, run, table, ledger, told>>,
         phase' \in {"up", "draining", "cancelled", "drained", "late", "down"},
         phase' = "drained" => phase = "drained" \/ wg = 0
  PROVE  IInv'
<1>1. Holding' = Holding /\ Counted' = Counted /\ Live' = Live
  BY Same
<1>2. Types' /\ SlotsAccount' /\ Owners'
  BY <1>1 DEF IInv, Types, SlotsAccount, Owners
<1>3. OneWriter' /\ Outcomes' /\ AnswersAreOnRecord'
  BY Zenon DEF IInv, OneWriter, Outcomes, AnswersAreOnRecord
<1>4. Drained'
  BY <1>1, NothingLeft DEF IInv, Drained
<1> QED
  BY <1>2, <1>3, <1>4 DEF IInv

(* A process that is gone has nothing in memory, and the disk has not moved. *)
LEMMA EndedKeeps ==
  ASSUME IInv, Ended
  PROVE  IInv'
<1>1. /\ phase' = "down" /\ slots' = 0 /\ wg' = 0 /\ applying' = FALSE
      /\ req' \in [Reqs -> Handlers] /\ \A q \in Reqs : req'[q].at \in {"idle", "done"}
      /\ UNCHANGED <<ledger, told>>
  BY DoneIs DEF Ended
<1>2. run' \in [Ids -> Goroutines] /\ \A r \in Ids : run'[r].at = "none"
  BY DEF Ended, NoRun, Goroutines
<1>3. table' \in [Ids -> Final \cup {"none", "running"}] /\ \A r \in Ids : table'[r] = "none"
  BY DEF Ended
<1>4. Types'
  BY <1>1, <1>2, <1>3, Zenon DEF IInv, Types
<1>5. Holding' = {} /\ Counted' = {} /\ Live' = {}
  BY <1>1, <1>2 DEF Holding, Counted, Live
<1>6. SlotsAccount'
  <2>1. Cardinality({}) = 0
    BY FS_EmptySet
  <2> QED
    BY <1>1, <1>5, <2>1, Bounds DEF SlotsAccount
<1>7. Owners' /\ Drained'
  BY <1>1, <1>2, <1>3 DEF Owners, Drained
<1>8. OneWriter'
  BY <1>1, <1>2, Zenon DEF IInv, OneWriter, Writing
<1>9. Outcomes' /\ AnswersAreOnRecord'
  BY <1>1, <1>2, <1>3 DEF IInv, Outcomes, AnswersAreOnRecord, Unwinding, Lasting, Final
<1> QED
  BY <1>4, <1>6, <1>7, <1>8, <1>9 DEF IInv

-----------------------------------------------------------------------------
(* The theorems.                                                            *)

(* A server starts with nothing admitted.                                  *)
LEMMA InitIInv == Init => IInv
<1> SUFFICES ASSUME Init PROVE IInv
  OBVIOUS
<1>1. /\ phase = "up" /\ slots = 0 /\ wg = 0 /\ applying = FALSE
      /\ req \in [Reqs -> Handlers] /\ \A q \in Reqs : req[q].at = "idle"
  BY DoneIs DEF Init, New
<1>2. run \in [Ids -> Goroutines] /\ \A r \in Ids : run[r].at = "none"
  BY DEF Init, New, NoRun, Goroutines
<1>3. table \in [Ids -> Final \cup {"none", "running"}] /\ \A r \in Ids : table[r] = "none"
  BY DEF Init, New
<1>4. ledger \in [Ids -> Ledgers] /\ \A r \in Ids : ledger[r].by = "none" /\ ledger[r].end = "none"
  BY DEF Init, Absent, Ledgers
<1>5. told \in [Ids -> Lasting \cup {"none"}] /\ \A r \in Ids : told[r] = "none"
  BY DEF Init
<1>6. Types
  BY <1>1, <1>2, <1>3, <1>4, <1>5, Zenon DEF Types
<1>7. Holding = {} /\ Counted = {} /\ Live = {}
  BY <1>1, <1>2 DEF Holding, Counted, Live
<1>8. SlotsAccount
  <2>1. Cardinality({}) = 0
    BY FS_EmptySet
  <2> QED
    BY <1>1, <1>7, <2>1, Bounds DEF SlotsAccount
<1>9. Owners /\ Drained
  BY <1>1, <1>2, <1>3 DEF Owners, Drained
<1>10. OneWriter
  BY <1>1, <1>2, <1>4 DEF OneWriter, Writing
<1>11. Outcomes /\ AnswersAreOnRecord
  BY <1>2, <1>3, <1>5 DEF Outcomes, AnswersAreOnRecord, Unwinding, Lasting, Final
<1> QED
  BY <1>6, <1>8, <1>9, <1>10, <1>11 DEF IInv

(* Every step keeps the invariant.                                         *)
LEMMA NextIInv == IInv /\ [Next]_vars => IInv'
<1> SUFFICES ASSUME IInv, [Next]_vars PROVE IInv'
  OBVIOUS
<1>1. ASSUME NEW q \in Reqs, Authenticate(q) \/ Handler(q) PROVE IInv'
  <2>1. ASSUME NEW r \in Ids, Refuse(q, r) PROVE IInv'
    BY <2>1, RefuseKeeps
  <2> QED
    BY <1>1, <2>1, AuthenticateKeeps, AdmitKeeps, ReserveKeeps, DropKeeps, MintKeeps, RefusedKeeps,
       ApplyKeeps, AppliedKeeps, Zenon DEF Handler
<1>2. ASSUME NEW r \in Ids, Engine(r) PROVE IInv'
  BY <1>2, OpenLogKeeps, WriteKeeps, WrittenKeeps, WriteFailsKeeps, PanicKeeps, FinishKeeps, ReleaseKeeps, Zenon
  DEF Engine
<1>3. ASSUME NEW r \in Ids, GetRun(r) \/ OtherRun(r) PROVE IInv'
  BY <1>3, GetRunKeeps, OtherRunKeeps
<1>4. ASSUME NEW r \in Ids, CancelRun(r) PROVE IInv'
  <2>1. UNCHANGED <<phase, slots, wg, applying, req, run, table, ledger, told>>
    BY <1>4 DEF CancelRun
  <2> QED
    BY <2>1, PhaseKeeps DEF IInv, Types
<1>5. CASE Shutdown \/ Deadline \/ Restart
  <2>1. /\ UNCHANGED <<slots, wg, applying, req, run, table, ledger, told>>
        /\ phase' \in {"up", "draining", "cancelled", "drained", "late", "down"}
        /\ phase' = "drained" => wg = 0
    BY <1>5 DEF Shutdown, Deadline, Restart, memory
  <2> QED
    BY <2>1, PhaseKeeps
<1>6. CASE Exit \/ Crash
  BY <1>6, EndedKeeps DEF Exit, Crash
<1>7. CASE UNCHANGED vars
  <2>1. UNCHANGED <<phase, slots, wg, applying, req, run, table, ledger, told>>
    BY <1>7 DEF vars, memory
  <2> QED
    BY <2>1, PhaseKeeps DEF IInv, Types
<1> QED
  BY <1>1, <1>2, <1>3, <1>4, <1>5, <1>6, <1>7, Zenon DEF Next

(* Every reachable state of the server satisfies the inductive invariant:  *)
(* admit, reserve, mint, the goroutines of startRun, the reads, Shutdown,  *)
(* a crash and a restart each preserve it.                                 *)
THEOREM ServeInvariance == Spec => []IInv
  BY InitIInv, NextIInv, PTL DEF Spec

(* Slots and units are given back exactly once on every exit of reserve,   *)
(* of startRun and of the goroutine, and the cap of concurrent runs holds. *)
THEOREM SlotsAccounted == Spec => []SlotsAccount
<1>1. IInv => SlotsAccount
  BY DEF IInv
<1> QED
  BY <1>1, ServeInvariance, PTL

(* When Shutdown returns without an error, no run is running or unwinding, *)
(* no refusal or apply is half done, and none can still start.             *)
THEOREM DrainIsClean == Spec => []CleanDrain
<1>1. IInv => CleanDrain
  BY DEF IInv, Drained, Owners, CleanDrain, Live, Counted
<1> QED
  BY <1>1, ServeInvariance, PTL

(* An answer of success, cancellation or refusal is in the run's ledger,   *)
(* whatever write failed and however often the server was restarted.       *)
THEOREM AnswersStand == Spec => []AnswersAreOnRecord
<1>1. IInv => AnswersAreOnRecord
  BY DEF IInv
<1> QED
  BY <1>1, ServeInvariance, PTL
=============================================================================
