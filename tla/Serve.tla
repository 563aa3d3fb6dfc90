------------------------------- MODULE Serve -------------------------------
(***************************************************************************)
(* The API server of `agenthof serve` (internal/serve, cmd/agenthof):      *)
(* requests are authenticated, admitted against the drain and a number of  *)
(* run slots, and start runs in goroutines of the server's own; a table in *)
(* memory holds the runs the process hosts, and a run of an earlier process *)
(* or of another one is judged by its ledger on disk.  A signal drains the *)
(* server; a crash or a second signal ends it at once, and what the disk   *)
(* holds is all a later process knows.                                     *)
(*                                                                         *)
(* A ledger is reduced to who created it, whether its last record is torn, *)
(* and its final event; RunEngine models what the engine writes between    *)
(* the first record and the last.                                          *)
(***************************************************************************)
EXTENDS Naturals, FiniteSets

CONSTANTS
  Reqs,              \* the POST requests
  Ids,               \* the run ids NewRunID may draw
  MaxConcurrentRuns, \* the run slots
  MaxLives           \* processes of the server, one after the other

ASSUME Bounds == /\ MaxConcurrentRuns \in Nat \ {0}
                 /\ MaxLives \in Nat \ {0}
                 /\ IsFiniteSet(Reqs) /\ IsFiniteSet(Ids)

VARIABLES
  phase,     \* "up", the stages of Shutdown, "down"
  lives,     \* processes started so far
  slots, wg, \* slots held; units of work the WaitGroup counts
  applying,  \* applyMu is held
  req,       \* the handler of each POST
  run,       \* the goroutine of each hosted run
  table,     \* runTable: the status of each hosted run
  asked,     \* hosted runs whose context a client cancelled
  ledger,    \* the run ledgers on disk
  told       \* the outcome a client was last told of each run, if lasting

memory == <<slots, wg, applying, req, run, table, asked>>
vars == <<phase, lives, memory, ledger, told>>

Final == {"succeeded", "failed", "cancelled", "refused"}
Lasting == Final \ {"failed"}
NoId == "no id"
Idle == [at |-> "idle", id |-> NoId]
Done == [at |-> "done", id |-> NoId]
Absent == [by |-> "none", end |-> "none", torn |-> FALSE]
NoRun == [at |-> "none", result |-> "none"]

(***************************************************************************)
(* The process.  `Up` is a process that can serve: reads are answered      *)
(* until it exits, new work only before the drain.                         *)
(***************************************************************************)
Up == phase # "down"
draining == phase \in {"draining", "cancelled", "drained", "late"}
CtxDone(r) == r \in asked \/ phase \in {"cancelled", "drained", "late"}

New ==
  /\ slots = 0 /\ wg = 0 /\ applying = FALSE
  /\ req = [q \in Reqs |-> Idle]
  /\ run = [r \in Ids |-> NoRun]
  /\ table = [r \in Ids |-> "none"]
  /\ asked = {}

Init ==
  /\ phase = "up" /\ lives = 1
  /\ New
  /\ ledger = [r \in Ids |-> Absent]
  /\ told = [r \in Ids |-> "none"]

(***************************************************************************)
(* Authentication: no bearer or a token the provider's keys do not verify  *)
(* is a 401, a provider that cannot be discovered a 503.  A failed         *)
(* discovery is not kept, so no answer here bears on a later request.      *)
(***************************************************************************)
Authenticate(q) ==
  /\ Up /\ req[q].at = "idle"
  /\ \E next \in {"post", "apply", "done"} : req' = [req EXCEPT ![q].at = next]
  /\ UNCHANGED <<phase, lives, slots, wg, applying, run, table, asked, ledger, told>>

(***************************************************************************)
(* POST /v1/runs.  reserve is admit, then a slot; then the body, the       *)
(* configuration and the gate; then a minted id and the run's goroutine.   *)
(* Every exit before the goroutine starts gives slot and unit back.        *)
(***************************************************************************)
Mut_admit(q, next) ==
  /\ wg' = wg + 1
  /\ req' = [req EXCEPT ![q].at = next]

admit(q, next) ==
  IF draining
    THEN /\ req' = [req EXCEPT ![q] = Done]     \* 503
         /\ UNCHANGED wg
    ELSE /\ wg' = wg + 1
         /\ req' = [req EXCEPT ![q].at = next]

Admit(q) ==
  /\ Up
  /\ \/ req[q].at = "post" /\ admit(q, "admitted")
     \/ req[q].at = "apply" /\ admit(q, "bundle")
  /\ UNCHANGED <<phase, lives, slots, applying, run, table, asked,
                 ledger, told>>

Mut_Reserve(q) ==
  /\ Up /\ req[q].at = "admitted"
  /\ IF slots < MaxConcurrentRuns
       THEN /\ slots' = slots + 1
            /\ req' = [req EXCEPT ![q].at = "reserved"]
       ELSE /\ req' = [req EXCEPT ![q] = Done]
            /\ UNCHANGED slots
  /\ UNCHANGED <<phase, lives, wg, applying, run, table, asked, ledger, told>>

Reserve(q) ==
  /\ Up /\ req[q].at = "admitted"
  /\ IF slots < MaxConcurrentRuns
       THEN /\ slots' = slots + 1
            /\ req' = [req EXCEPT ![q].at = "reserved"]
            /\ UNCHANGED wg
       ELSE /\ wg' = wg - 1                          \* done(), 429
            /\ req' = [req EXCEPT ![q] = Done]
            /\ UNCHANGED slots
  /\ UNCHANGED <<phase, lives, applying, run, table, asked, ledger, told>>

release == slots' = slots - 1 /\ wg' = wg - 1

\* A malformed body, a body that did not arrive in time, a name that is not
\* one, a busy or failed preparation: answered, nothing recorded.
Drop(q) ==
  /\ Up /\ req[q].at = "reserved"
  /\ release
  /\ req' = [req EXCEPT ![q] = Done]
  /\ UNCHANGED <<phase, lives, applying, run, table, asked, ledger, told>>

\* Prepare or Admit answers with a verdict: RecordRefused creates a ledger
\* under a fresh id of its own.  The table is not consulted.
Refuse(q, r) ==
  /\ Up /\ req[q].at = "reserved"
  /\ IF ledger[r].by = "none"
       THEN /\ ledger' = [ledger EXCEPT ![r].by = "server"]
            /\ req' = [req EXCEPT ![q] = [at |-> "refusing", id |-> r]]
            /\ UNCHANGED <<slots, wg>>
       ELSE /\ release                               \* 500
            /\ req' = [req EXCEPT ![q] = Done]
            /\ UNCHANGED ledger
  /\ UNCHANGED <<phase, lives, applying, run, table, asked,
                 told>>

Refused(q) ==
  LET r == req[q].id IN
  /\ Up /\ req[q].at = "refusing"
  /\ release
  /\ req' = [req EXCEPT ![q] = Done]
  /\ \/ /\ ledger' = [ledger EXCEPT ![r].end = "refused"]
        /\ told' = [told EXCEPT ![r] = "refused"]
     \/ /\ UNCHANGED told                             \* the append failed: 500
        /\ \/ \E torn \in BOOLEAN : ledger' = [ledger EXCEPT ![r].torn = torn]
           \/ ledger' = [ledger EXCEPT ![r].end = "refused"]
  /\ UNCHANGED <<phase, lives, applying, run, table, asked>>

\* mint draws up to three ids under the table's lock and takes the first
\* that neither the table nor the disk knows.
fresh(r) == table[r] = "none" /\ ledger[r].by = "none"

Mint(q) ==
  /\ Up /\ req[q].at = "reserved"
  /\ \/ \E r \in Ids :
          /\ fresh(r)
          /\ table' = [table EXCEPT ![r] = "running"]
          /\ run' = [run EXCEPT ![r] = [at |-> "minted", result |-> "none"]]
          /\ UNCHANGED <<slots, wg>>                 \* the goroutine's now
     \/ /\ \E r \in Ids : ~fresh(r)
        /\ release
        /\ UNCHANGED <<table, run>>
  /\ req' = [req EXCEPT ![q] = Done]
  /\ UNCHANGED <<phase, lives, applying, asked, ledger, told>>

(***************************************************************************)
(* The run's goroutine: the engine creates the ledger exclusively, writes  *)
(* its records and the final one, and returns a result; the table takes    *)
(* the result; slot and unit are given back.                               *)
(***************************************************************************)
Step(r, from, to) ==
  /\ Up /\ run[r].at = from
  /\ run' = [run EXCEPT ![r].at = to]

Returns(r, from, status) ==
  /\ Up /\ run[r].at = from
  /\ run' = [run EXCEPT ![r] = [at |-> "returned", result |-> status]]

Unheard == <<phase, lives, slots, wg, applying, req, table, asked,
             told>>

OpenLog(r) ==
  /\ \/ /\ ledger[r].by = "none"
        /\ ledger' = [ledger EXCEPT ![r].by = "server"]
        /\ \/ Step(r, "minted", "opened")
           \/ Returns(r, "minted", "failed")         \* no artifact store
     \/ Returns(r, "minted", "failed") /\ UNCHANGED ledger  \* exists, or no create
  /\ UNCHANGED Unheard

\* A record is on disk torn until its last byte is.
Write(r) ==
  /\ \/ /\ Step(r, "opened", "starting")
     \/ \E s \in {"succeeded", "failed", "cancelled"} :
          /\ s = "cancelled" => CtxDone(r)
          /\ Up /\ run[r].at = "started"
          /\ run' = [run EXCEPT ![r] = [at |-> "ending", result |-> s]]
  /\ ledger' = [ledger EXCEPT ![r].torn = TRUE]
  /\ UNCHANGED Unheard

Written(r) ==
  /\ \/ /\ Step(r, "starting", "started")
        /\ ledger' = [ledger EXCEPT ![r].torn = FALSE]
     \/ /\ Step(r, "ending", "returned")
        /\ ledger' = [ledger EXCEPT ![r].torn = FALSE, ![r].end = run[r].result]
  /\ UNCHANGED Unheard

\* A failed append ends the run as failed; its line is not on disk, or torn,
\* or whole all the same.
Mut_WriteFails(r) ==
  /\ \/ Returns(r, "starting", "failed")
     \/ Step(r, "ending", "returned")
  /\ \E torn \in BOOLEAN : ledger' = [ledger EXCEPT ![r].torn = torn]
  /\ UNCHANGED Unheard

WriteFails(r) ==
  /\ \E from \in {"starting", "ending"} : Returns(r, from, "failed")
  /\ \/ \E torn \in BOOLEAN : ledger' = [ledger EXCEPT ![r].torn = torn]
     \/ /\ run[r].at = "ending"
        /\ ledger' = [ledger EXCEPT ![r].torn = FALSE, ![r].end = run[r].result]
  /\ UNCHANGED Unheard

\* recover() in the goroutine: the table says failed, the ledger nothing.
Panic(r) ==
  /\ \E from \in {"opened", "started"} : Returns(r, from, "failed")
  /\ UNCHANGED <<Unheard, ledger>>

Finish(r) ==
  /\ Step(r, "returned", "finished")
  /\ table' = [table EXCEPT ![r] = run[r].result]
  /\ UNCHANGED <<phase, lives, slots, wg, applying, req, asked, ledger,
                 told>>

Mut_Release(r) ==
  /\ Up /\ run[r].at = "finished"
  /\ run' = [run EXCEPT ![r] = NoRun]
  /\ slots' = slots - 1
  /\ UNCHANGED <<phase, lives, wg, applying, req, table, asked, ledger,
                 told>>

Release(r) ==
  /\ Up /\ run[r].at = "finished"
  /\ run' = [run EXCEPT ![r] = NoRun]
  /\ release
  /\ UNCHANGED <<phase, lives, applying, req, table, asked, ledger,
                 told>>

(***************************************************************************)
(* POST /v1/config/apply: admitted, its bundle read and judged, one at a   *)
(* time under applyMu; the host installs and then records.                 *)
(***************************************************************************)
Apply(q) ==
  /\ Up /\ req[q].at = "bundle"
  /\ \/ /\ ~applying /\ applying' = TRUE
        /\ req' = [req EXCEPT ![q].at = "applying"]
        /\ UNCHANGED wg
     \/ /\ wg' = wg - 1                              \* 400, 413, or 409 when held
        /\ req' = [req EXCEPT ![q] = Done]
        /\ UNCHANGED applying
  /\ UNCHANGED <<phase, lives, slots, run, table, asked, ledger,
                 told>>

Applied(q) ==
  /\ Up
  /\ \/ /\ req[q].at = "applying"
        /\ req' = [req EXCEPT ![q].at = "installed"]
        /\ UNCHANGED <<wg, applying>>
     \/ /\ req[q].at \in {"applying", "installed"}   \* refused, or recorded
        /\ req' = [req EXCEPT ![q] = Done]
        /\ applying' = FALSE
        /\ wg' = wg - 1
  /\ UNCHANGED <<phase, lives, slots, run, table, asked, ledger,
                 told>>

(***************************************************************************)
(* Reads and cancels.  A status, and each line of a listing, is the        *)
(* table's word, else the ledger's.                                        *)
(***************************************************************************)
Tell(r, status) ==
  told' = IF status \in Lasting THEN [told EXCEPT ![r] = status] ELSE told

DiskStatus(r) == IF ledger[r].end = "none" THEN "incomplete" ELSE ledger[r].end

GetRun(r) ==
  /\ Up
  /\ table[r] # "none" \/ ledger[r].by # "none"       \* else 404
  /\ Tell(r, IF table[r] # "none" THEN table[r] ELSE DiskStatus(r))
  /\ UNCHANGED <<phase, lives, memory, ledger>>

CancelRun(r) ==
  /\ Up /\ table[r] = "running"
  /\ asked' = asked \cup {r}
  /\ UNCHANGED <<phase, lives, slots, wg, applying, req, run, table, ledger, told>>

(***************************************************************************)
(* The end of a process: Shutdown raises the flag, cancels every run,      *)
(* waits for the WaitGroup or the deadline; then the listener closes and   *)
(* the process exits.                                                      *)
(***************************************************************************)
Shutdown ==
  /\ \/ phase = "up" /\ phase' = "draining"
     \/ phase = "draining" /\ phase' = "cancelled"
     \/ phase = "cancelled" /\ wg = 0 /\ phase' = "drained"
  /\ UNCHANGED <<lives, memory, ledger, told>>

Deadline ==
  /\ phase = "cancelled" /\ phase' = "late"
  /\ UNCHANGED <<lives, memory, ledger, told>>

\* Everything in memory is gone; a request in flight is never answered.
Ended ==
  /\ phase' = "down"
  /\ slots' = 0 /\ wg' = 0 /\ applying' = FALSE
  /\ req' = [q \in Reqs |-> IF req[q].at = "idle" THEN Idle
                            ELSE Done]
  /\ run' = [r \in Ids |-> NoRun]
  /\ table' = [r \in Ids |-> "none"]
  /\ asked' = {}
  /\ UNCHANGED <<lives, ledger, told>>

Exit == phase \in {"drained", "late"} /\ Ended
Crash == Up /\ lives < MaxLives /\ Ended

Restart ==
  /\ phase = "down" /\ lives < MaxLives
  /\ phase' = "up" /\ lives' = lives + 1
  /\ UNCHANGED <<memory, ledger, told>>

(***************************************************************************)
(* Another process writing into the same directory: a CLI run.             *)
(***************************************************************************)
OtherRun(r) ==
  /\ \/ /\ ledger[r].by = "none"
        /\ ledger' = [ledger EXCEPT ![r].by = "other"]
     \/ /\ ledger[r].by = "other" /\ ledger[r].end = "none"
        /\ ledger' = [ledger EXCEPT ![r].end = "succeeded"]
  /\ UNCHANGED <<phase, lives, memory, told>>

Handler(q) ==
  \/ Admit(q) \/ Reserve(q) \/ Drop(q) \/ Mint(q)
  \/ \E r \in Ids : Refuse(q, r)
  \/ Refused(q) \/ Apply(q) \/ Applied(q)

Engine(r) ==
  \/ OpenLog(r) \/ Write(r) \/ Written(r) \/ WriteFails(r) \/ Panic(r)
  \/ Finish(r) \/ Release(r)

Next ==
  \/ \E q \in Reqs : Authenticate(q) \/ Handler(q)
  \/ \E r \in Ids : \/ Engine(r) \/ GetRun(r) \/ CancelRun(r) \/ OtherRun(r)
  \/ Shutdown \/ Deadline \/ Exit \/ Crash \/ Restart

Spec == Init /\ [][Next]_vars

(***************************************************************************)
(* Fairness.  A handler's next step is bounded by ReadTimeout and by the   *)
(* host's lock timeouts, a run ends (RunEnds of RunEngine), and a Shutdown *)
(* that has begun goes on.  No fairness on the deadline, a signal, a crash *)
(* or a client.                                                            *)
(***************************************************************************)
FairSpec ==
  /\ Spec
  /\ \A q \in Reqs : WF_vars(Handler(q))
  /\ \A r \in Ids : WF_vars(Engine(r))
  /\ WF_vars(draining /\ Shutdown)

(***************************************************************************)
(* Properties.                                                             *)
(***************************************************************************)
Holding == {q \in Reqs : req[q].at \in {"reserved", "refusing"}}
Counted == Holding \cup
  {q \in Reqs : req[q].at \in {"admitted", "bundle", "applying", "installed"}}
Live == {r \in Ids : run[r].at # "none"}

\* The slots held are exactly those of the POSTs between reserve and mint and
\* of the runs whose goroutine has not unwound, the WaitGroup counts those and
\* the admitted applies, and the cap holds: no exit of startRun, of reserve's
\* 429 or of the goroutine gives back twice or not at all.
SlotsAccount ==
  /\ slots = Cardinality(Holding) + Cardinality(Live)
  /\ wg = Cardinality(Counted) + Cardinality(Live)
  /\ slots <= MaxConcurrentRuns

\* When Shutdown returns without an error nothing admitted is left: no run is
\* running or unwinding, no refusal is half written, no apply stands between
\* its install and its record, and none of them can still start.
CleanDrain ==
  phase = "drained" =>
    /\ Live = {} /\ Counted = {} /\ ~applying
    /\ \A r \in Ids : table[r] # "running"

\* A run a client was told succeeded, was cancelled or was refused has that
\* final event in its ledger, whatever failed and whoever restarted since: the
\* table never says better than the disk, so the answer stands in every life.
AnswersAreOnRecord ==
  \A r \in Ids : told[r] \in {"succeeded", "cancelled", "refused"} =>
                   ledger[r].end = told[r]

\* A drain completes by itself, without its deadline: every unit admitted
\* before the flag is given back, whichever path it leaves by.
DrainCompletes == (phase = "draining") ~> (phase \in {"drained", "late", "down"})
=============================================================================
