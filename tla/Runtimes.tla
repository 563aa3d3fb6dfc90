------------------------------ MODULE Runtimes ------------------------------
(***************************************************************************)
(* The operator-side runtimes of a spawned child: the compartment          *)
(* supervisor refspawn (deploy/refspawn), one refexec per child            *)
(* (deploy/refexec), the confiner backends both drive                      *)
(* (deploy/internal/confiner) and the lease the spawn door holds on a set  *)
(* (internal/refspawn).                                                    *)
(*                                                                         *)
(* A request q names a child and its agents; set[q] is its handler.  A     *)
(* compartment is an agent's, named by child and agent, or the one command *)
(* of a child's refexec.  What an instance makes carries its owner stamp;  *)
(* here a compartment is orphan when the process that launched it is gone. *)
(* tier is the backend, the same for the whole behaviour: a podman client  *)
(* is a process of its own that creates the container later; a Seatbelt    *)
(* launch claims a pid record, makes its scratch dir, starts the process   *)
(* and completes the record, all in the launching process.                 *)
(***************************************************************************)
EXTENDS Integers, FiniteSets

CONSTANTS Tiers,            \* the backends checked: "podman", "seatbelt"
          Requests,         \* the provision requests that are sent
          Child,            \* the child run id of a request
          Agents,           \* the agents a request names
          Name,             \* compartmentName of a child and an agent
          Exec,             \* the session name of a child's command
          Suffixed,         \* the ids that end in the exec directory's suffix
          ChildDir, ExecDir,  \* the two directories of a child
          MaxCompartments,  \* the supervisor's cap
          MaxLives,         \* bound: processes of the supervisor
          MaxRequests,      \* bound: provision requests sent, each at most once
          MaxCommands,      \* bound: commands sent to refexecs
          MaxFaults         \* bound: crashes, failed listings and removals

VARIABLES
  tier,
  sup,     \* the supervisor process: [pc, life]
  wg,      \* the requests whose handler is counted and has not come to admit
  table,   \* what admit guards: the live children, their names, the slots used
  set,     \* the handler of a request: [pc, launched, store]
  lease,   \* the requests whose connection the gateway holds open
  rx,      \* the refexec of a child
  comp,    \* the compartments by name
  stores,  \* the workspace stores
  dirs,    \* the directories under spawn_root
  asked, sent, faults

vars == <<tier, sup, wg, table, set, lease, rx, comp, stores, dirs, asked, sent, faults>>
world == <<rx, comp, stores, dirs>>

Ids == {Child[q] : q \in Requests}
AgentNames == UNION {{Name[Child[q], a] : a \in Agents[q]} : q \in Requests}
ExecNames == {Exec[i] : i \in Ids}
Dirs == {ChildDir[i] : i \in Ids} \cup {ExecDir[i] : i \in Ids}
Names(q) == {Name[Child[q], a] : a \in Agents[q]}

(* A request lists finitely many agents.  compartmentName and refexec's     *)
(* session names have different prefixes, and a session name is fresh.  An  *)
(* id without the suffix shares no directory with another such id.          *)
ASSUME RuntimesAssumption ==
  /\ Tiers \subseteq {"podman", "seatbelt"} /\ MaxCompartments \in Nat
  /\ \A q \in Requests : IsFiniteSet(Agents[q])
  /\ AgentNames \cap ExecNames = {}
  /\ \A i, j \in Ids : Exec[i] = Exec[j] => i = j
  /\ \A i, j \in Ids \ Suffixed :
       i # j => {ChildDir[i], ExecDir[i]} \cap {ChildDir[j], ExecDir[j]} = {}

(* st: starting is a podman client without its container, or a Seatbelt    *)
(* claim without its process.                                              *)
(* rec: the Seatbelt pid record.  Two ghosts: late, the name was claimed   *)
(* while a sweep had listed the records and not yet removed scratch dirs;  *)
(* stray, no removal of its supervisor accounts for it.                    *)
Gone == [st |-> "none", of |-> "none", rec |-> "none", scratch |-> FALSE, orphan |-> FALSE,
         late |-> FALSE, stray |-> FALSE]

Idle == [pc |-> "idle", launched |-> {}, store |-> FALSE]
NoRefexec == [pc |-> "none", life |-> 0, run |-> FALSE, keep |-> {}]
EmptyTable == [live |-> {}, names |-> {}, used |-> 0]

Init ==
  /\ tier \in Tiers
  /\ sup = [pc |-> "serve", life |-> 1, then |-> "serve"]
  /\ wg = {} /\ table = EmptyTable
  /\ set = [q \in Requests |-> Idle] /\ lease = [q \in Requests |-> FALSE]
  /\ rx = [i \in Ids |-> NoRefexec]
  /\ comp = [n \in AgentNames \cup ExecNames |-> Gone]
  /\ stores = {} /\ dirs = [d \in Dirs |-> "none"]
  /\ asked = {} /\ sent = 0 /\ faults = 0

Fault == faults < MaxFaults /\ faults' = faults + 1
Goto(q, l) == set' = [set EXCEPT ![q].pc = l]

-----------------------------------------------------------------------------
(* The confiner (podman.go, seatbelt.go).                                   *)

(* Mutant: the name is not claimed before the process has started. *)
Mut_Claimed(n, i) ==
  [Gone EXCEPT !.st = "starting", !.of = i,
               !.late = n \in ExecNames /\ \E j \in Ids : rx[j].pc = "sweep"]

(* Launch, to the point where another process can see it: the client is    *)
(* started, or the name is claimed by a pending record with its owner.     *)
Claimed(n, i) ==
  [Gone EXCEPT !.st = "starting", !.of = i,
               !.late = n \in ExecNames /\ \E j \in Ids : rx[j].pc = "sweep",
               !.rec = IF tier = "seatbelt" THEN "pending" ELSE "none"]
Taken(n) == comp[n].st # "none" \/ comp[n].rec # "none"

(* The podman client creates the container, whoever still waits for it, and *)
(* with it a volume that is no longer there.                               *)
Create(n) ==
  /\ tier = "podman" /\ comp[n].st = "starting"
  /\ comp' = [comp EXCEPT ![n].st = "up"]
  /\ stores' = stores \cup {comp[n].of}
  /\ UNCHANGED <<tier, sup, wg, table, set, lease, rx, dirs, asked, sent, faults>>

(* The client exits 125, or Start fails and the claim is given back. *)
DidNotLaunch(n) ==
  /\ comp[n].st = "starting"
  /\ tier = "seatbelt" => ~comp[n].orphan
  /\ comp' = [comp EXCEPT ![n] = Gone]
  /\ UNCHANGED <<tier, sup, wg, table, set, lease, rx, stores, dirs, asked, sent, faults>>

(* The rest of a Seatbelt launch, in the process that launches: a command's *)
(* scratch dir and the process; then the record gets its pid.              *)
Begin(n) ==
  /\ tier = "seatbelt" /\ comp[n].st = "starting" /\ ~comp[n].orphan
  /\ comp' = [comp EXCEPT ![n].st = "up", ![n].scratch = n \in ExecNames]
  /\ UNCHANGED <<tier, sup, wg, table, set, lease, rx, stores, dirs, asked, sent, faults>>

Complete(n) ==
  /\ tier = "seatbelt" /\ comp[n].st = "up" /\ comp[n].rec # "full" /\ ~comp[n].orphan
  /\ comp' = [comp EXCEPT ![n].rec = "full"]
  /\ UNCHANGED <<tier, sup, wg, table, set, lease, rx, stores, dirs, asked, sent, faults>>

(* Launch has returned a compartment, or an error. *)
Returned(n) == tier = "podman" \/ comp[n].st = "none" \/ comp[n].rec = "full"

(* The program ends or its wall clock does.  The Seatbelt launcher cleans  *)
(* up after it, if it still runs; its timer has gone with it otherwise.    *)
Exit(n) ==
  /\ comp[n].st = "up" /\ (Returned(n) \/ comp[n].orphan)
  /\ comp' = [comp EXCEPT ![n] =
        IF tier = "seatbelt" /\ comp[n].orphan THEN [@ EXCEPT !.st = "none"] ELSE Gone]
  /\ UNCHANGED <<tier, sup, wg, table, set, lease, rx, stores, dirs, asked, sent, faults>>

(* Remove: the outcomes of podman rm -f or of the session's kill.  A client *)
(* that has not created its container yet has nothing to remove; killing it *)
(* ten seconds later leaves the container that came up meanwhile.          *)
Remove(n) ==
  IF comp[n].st = "none" THEN {Gone}
  ELSE {Gone} \cup
       IF tier = "podman" /\ comp[n].st = "starting"
       THEN {[comp[n] EXCEPT !.st = "up", !.stray = TRUE]} ELSE {}

(* A removal the engine refuses is logged, and the container stays. *)
NotRemoved(n) == tier = "podman" /\ comp[n].st = "up" /\ Fault
Removal(n) ==
  \/ \E c \in Remove(n) : comp' = [comp EXCEPT ![n] = c] /\ UNCHANGED faults
  \/ NotRemoved(n) /\ comp' = [comp EXCEPT ![n].stray = TRUE]

(* Mutant: a sweep takes whatever carries its prefix. *)
Mut_reapable(n, self) == TRUE

(* The owner rule of both sweeps. *)
reapable(n, self) == comp[n].orphan \/ self

(* A leftover the sweep accounts for, podman's by its container, Seatbelt's *)
(* by its record: a process without a complete record is not signalled.    *)
Reaped(n) ==
  IF tier = "podman" THEN IF comp[n].st = "up" THEN Gone ELSE comp[n]
  ELSE IF comp[n].rec = "none" THEN comp[n]
  ELSE IF comp[n].rec = "pending" /\ comp[n].st = "up"
  THEN [comp[n] EXCEPT !.rec = "none", !.stray = TRUE]
  ELSE [Gone EXCEPT !.scratch = comp[n].scratch]

(* A sweep by prefix.  A leftover it cannot remove is logged and stays. *)
Sweep(ns, self) ==
  LET mine == {n \in ns : reapable(n, self)}
      Without(S) == [n \in DOMAIN comp |-> IF n \in S THEN Reaped(n) ELSE comp[n]]
  IN  \/ comp' = Without(mine) /\ UNCHANGED faults
      \/ \E m \in mine : /\ NotRemoved(m)
                         /\ comp' = [Without(mine \ {m}) EXCEPT ![m].stray = TRUE]

(* storeInUse, and what the engine refuses to remove unforced. *)
storeInUse(i) ==
  \E n \in DOMAIN comp : comp[n].of = i /\ comp[n].st = "up" /\ Returned(n)

-----------------------------------------------------------------------------
(* refexec (runner.go, main.go): start, one command, the way out.           *)

Orphaned(ns) == [n \in DOMAIN comp |->
  IF n \in ns /\ Taken(n)
  THEN [comp[n] EXCEPT !.orphan = TRUE, !.stray = @ \/ (tier = "podman" /\ comp[n].st = "starting")]
  ELSE comp[n]]
Dies(i) == /\ rx' = [rx EXCEPT ![i] = [NoRefexec EXCEPT !.life = rx[i].life]]
           /\ comp' = Orphaned({Exec[i]})

(* Reap before Listen.  Seatbelt lists the records, then the scratch dirs. *)
RefexecReap(i) ==
  /\ rx[i].pc = "boot"
  /\ Sweep(ExecNames, FALSE)
  /\ rx' = [rx EXCEPT ![i].pc = IF tier = "podman" THEN "up" ELSE "sweep",
                      ![i].keep = {n \in ExecNames : comp[n].rec # "none" /\ ~reapable(n, FALSE)}]
  /\ UNCHANGED <<tier, sup, wg, table, set, lease, stores, dirs, asked, sent>>

RefexecSweep(i) ==
  /\ rx[i].pc = "sweep"
  /\ comp' = [n \in DOMAIN comp |->
        IF n \in ExecNames \ rx[i].keep THEN [comp[n] EXCEPT !.scratch = FALSE] ELSE comp[n]]
  /\ rx' = [rx EXCEPT ![i].pc = "up", ![i].keep = {}]
  /\ UNCHANGED <<tier, sup, wg, table, set, lease, stores, dirs, asked, sent, faults>>

(* run: a slot, a fresh session name, Launch.  The gateway has the socket  *)
(* from the lease's line.                                                  *)
Command(i) ==
  /\ rx[i].pc = "up" /\ ~rx[i].run
  /\ \E q \in Requests : Child[q] = i /\ lease[q] /\ set[q].pc = "held"
  /\ sent < MaxCommands /\ sent' = sent + 1
  /\ comp[Exec[i]] = Gone
  /\ rx' = [rx EXCEPT ![i].run = TRUE]
  /\ comp' = [comp EXCEPT ![Exec[i]] = Claimed(Exec[i], i)]
  /\ UNCHANGED <<tier, sup, wg, table, set, lease, stores, dirs, asked, faults>>

(* The compartment ended first: its exit is attested as the command's own. *)
Attest(i) ==
  /\ rx[i].run /\ rx[i].pc = "up" /\ comp[Exec[i]].st = "none"
  /\ rx' = [rx EXCEPT ![i].run = FALSE]
  /\ comp' = [comp EXCEPT ![Exec[i]] = Gone]
  /\ UNCHANGED <<tier, sup, wg, table, set, lease, stores, dirs, asked, sent, faults>>

(* The gateway's deadline, its hang-up or a SIGTERM ends the wait. *)
Cancel(i) ==
  /\ rx[i].run /\ Returned(Exec[i]) /\ Removal(Exec[i])
  /\ rx' = [rx EXCEPT ![i].run = FALSE]
  /\ UNCHANGED <<tier, sup, wg, table, set, lease, stores, dirs, asked, sent>>

RefexecExit(i) ==
  /\ rx[i].pc = "term" /\ ~rx[i].run /\ Dies(i)
  /\ UNCHANGED <<tier, sup, wg, table, set, lease, stores, dirs, asked, sent, faults>>

(* A refexec that fails before it serves is one more way for waitReady to  *)
(* end.                                                                    *)
RefexecCrash(i) ==
  /\ rx[i].pc = "up" /\ Fault /\ Dies(i)
  /\ UNCHANGED <<tier, sup, wg, table, set, lease, stores, dirs, asked, sent>>

-----------------------------------------------------------------------------
(* One provision, for the whole life of its set (supervisor.go).            *)

(* Mutant: only the child and the slots are claimed, not the names. *)
Mut_admit(q) ==
  /\ Child[q] \notin table.live
  /\ table.used + Cardinality(Names(q)) <= MaxCompartments

(* admit, under the mutex: the child, its names and its slots, or none.    *)
admit(q) ==
  /\ Child[q] \notin table.live
  /\ Names(q) \cap table.names = {}
  /\ table.used + Cardinality(Names(q)) <= MaxCompartments

(* A request: its handler is counted for close to wait for, and its body   *)
(* read.  A child run id is minted for one child, so a later supervisor    *)
(* never sees it again.                                                    *)
Request(q) ==
  /\ sup.pc = "serve" /\ set[q].pc = "idle" /\ rx[Child[q]].life \in {0, sup.life}
  /\ q \notin asked /\ Cardinality(asked) < MaxRequests /\ asked' = asked \cup {q}
  /\ wg' = wg \cup {q}
  /\ lease' = [lease EXCEPT ![q] = TRUE]
  /\ UNCHANGED <<tier, sup, table, set, world, sent, faults>>

(* Admitted, though a shutdown may have begun and cut the connection. *)
Provision(q) ==
  /\ sup.pc \in {"serve", "close"} /\ set[q].pc = "idle"
  /\ q \in wg /\ wg' = wg \ {q}
  /\ Child[q] \notin Suffixed /\ admit(q)
  /\ table' = [live |-> table.live \cup {Child[q]}, names |-> table.names \cup Names(q),
               used |-> table.used + Cardinality(Names(q))]
  /\ set' = [set EXCEPT ![q].pc = "start"]
  /\ UNCHANGED <<tier, sup, lease, world, asked, sent, faults>>

(* Of an id with the suffix, or not admitted. *)
Refuse(q) ==
  /\ q \in wg /\ wg' = wg \ {q}
  /\ Child[q] \in Suffixed \/ ~admit(q)
  /\ lease' = [lease EXCEPT ![q] = FALSE]
  /\ UNCHANGED <<tier, sup, table, set, world, asked, sent, faults>>

(* The first step of a teardown, SIGTERM to refexec: it cuts its           *)
(* connections and waits for its command; before it serves it simply dies. *)
Terminate(i) ==
  IF rx[i].pc = "up" THEN rx' = [rx EXCEPT ![i].pc = "term"] /\ comp' = comp ELSE Dies(i)

(* start: the directories, replacing what they hold, the store, refexec. *)
MadeDirs(i) == [dirs EXCEPT ![ChildDir[i]] = i, ![ExecDir[i]] = i]
StartSet(q) ==
  /\ set[q].pc = "start" /\ Child[q] \notin stores
  /\ dirs' = MadeDirs(Child[q])
  /\ stores' = stores \cup {Child[q]}
  /\ rx' = [rx EXCEPT ![Child[q]] = [NoRefexec EXCEPT !.pc = "boot", !.life = sup.life]]
  /\ set' = [set EXCEPT ![q].pc = "launch", ![q].store = TRUE]
  /\ UNCHANGED <<tier, sup, wg, table, lease, comp, asked, sent, faults>>

(* The store exists already, or refexec cannot be forked. *)
StartFails(q) ==
  /\ set[q].pc = "start"
  /\ dirs' = MadeDirs(Child[q])
  /\ stores' = stores \cup {Child[q]}
  /\ set' = [set EXCEPT ![q].pc = "await", ![q].store = Child[q] \notin stores]
  /\ UNCHANGED <<tier, sup, wg, table, lease, rx, comp, asked, sent, faults>>

(* Launch of one agent, once the one before has returned: podman's with    *)
(* the client started, Seatbelt's with the record complete.                *)
AllReturned(q) == \A a \in set[q].launched : Returned(Name[Child[q], a])
Launch(q, a) ==
  LET n == Name[Child[q], a] IN
  /\ set[q].pc = "launch" /\ a \notin set[q].launched /\ AllReturned(q) /\ ~Taken(n)
  /\ comp' = [comp EXCEPT ![n] = Claimed(n, Child[q])]
  /\ set' = [set EXCEPT ![q].launched = @ \cup {a}]
  /\ UNCHANGED <<tier, sup, wg, table, lease, rx, stores, dirs, asked, sent, faults>>

(* A name that is taken: Seatbelt refuses it, podman's client exits, and   *)
(* the teardown removes the name it believes is its own.                   *)
LaunchClash(q, a) ==
  /\ set[q].pc = "launch" /\ a \notin set[q].launched /\ AllReturned(q) /\ Taken(Name[Child[q], a])
  /\ set' = [set EXCEPT ![q].launched = IF tier = "podman" THEN @ \cup {a} ELSE @, ![q].pc = "await"]
  /\ Terminate(Child[q])
  /\ UNCHANGED <<tier, sup, wg, table, lease, stores, dirs, asked, sent, faults>>

(* waitReady: every socket answers and the line is flushed; or the timeout, *)
(* the gateway, an agent, a launch or refexec ends the wait.               *)
Ready(q) ==
  /\ set[q].pc = "launch" /\ set[q].launched = Agents[q]
  /\ \A n \in Names(q) : comp[n].st = "up"
  /\ rx[Child[q]].pc = "up"
  /\ Goto(q, "held")
  /\ UNCHANGED <<tier, sup, wg, table, lease, world, asked, sent, faults>>

NotReady(q) ==
  /\ set[q].pc = "launch" /\ AllReturned(q)
  /\ set[q].launched # Agents[q] => \E a \in set[q].launched : comp[Name[Child[q], a]].st = "none"
  /\ Goto(q, "await") /\ Terminate(Child[q])
  /\ UNCHANGED <<tier, sup, wg, table, lease, stores, dirs, asked, sent, faults>>

(* The select a held set waits in. *)
Lost(q) ==
  /\ set[q].pc = "held"
  /\ \/ ~lease[q]
     \/ \E n \in Names(q) : comp[n].st = "none"
     \/ rx[Child[q]].pc = "none"
  /\ Goto(q, "await") /\ Terminate(Child[q])
  /\ UNCHANGED <<tier, sup, wg, table, lease, stores, dirs, asked, sent, faults>>

(* teardown waits for refexec; after the grace it is killed. *)
Stopped(q) ==
  /\ set[q].pc = "await" /\ rx[Child[q]].pc = "none"
  /\ Goto(q, "remove")
  /\ UNCHANGED <<tier, sup, wg, table, lease, world, asked, sent, faults>>

Kill(q) ==
  /\ set[q].pc = "await" /\ rx[Child[q]].pc # "none"
  /\ Dies(Child[q])
  /\ Goto(q, "remove")
  /\ UNCHANGED <<tier, sup, wg, table, lease, stores, dirs, asked, sent, faults>>

RemoveAgent(q, a) ==
  LET n == Name[Child[q], a] IN
  /\ set[q].pc = "remove" /\ a \in set[q].launched /\ Removal(n)
  /\ set' = [set EXCEPT ![q].launched = @ \ {a}]
  /\ UNCHANGED <<tier, sup, wg, table, lease, rx, stores, dirs, asked, sent>>

(* The store, unforced: one still in use is left for the next start's reap. *)
RemoveStore(q) ==
  LET i == Child[q] IN
  /\ set[q].pc = "remove" /\ set[q].launched = {}
  /\ stores' = IF set[q].store /\ ~storeInUse(i) THEN stores \ {i} ELSE stores
  /\ dirs' = [dirs EXCEPT ![ChildDir[i]] = "none", ![ExecDir[i]] = "none"]
  /\ Goto(q, "release")
  /\ UNCHANGED <<tier, sup, wg, table, lease, rx, comp, asked, sent, faults>>

(* release, and only then the end of the answer. *)
Release(q) ==
  /\ set[q].pc = "release"
  /\ table' = [live |-> table.live \ {Child[q]}, names |-> table.names \ Names(q),
               used |-> table.used - Cardinality(Names(q))]
  /\ set' = [set EXCEPT ![q] = Idle]
  /\ lease' = [lease EXCEPT ![q] = FALSE]
  /\ UNCHANGED <<tier, sup, wg, world, asked, sent, faults>>

(* The gateway closes the body, or its context ends (client.go).  Before   *)
(* the line it is one more way for waitReady to end, and a handler that is *)
(* tearing down no longer looks.                                           *)
HangUp(q) ==
  /\ lease[q] /\ set[q].pc = "held"
  /\ lease' = [lease EXCEPT ![q] = FALSE]
  /\ UNCHANGED <<tier, sup, wg, table, set, world, asked, sent, faults>>

-----------------------------------------------------------------------------
(* The supervisor process (main.go, podman.go's reap, refrunner).           *)

Live == {q \in Requests : set[q].pc # "idle"}

Shutdown ==
  /\ sup.pc = "serve"
  /\ sup' = [sup EXCEPT !.pc = "close", !.then = "down"]
  /\ lease' = [q \in Requests |-> FALSE]
  /\ UNCHANGED <<tier, wg, table, set, world, asked, sent, faults>>

(* A SIGKILL: the requests end, what was launched runs on. *)
Crash ==
  /\ sup.pc # "down" /\ Fault
  /\ sup' = [sup EXCEPT !.pc = "down", !.then = "serve"]
  /\ wg' = {} /\ table' = EmptyTable /\ set' = [q \in Requests |-> Idle] /\ lease' = [q \in Requests |-> FALSE]
  /\ comp' = Orphaned(AgentNames)
  /\ UNCHANGED <<tier, rx, stores, dirs, asked, sent>>

(* What a start finds after a shutdown is less than what a crash leaves,   *)
(* so only a crash is followed by another life.                            *)
Restart ==
  /\ sup.pc = "down" /\ sup.then = "serve" /\ sup.life < MaxLives
  /\ sup' = [pc |-> "reap", life |-> sup.life + 1, then |-> "serve"]
  /\ UNCHANGED <<tier, wg, table, set, lease, world, asked, sent, faults>>

(* reap: the compartments first.  A failed listing is an error to the      *)
(* caller, a failed removal is logged.                                     *)
Reaping == sup.pc = "reap" \/ (sup.pc = "close" /\ Live \cup wg = {})

(* Mutant: the sweep before the socket opens removes no compartment. *)
Mut_ReapComps ==
  /\ Reaping
  /\ sup' = [sup EXCEPT !.pc = "sweep"]
  /\ UNCHANGED <<tier, wg, table, set, lease, world, asked, sent, faults>>

ReapComps ==
  /\ Reaping
  /\ Sweep(AgentNames, TRUE)
  /\ sup' = [sup EXCEPT !.pc = "sweep"]
  /\ UNCHANGED <<tier, wg, table, set, lease, rx, stores, dirs, asked, sent>>

Unlisted ==
  /\ Reaping /\ Fault
  /\ sup' = [sup EXCEPT !.pc = "sweep", !.then = "down"]
  /\ UNCHANGED <<tier, wg, table, set, lease, world, asked, sent>>

(* Then the stores, forced: podman ends the containers that still mount    *)
(* one.  Then every directory, and the socket opens or the process ends.   *)
ReapStores ==
  /\ sup.pc = "sweep"
  /\ stores' = {} /\ dirs' = [d \in Dirs |-> "none"]
  /\ LET left == [n \in DOMAIN comp |->
           IF tier = "podman" /\ comp[n].st = "up" /\ comp[n].of \in stores
           THEN Gone ELSE comp[n]]
     IN comp' = [n \in DOMAIN comp |->
           IF sup.then = "down" /\ n \in AgentNames /\ left[n] # Gone
           THEN [left[n] EXCEPT !.orphan = TRUE] ELSE left[n]]
  /\ sup' = [sup EXCEPT !.pc = sup.then]
  /\ UNCHANGED <<tier, wg, table, set, lease, rx, asked, sent, faults>>

-----------------------------------------------------------------------------
Handler(q) ==
  \/ StartSet(q) \/ StartFails(q) \/ Ready(q) \/ NotReady(q) \/ Lost(q)
  \/ Stopped(q) \/ Kill(q) \/ RemoveStore(q) \/ Release(q)
  \/ \E a \in Agents[q] : Launch(q, a) \/ LaunchClash(q, a) \/ RemoveAgent(q, a)
Refexec(i) ==
  RefexecReap(i) \/ RefexecSweep(i) \/ Attest(i) \/ Cancel(i) \/ RefexecExit(i)
Supervisor == ReapComps \/ ReapStores
Launching(n) == Create(n) \/ DidNotLaunch(n) \/ Begin(n) \/ Complete(n)

Next ==
  \/ \E q \in Requests : Request(q) \/ Provision(q) \/ Refuse(q) \/ Handler(q) \/ HangUp(q)
  \/ \E i \in Ids : Refexec(i) \/ Command(i) \/ RefexecCrash(i)
  \/ \E n \in DOMAIN comp : Launching(n) \/ Exit(n)
  \/ Supervisor \/ Shutdown \/ Crash \/ Restart \/ Unlisted

Spec == Init /\ [][Next]_vars

-----------------------------------------------------------------------------
(* A slot is free exactly when its compartment is (supervisor.go release;  *)
(* main.go serve: a supervisor that cannot account for an earlier one's    *)
(* compartments refuses to serve).  While the supervisor serves, every     *)
(* agent compartment there is, whichever life started it, is under a name  *)
(* the table holds, and the table stays under the cap.  Strays excepted: a *)
(* container the engine would not remove or a late client created, and a   *)
(* Seatbelt process whose launcher died before its record was complete.    *)
SlotsCover ==
  sup.pc \in {"serve", "close"} =>
    /\ \A n \in AgentNames : comp[n].st # "none" /\ ~comp[n].stray => n \in table.names
    /\ table.used = Cardinality(table.names) /\ table.used <= MaxCompartments

(* No teardown or sweep touches a set that is held (admit's comment: two   *)
(* children may need one compartment name; handleProvision's: an id that   *)
(* ends in the suffix would put its directory where a sibling's is).  A    *)
(* held set keeps its store and its directories, and an agent of it goes   *)
(* only by itself, in a step of no handler, refexec or supervisor.         *)
HeldIsWhole ==
  [][\A q \in Requests : set[q].pc = "held" /\ set'[q].pc = "held" =>
       /\ Child[q] \in stores'
       /\ dirs'[ChildDir[Child[q]]] = Child[q] /\ dirs'[ExecDir[Child[q]]] = Child[q]
       /\ \A n \in Names(q) :
            comp[n].st = "up" /\ comp'[n].st # "up" => UNCHANGED <<set, rx, sup>>]_vars

(* No other process ends a command in flight, for its refexec would attest *)
(* the exit as the command's own (owner.go): not a sibling's sweep at its  *)
(* start, and not the supervisor that started this refexec.                *)
CommandsSpared ==
  [][\A i \in Ids :
       /\ rx[i].run /\ rx'[i] = rx[i] /\ rx[i].life = sup.life
       /\ comp[Exec[i]].st = "up" /\ comp'[Exec[i]].st # "up"
       => UNCHANGED <<set, rx, sup>>]_vars

(* A command that runs has its scratch dir: the starts of sibling refexecs *)
(* sweep the same directory (seatbelt.go Launch claims the name first so   *)
(* that they leave it alone).  A name claimed between a sweep's two        *)
(* listings is the exception.                                              *)
ScratchKept ==
  \A n \in ExecNames :
    tier = "seatbelt" /\ comp[n].st = "up" /\ ~comp[n].orphan /\ ~comp[n].late => comp[n].scratch

(* A refusal or the end of the body reaches the gateway only once the set  *)
(* is gone and its slots are back (handleProvision; internal/refspawn: its *)
(* EOF means the set is gone), as long as the supervisor serves.           *)
EndIsGone ==
  [][\A q \in Requests :
       set[q].pc # "idle" /\ set'[q].pc = "idle" /\ lease[q] /\ sup.pc = "serve" /\ sup'.pc = "serve" =>
         /\ Child[q] \notin table'.live
         /\ \A n \in Names(q) : comp'[n].st = "none" \/ comp'[n].stray]_vars

=============================================================================
