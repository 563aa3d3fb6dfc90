--------------------------- MODULE RuntimesProofs ---------------------------
(***************************************************************************)
(* The properties of Runtimes, for every set of requests, children,        *)
(* agents and names that RuntimesAssumption admits, and every cap.         *)
(*                                                                         *)
(* None of them is inductive.  They follow from six facts that are, taken  *)
(* together: the types; Table, that what admit guards is exactly what the  *)
(* handlers in progress claim; Lives, that a process of the current life   *)
(* has a handler that will wait for it; Cover, where an agent compartment  *)
(* can be found in each phase of the supervisor; Commands, what a sibling's *)
(* sweep can see of a command; and Whole, what a set in use owns.          *)
(***************************************************************************)
EXTENDS Runtimes, FiniteSetTheorems, TLAPS

AllNames == AgentNames \cup ExecNames
CompType == [st : {"none", "starting", "up"}, of : Ids \cup {"none"},
             rec : {"none", "pending", "full"}, scratch : BOOLEAN, orphan : BOOLEAN,
             late : BOOLEAN, stray : BOOLEAN]
SetType == [pc : {"idle", "start", "launch", "held", "await", "remove", "release"},
            launched : SUBSET UNION {Agents[q] : q \in Requests}, store : BOOLEAN]
RxType == [pc : {"none", "boot", "sweep", "up", "term"}, life : Nat, run : BOOLEAN,
           keep : SUBSET ExecNames]
SupType == [pc : {"serve", "close", "down", "reap", "sweep"}, life : Nat, then : {"serve", "down"}]

(* The type invariant of the variables the argument is about. *)
Types ==
  /\ tier \in {"podman", "seatbelt"}
  /\ sup \in SupType
  /\ set \in [Requests -> SetType]
  /\ rx \in [Ids -> RxType]
  /\ comp \in [AllNames -> CompType]
  /\ dirs \in [Dirs -> Ids \cup {"none"}]

(* The table is the union of what the handlers in progress were admitted    *)
(* with, no two of them share a child or a name, and it counts its names.  *)
Table ==
  /\ table.live = {Child[q] : q \in Live}
  /\ table.names = UNION {Names(q) : q \in Live}
  /\ \A p, q \in Live : p # q => Child[p] # Child[q] /\ Names(p) \cap Names(q) = {}
  /\ \A q \in Live : Child[q] \notin Suffixed
  /\ IsFiniteSet(table.names)
  /\ table.used = Cardinality(table.names) /\ table.used <= MaxCompartments

(* Handlers live in a supervisor that serves or closes, and a refexec of    *)
(* the current life has one that is still to wait for it.                  *)
Awaits(q) == set[q].pc \in {"launch", "held", "await"}
Current(i) == rx[i].pc # "none" /\ rx[i].life = sup.life /\ sup.pc # "down"
Lives ==
  /\ Live # {} => sup.pc \in {"serve", "close"}
  /\ \A i \in Ids : rx[i].life <= sup.life
  /\ \A i \in Ids : rx[i].run => rx[i].pc \in {"up", "term"}
  /\ \A i \in Ids : Current(i) => \E q \in Requests : Child[q] = i /\ Awaits(q)

(* An agent compartment that some removal has to account for: while the    *)
(* supervisor serves it is in the list of one handler, and once the sweep  *)
(* before the socket opens is over there is none.                          *)
Ours(n) == comp[n].st # "none" /\ ~comp[n].stray
Listed(n) == \E q \in Live : \E a \in set[q].launched : Name[Child[q], a] = n
Cover ==
  /\ \A q \in Requests : set[q].launched \subseteq Agents[q]
  /\ \A q \in Requests : set[q].pc \in {"idle", "start", "release"} => set[q].launched = {}
  /\ sup.pc \in {"serve", "close"} => \A n \in AgentNames : Ours(n) => Listed(n)
  /\ sup.pc = "sweep" /\ sup.then = "serve" => \A n \in AgentNames : ~Ours(n)
  /\ sup.pc \in {"down", "reap"} /\ sup.then = "serve" /\ tier = "podman" =>
       \A n \in AgentNames : comp[n].st = "starting" => comp[n].stray
  /\ tier = "seatbelt" => \A n \in AgentNames : Ours(n) => comp[n].rec # "none"

(* A command of a refexec that runs has its record from the claim on, so a *)
(* sweep that lists the records keeps it; one that does not have it listed *)
(* had listed before the claim.                                            *)
Commands ==
  /\ \A n \in ExecNames : tier = "seatbelt" /\ comp[n].st # "none" /\ ~comp[n].orphan =>
       /\ comp[n].rec # "none"
       /\ \A j \in Ids : rx[j].pc = "sweep" /\ n \notin rx[j].keep => comp[n].late
       /\ comp[n].st = "up" /\ ~comp[n].late => comp[n].scratch
  /\ \A i \in Ids : rx[i].run => ~comp[Exec[i]].orphan

(* A set in use has its store and its two directories. *)
Owns(i) == i \in stores /\ dirs[ChildDir[i]] = i /\ dirs[ExecDir[i]] = i
Whole == \A q \in Requests : set[q].pc \in {"launch", "held"} => Owns(Child[q])

Inv == Types /\ Table /\ Lives /\ Cover /\ Commands /\ Whole

-----------------------------------------------------------------------------
(* What the operators of the model return. *)

(* Gone is a compartment that is not there. *)
LEMMA GoneFields ==
  /\ Gone \in CompType
  /\ Gone.st = "none" /\ Gone.rec = "none" /\ Gone.orphan = FALSE
BY DEF Gone, CompType

(* A launch claims the name, with a record on Seatbelt. *)
LEMMA ClaimedFields ==
  ASSUME Types, NEW n, NEW i \in Ids
  PROVE  /\ Claimed(n, i) \in CompType
         /\ Claimed(n, i).st = "starting" /\ Claimed(n, i).orphan = FALSE
         /\ Claimed(n, i).stray = FALSE
         /\ Claimed(n, i).rec = IF tier = "seatbelt" THEN "pending" ELSE "none"
         /\ Claimed(n, i).late = (n \in ExecNames /\ \E j \in Ids : rx[j].pc = "sweep")
<1> DEFINE l == n \in ExecNames /\ \E j \in Ids : rx[j].pc = "sweep"
           r == IF tier = "seatbelt" THEN "pending" ELSE "none"
<1>1. l \in BOOLEAN /\ r \in {"none", "pending", "full"}
  OBVIOUS
<1>0. Claimed(n, i) = [Gone EXCEPT !.st = "starting", !.of = i, !.late = l, !.rec = r]
  BY Zenon DEF Claimed
<1> HIDE DEF l, r
<1>2. Claimed(n, i) = [st |-> "starting", of |-> i, rec |-> r, scratch |-> FALSE, orphan |-> FALSE,
                       late |-> l, stray |-> FALSE]
  BY <1>0, Zenon DEF Gone
<1>3. Claimed(n, i) \in CompType
  BY <1>1, <1>2 DEF CompType
<1>4. /\ Claimed(n, i).st = "starting" /\ Claimed(n, i).orphan = FALSE
      /\ Claimed(n, i).stray = FALSE /\ Claimed(n, i).rec = r /\ Claimed(n, i).late = l
  BY <1>2
<1>. QED
  BY <1>3, <1>4, Zenon DEF l, r

(* The death of a launcher changes what may be done with a compartment and *)
(* not the compartment.                                                    *)
LEMMA OrphanedFields ==
  ASSUME Types, NEW ns
  PROVE  /\ Orphaned(ns) \in [AllNames -> CompType]
         /\ \A n \in AllNames :
              /\ n \notin ns => Orphaned(ns)[n] = comp[n]
              /\ Orphaned(ns)[n].st = comp[n].st /\ Orphaned(ns)[n].rec = comp[n].rec
              /\ comp[n].stray => Orphaned(ns)[n].stray
              /\ comp[n].st # "none" /\ n \in ns => Orphaned(ns)[n].orphan
              /\ tier = "podman" /\ comp[n].st = "starting" /\ n \in ns => Orphaned(ns)[n].stray
<1>1. comp \in [AllNames -> CompType] /\ DOMAIN comp = AllNames
  BY DEF Types
<1>2. ASSUME NEW n \in AllNames
      PROVE  /\ Orphaned(ns)[n] \in CompType
             /\ n \notin ns => Orphaned(ns)[n] = comp[n]
             /\ Orphaned(ns)[n].st = comp[n].st /\ Orphaned(ns)[n].rec = comp[n].rec
             /\ comp[n].stray => Orphaned(ns)[n].stray
             /\ comp[n].st # "none" /\ n \in ns => Orphaned(ns)[n].orphan
             /\ tier = "podman" /\ comp[n].st = "starting" /\ n \in ns => Orphaned(ns)[n].stray
  <2>1. comp[n] \in CompType
    BY <1>1
  <2>2. CASE n \in ns /\ Taken(n)
    <3> DEFINE s == comp[n].stray \/ (tier = "podman" /\ comp[n].st = "starting")
    <3>1. s \in BOOLEAN
      OBVIOUS
    <3>2. Orphaned(ns)[n] = [comp[n] EXCEPT !.orphan = TRUE, !.stray = s]
      BY <1>1, <2>2 DEF Orphaned
    <3> HIDE DEF s
    <3>3. /\ Orphaned(ns)[n] \in CompType
          /\ Orphaned(ns)[n].st = comp[n].st /\ Orphaned(ns)[n].rec = comp[n].rec
          /\ Orphaned(ns)[n].orphan = TRUE /\ Orphaned(ns)[n].stray = s
      BY <2>1, <3>1, <3>2, Zenon DEF CompType
    <3>. QED
      BY <2>2, <3>3, Zenon DEF s
  <2>3. CASE ~(n \in ns /\ Taken(n))
    <3>1. Orphaned(ns)[n] = comp[n]
      BY <1>1, <2>3 DEF Orphaned
    <3>. QED
      BY <2>1, <2>3, <3>1 DEF Taken
  <2>. QED
    BY <2>2, <2>3
<1>3. Orphaned(ns) = [n \in AllNames |-> Orphaned(ns)[n]]
  BY <1>1 DEF Orphaned
<1>. QED
  BY <1>2, <1>3

(* A removal leaves nothing, or a stray. *)
LEMMA RemoveFields ==
  ASSUME Types, NEW n \in AllNames, NEW c \in Remove(n)
  PROVE  /\ c \in CompType
         /\ c.st = "none" \/ c.stray
         /\ tier = "seatbelt" => c = Gone
<1>1. comp[n] \in CompType
  BY DEF Types
<1>2. CASE c = Gone
  BY <1>2, GoneFields
<1>3. CASE c # Gone
  <2>1. tier = "podman" /\ c = [comp[n] EXCEPT !.st = "up", !.stray = TRUE]
    BY <1>3 DEF Remove
  <2>2. c \in CompType /\ c.stray = TRUE
    BY <1>1, <2>1, Zenon DEF CompType
  <2>. QED
    BY <2>1, <2>2
<1>. QED
  BY <1>2, <1>3

(* A sweep leaves a podman client without its container, and on Seatbelt a *)
(* stray or what has no record.                                            *)
LEMMA ReapedFields ==
  ASSUME Types, NEW n \in AllNames
  PROVE  /\ Reaped(n) \in CompType
         /\ \/ Reaped(n).st = "none"
            \/ Reaped(n).stray
            \/ Reaped(n) = comp[n] /\ tier = "podman" /\ comp[n].st = "starting"
            \/ Reaped(n) = comp[n] /\ tier = "seatbelt" /\ comp[n].rec = "none"
<1>1. comp[n] \in CompType /\ tier \in {"podman", "seatbelt"}
  BY DEF Types
<1>2. CASE tier = "podman"
  <2>1. Reaped(n) = IF comp[n].st = "up" THEN Gone ELSE comp[n]
    BY <1>2 DEF Reaped
  <2>2. comp[n].st \in {"none", "starting", "up"}
    BY <1>1 DEF CompType
  <2>. QED
    BY <1>1, <1>2, <2>1, <2>2, GoneFields
<1>3. CASE tier = "seatbelt" /\ comp[n].rec = "none"
  <2>1. Reaped(n) = comp[n]
    BY <1>3 DEF Reaped
  <2>. QED
    BY <1>1, <1>3, <2>1
<1>4. CASE tier = "seatbelt" /\ comp[n].rec = "pending" /\ comp[n].st = "up"
  <2>1. Reaped(n) = [comp[n] EXCEPT !.rec = "none", !.stray = TRUE]
    BY <1>4 DEF Reaped
  <2>2. Reaped(n) \in CompType /\ Reaped(n).stray = TRUE
    BY <1>1, <2>1, Zenon DEF CompType
  <2>. QED
    BY <2>2
<1>5. CASE tier = "seatbelt" /\ comp[n].rec # "none" /\ ~(comp[n].rec = "pending" /\ comp[n].st = "up")
  <2>1. Reaped(n) = [Gone EXCEPT !.scratch = comp[n].scratch]
    BY <1>5 DEF Reaped
  <2>2. Reaped(n) \in CompType /\ Reaped(n).st = "none"
    BY <1>1, <2>1, Zenon DEF CompType, Gone
  <2>. QED
    BY <2>2
<1>. QED
  BY <1>1, <1>2, <1>3, <1>4, <1>5

(* A removal, refused by the engine or not, leaves nothing or a stray. *)
LEMMA RemovalOutcome ==
  ASSUME Types, NEW n \in AllNames, Removal(n)
  PROVE  \E c \in CompType : /\ c.st = "none" \/ c.stray
                             /\ tier = "seatbelt" => c = Gone
                             /\ comp' = [comp EXCEPT ![n] = c]
<1>1. comp[n] \in CompType
  BY DEF Types
<1>2. CASE \E c \in Remove(n) : comp' = [comp EXCEPT ![n] = c]
  BY <1>2, RemoveFields, Zenon
<1>3. CASE NotRemoved(n) /\ comp' = [comp EXCEPT ![n].stray = TRUE]
  <2> DEFINE c == [comp[n] EXCEPT !.stray = TRUE]
  <2>1. comp' = [comp EXCEPT ![n] = c]
    BY <1>3, Zenon
  <2>2. c \in CompType /\ c.stray = TRUE
    BY <1>1, Zenon DEF CompType
  <2>3. tier # "seatbelt"
    BY <1>3 DEF NotRemoved
  <2> HIDE DEF c
  <2>. QED
    BY <2>1, <2>2, <2>3, Zenon
<1>. QED
  BY <1>2, <1>3, Zenon DEF Removal

(* A sweep reaps what it may and touches nothing else; what the engine     *)
(* refuses to remove is left as a stray.                                   *)
LEMMA SweepOutcome ==
  ASSUME Types, NEW ns, NEW self, Sweep(ns, self)
  PROVE  /\ comp' \in [AllNames -> CompType]
         /\ \A n \in AllNames :
              \/ comp'[n] = comp[n] /\ ~(n \in ns /\ reapable(n, self))
              \/ comp'[n] = Reaped(n) /\ n \in ns /\ reapable(n, self)
              \/ /\ n \in ns /\ reapable(n, self) /\ tier = "podman"
                 /\ comp'[n] = [comp[n] EXCEPT !.stray = TRUE]
<1> DEFINE mine == {n \in ns : reapable(n, self)}
           Without(S) == [n \in AllNames |-> IF n \in S THEN Reaped(n) ELSE comp[n]]
<1>1. comp \in [AllNames -> CompType] /\ DOMAIN comp = AllNames
  BY DEF Types
<1>2. \A n : n \in mine <=> n \in ns /\ reapable(n, self)
  BY Zenon
<1>3. \/ comp' = Without(mine)
      \/ \E m \in mine : NotRemoved(m) /\ comp' = [Without(mine \ {m}) EXCEPT ![m].stray = TRUE]
  BY <1>1, Zenon DEF Sweep
<1> HIDE DEF mine
<1>4. \A S : /\ Without(S) \in [AllNames -> CompType]
             /\ \A n \in AllNames : Without(S)[n] = IF n \in S THEN Reaped(n) ELSE comp[n]
  BY <1>1, ReapedFields
<1>5. CASE comp' = Without(mine)
  BY <1>2, <1>4, <1>5, Zenon
<1>6. ASSUME NEW m \in mine, NotRemoved(m), comp' = [Without(mine \ {m}) EXCEPT ![m].stray = TRUE]
      PROVE  /\ comp' \in [AllNames -> CompType]
             /\ \A n \in AllNames :
                  \/ comp'[n] = comp[n] /\ n \notin mine
                  \/ comp'[n] = Reaped(n) /\ n \in mine
                  \/ n \in mine /\ tier = "podman" /\ comp'[n] = [comp[n] EXCEPT !.stray = TRUE]
  <2> DEFINE w == Without(mine \ {m})
  <2>1. /\ w \in [AllNames -> CompType]
        /\ \A n \in AllNames : w[n] = IF n \in mine \ {m} THEN Reaped(n) ELSE comp[n]
    BY <1>4, Zenon
  <2>2. comp' = [w EXCEPT ![m].stray = TRUE] /\ tier = "podman"
    BY <1>6 DEF NotRemoved
  <2> HIDE DEF w
  <2>3. \A n \in AllNames : n # m => comp'[n] = w[n]
    BY <2>1, <2>2, Zenon
  <2>4. m \in AllNames => comp'[m] = [comp[m] EXCEPT !.stray = TRUE]
    <3>1. m \in AllNames => w[m] = comp[m]
      BY <2>1
    <3>. QED
      BY <2>1, <2>2, <3>1, Zenon
  <2>5. \A n \in AllNames : [comp[n] EXCEPT !.stray = TRUE] \in CompType
    <3>1. \A c \in CompType : [c EXCEPT !.stray = TRUE] \in CompType
      BY Zenon DEF CompType
    <3>. QED
      BY <1>1, <3>1, Zenon
  <2>6. comp' \in [AllNames -> CompType]
    <3>1. DOMAIN comp' = AllNames /\ comp' = [n \in AllNames |-> comp'[n]]
      BY <2>1, <2>2, Zenon
    <3>2. \A n \in AllNames : comp'[n] \in CompType
      BY <2>1, <2>3, <2>4, <2>5, Zenon
    <3>. QED
      BY <3>1, <3>2, Zenon
  <2>7. \A n \in AllNames : n # m => \/ comp'[n] = comp[n] /\ n \notin mine
                                     \/ comp'[n] = Reaped(n) /\ n \in mine
    BY <2>1, <2>3
  <2>. QED
    BY <2>2, <2>4, <2>6, <2>7, Zenon
<1>. QED
  BY <1>2, <1>3, <1>5, <1>6, Zenon

-----------------------------------------------------------------------------
(* The names, and what is kept by a step that leaves some of them alone. *)

(* An agent's name is no session name. *)
LEMMA AgentIsName ==
  ASSUME NEW q \in Requests, NEW a \in Agents[q]
  PROVE  /\ Name[Child[q], a] \in Names(q) /\ Name[Child[q], a] \in AgentNames
         /\ Name[Child[q], a] \in AllNames /\ Name[Child[q], a] \notin ExecNames
<1>1. Name[Child[q], a] \in Names(q)
  BY Zenon DEF Names
<1>2. Names(q) \subseteq AgentNames
  BY Zenon DEF Names, AgentNames
<1>. QED
  BY <1>1, <1>2, RuntimesAssumption, Zenon DEF AllNames

LEMMA NamesAreNames ==
  ASSUME NEW q \in Requests
  PROVE  Names(q) \subseteq AgentNames /\ IsFiniteSet(Names(q)) /\ Child[q] \in Ids
<1>1. Names(q) \subseteq AgentNames
  BY Zenon DEF Names, AgentNames
<1>2. IsFiniteSet(Names(q))
  <2> DEFINE f == [a \in Agents[q] |-> Name[Child[q], a]]
  <2>1. f \in Surjection(Agents[q], Names(q))
    BY Zenon DEF Surjection, Names
  <2>2. IsFiniteSet(Agents[q])
    BY RuntimesAssumption
  <2> HIDE DEF f
  <2>. QED
    BY <2>1, <2>2, FS_Surjection, Zenon
<1>3. Child[q] \in Ids
  BY DEF Ids
<1>. QED
  BY <1>1, <1>2, <1>3

(* A session name is its child's, and no agent's name. *)
LEMMA ExecIsName ==
  ASSUME NEW i \in Ids
  PROVE  /\ Exec[i] \in ExecNames /\ Exec[i] \in AllNames /\ Exec[i] \notin AgentNames
         /\ \A j \in Ids : Exec[i] = Exec[j] => i = j
<1>1. Exec[i] \in ExecNames
  BY DEF ExecNames
<1>. QED
  BY <1>1, RuntimesAssumption DEF AllNames

(* The table is right as long as nobody is admitted or released. *)
LEMMA TableFrame ==
  ASSUME Table, table' = table,
         \A q \in Requests : set'[q].pc = "idle" <=> set[q].pc = "idle"
  PROVE  Table' /\ Live' = Live
<1>1. Live' = Live
  BY Zenon DEF Live
<1>. QED
  BY <1>1, Zenon DEF Table, Names

(* A refexec that starts has a handler, and a handler that stops waiting   *)
(* leaves none: what else may happen to either.                            *)
LEMMA LivesFrame ==
  ASSUME Lives, sup' = sup, Live' \subseteq Live,
         \A i \in Ids : /\ rx'[i].life = rx[i].life
                        /\ rx'[i].run => rx'[i].pc \in {"up", "term"}
                        /\ rx'[i].pc # "none" => rx[i].pc # "none",
         \A q \in Requests : Awaits(q) => Awaits(q)' \/ rx'[Child[q]].pc = "none"
  PROVE  Lives'
<1>1. (Live # {} => sup.pc \in {"serve", "close"})'
  BY Zenon DEF Lives
<1>2. ASSUME NEW i \in Ids
      PROVE  (rx[i].life <= sup.life)'
  BY Zenon DEF Lives
<1>3. ASSUME NEW i \in Ids, Current(i)'
      PROVE  \E q \in Requests : Child[q] = i /\ Awaits(q)'
  <2>1. rx'[i].pc # "none" /\ Current(i)
    BY <1>3, Zenon DEF Current
  <2>2. PICK q \in Requests : Child[q] = i /\ Awaits(q)
    BY <2>1, Zenon DEF Lives
  <2>. QED
    BY <2>1, <2>2, Zenon
<1>. QED
  BY <1>1, <1>2, <1>3, Zenon DEF Lives

(* An agent compartment that was c and is d is no more than it was. *)
Fades(c, d) ==
  \/ d.st = "none" \/ d.stray
  \/ /\ c.st # "none" /\ ~c.stray
     /\ d.st = "starting" => c.st = "starting"
     /\ c.rec # "none" => d.rec # "none"

(* An agent compartment that a handler has just listed. *)
Arrives(n) ==
  /\ sup.pc \in {"serve", "close"} /\ Listed(n)'
  /\ tier = "seatbelt" => comp'[n].rec # "none"

LEMMA CoverFrame ==
  ASSUME Cover, sup' = sup, tier' = tier,
         \A q \in Requests : /\ set'[q].launched \subseteq Agents[q]
                             /\ set'[q].pc \in {"idle", "start", "release"} => set'[q].launched = {},
         \A n \in AgentNames : Ours(n)' /\ Listed(n) => Listed(n)',
         \A n \in AgentNames : Fades(comp[n], comp'[n]) \/ Arrives(n)
  PROVE  Cover'
<1>1. ASSUME NEW n \in AgentNames, Ours(n)', ~Arrives(n)
      PROVE  Ours(n) /\ (comp[n].rec # "none" => comp'[n].rec # "none")
  BY <1>1, Zenon DEF Ours, Fades
<1>2. \A q \in Requests : (set[q].launched \subseteq Agents[q])'
  BY Zenon
<1>3. \A q \in Requests : (set[q].pc \in {"idle", "start", "release"} => set[q].launched = {})'
  BY Zenon
<1>4. (sup.pc \in {"serve", "close"} => \A n \in AgentNames : Ours(n) => Listed(n))'
  <2>1. ASSUME sup.pc \in {"serve", "close"}, NEW n \in AgentNames, Ours(n)', ~Arrives(n)
        PROVE  Listed(n)'
    <3>1. Listed(n)
      BY <1>1, <2>1, Zenon DEF Cover
    <3>. QED
      BY <2>1, <3>1, Zenon
  <2>. QED
    BY <2>1, Zenon DEF Arrives
<1>5. (sup.pc = "sweep" /\ sup.then = "serve" => \A n \in AgentNames : ~Ours(n))'
  <2>1. sup.pc = "sweep" => \A n \in AgentNames : ~Arrives(n)
    BY DEF Arrives
  <2>. QED
    BY <1>1, <2>1, Zenon DEF Cover
<1>6. (sup.pc \in {"down", "reap"} /\ sup.then = "serve" /\ tier = "podman" =>
         \A n \in AgentNames : comp[n].st = "starting" => comp[n].stray)'
  <2> SUFFICES ASSUME sup.pc \in {"down", "reap"}, sup.then = "serve", tier = "podman",
                      NEW n \in AgentNames, comp'[n].st = "starting", ~comp'[n].stray
               PROVE  FALSE
    BY Zenon
  <2>1. ~Arrives(n) /\ comp'[n].st # "none"
    BY DEF Arrives
  <2>2. comp[n].st = "starting" /\ ~comp[n].stray
    BY <2>1, Zenon DEF Fades
  <2>. QED
    BY <2>2, Zenon DEF Cover
<1>7. (tier = "seatbelt" => \A n \in AgentNames : Ours(n) => comp[n].rec # "none")'
  <2>1. ASSUME tier = "seatbelt", NEW n \in AgentNames, Ours(n)', ~Arrives(n)
        PROVE  comp'[n].rec # "none"
    BY <1>1, <2>1, Zenon DEF Cover
  <2>. QED
    BY <2>1, Zenon DEF Arrives
<1>. QED
  BY <1>2, <1>3, <1>4, <1>5, <1>6, <1>7, Zenon DEF Cover

(* What is listed stays listed while no handler ends or drops an agent. *)
LEMMA ListedGrows ==
  ASSUME Live' = Live, \A q \in Requests : set[q].launched \subseteq set'[q].launched,
         NEW n, Listed(n)
  PROVE  Listed(n)'
<1>1. PICK q \in Live : \E a \in set[q].launched : Name[Child[q], a] = n
  BY Zenon DEF Listed
<1>2. q \in Requests /\ q \in Live'
  BY Zenon DEF Live
<1>. QED
  BY <1>1, <1>2, Zenon DEF Listed

(* The agents' compartments fade and no handler moves. *)
LEMMA CoverSame ==
  ASSUME Cover, sup' = sup, tier' = tier, Live' = Live, set' = set,
         \A n \in AgentNames : Fades(comp[n], comp'[n])
  PROVE  Cover'
<1>1. \A n \in AgentNames : Ours(n)' /\ Listed(n) => Listed(n)'
  BY ListedGrows, Zenon
<1>2. \A q \in Requests : /\ set'[q].launched \subseteq Agents[q]
                          /\ set'[q].pc \in {"idle", "start", "release"} => set'[q].launched = {}
  BY Zenon DEF Cover
<1>. QED
  BY <1>1, <1>2, CoverFrame, Zenon

(* A session's compartment that was c and is d keeps what a sweep looks at, *)
(* unless its refexec is gone.                                             *)
Keeps(c, d) ==
  tier = "seatbelt" /\ d.st # "none" /\ ~d.orphan =>
    /\ c.st # "none" /\ ~c.orphan /\ d.rec # "none"
    /\ c.late => d.late
    /\ d.st = "up" /\ ~d.late => d.scratch

LEMMA CommandsFrame ==
  ASSUME Commands, tier' = tier,
         \A n \in ExecNames : Keeps(comp[n], comp'[n]),
         \A j \in Ids : rx'[j].pc = "sweep" => rx[j].pc = "sweep" /\ rx'[j].keep = rx[j].keep,
         \A i \in Ids : rx'[i].run => rx[i].run /\ (comp'[Exec[i]].orphan => comp[Exec[i]].orphan)
  PROVE  Commands'
<1>1. ASSUME NEW n \in ExecNames, tier = "seatbelt", comp'[n].st # "none", ~comp'[n].orphan
      PROVE  /\ comp'[n].rec # "none"
             /\ \A j \in Ids : rx'[j].pc = "sweep" /\ n \notin rx'[j].keep => comp'[n].late
             /\ comp'[n].st = "up" /\ ~comp'[n].late => comp'[n].scratch
  <2>1. /\ comp[n].st # "none" /\ ~comp[n].orphan /\ comp'[n].rec # "none"
        /\ comp[n].late => comp'[n].late
        /\ comp'[n].st = "up" /\ ~comp'[n].late => comp'[n].scratch
    BY <1>1, Zenon DEF Keeps
  <2>2. \A j \in Ids : rx[j].pc = "sweep" /\ n \notin rx[j].keep => comp[n].late
    BY <1>1, <2>1, Zenon DEF Commands
  <2>. QED
    BY <2>1, <2>2, Zenon
<1>2. \A i \in Ids : rx'[i].run => ~comp'[Exec[i]].orphan
  BY Zenon DEF Commands
<1>. QED
  BY <1>1, <1>2, Zenon DEF Commands

(* No set loses its store or its directories. *)
LEMMA WholeFrame ==
  ASSUME Whole, stores \subseteq stores', dirs' = dirs,
         \A q \in Requests : set'[q].pc \in {"launch", "held"} => set[q].pc \in {"launch", "held"}
  PROVE  Whole'
BY Zenon DEF Whole, Owns

-----------------------------------------------------------------------------
(* The steps of a compartment. *)

LEMMA FadesSelf ==
  ASSUME NEW n
  PROVE  Fades(comp[n], comp[n])
BY Zenon DEF Fades

LEMMA KeepsSelf ==
  ASSUME Commands, NEW n \in ExecNames
  PROVE  Keeps(comp[n], comp[n])
BY Zenon DEF Commands, Keeps

(* The commands are untouched by a step that leaves them and refexec alone. *)
LEMMA CommandsSame ==
  ASSUME Commands, tier' = tier, rx' = rx, \A n \in ExecNames : comp'[n] = comp[n]
  PROVE  Commands'
<1>1. \A n \in ExecNames : Keeps(comp[n], comp'[n])
  BY KeepsSelf, Zenon
<1>2. \A i \in Ids : comp'[Exec[i]] = comp[Exec[i]]
  BY ExecIsName, Zenon
<1>. QED
  BY <1>1, <1>2, CommandsFrame, Zenon

(* A step of one compartment that no process takes part in. *)
LEMMA CompartmentStep ==
  ASSUME Inv, NEW n \in AllNames, NEW c \in CompType,
         comp' = [comp EXCEPT ![n] = c], stores \subseteq stores',
         UNCHANGED <<tier, sup, table, set, rx, dirs>>,
         n \in AgentNames => Fades(comp[n], c),
         n \in ExecNames => Keeps(comp[n], c),
         c.orphan => comp[n].orphan
  PROVE  Inv'
<1>1. /\ tier' = tier /\ sup' = sup /\ table' = table /\ set' = set /\ rx' = rx /\ dirs' = dirs
      /\ Types /\ Table /\ Lives /\ Cover /\ Commands /\ Whole
  BY DEF Inv
<1>2. Types'
  BY <1>1 DEF Types
<1>3. Table' /\ Live' = Live
  BY <1>1, TableFrame, Zenon
<1>4. Lives'
  <2>1. \A i \in Ids : rx[i].run => rx[i].pc \in {"up", "term"}
    BY <1>1, Zenon DEF Lives
  <2>2. \A q \in Requests : Awaits(q)' = Awaits(q)
    BY <1>1, Zenon DEF Awaits
  <2>. QED
    BY <1>1, <1>3, <2>1, <2>2, LivesFrame, Zenon
<1>5. comp'[n] = c /\ \A m \in AllNames : m # n => comp'[m] = comp[m]
  BY <1>1 DEF Types
<1>6. Cover'
  <2>1. \A m \in AgentNames : Fades(comp[m], comp'[m])
    BY <1>5, FadesSelf, Zenon DEF AllNames
  <2>. QED
    BY <1>1, <1>3, <2>1, CoverSame, Zenon
<1>7. Commands'
  <2>1. \A m \in ExecNames : Keeps(comp[m], comp'[m])
    BY <1>1, <1>5, KeepsSelf, Zenon DEF AllNames
  <2>2. \A m \in AllNames : comp'[m].orphan => comp[m].orphan
    BY <1>5, Zenon
  <2>3. \A i \in Ids : comp'[Exec[i]].orphan => comp[Exec[i]].orphan
    BY <2>2, ExecIsName, Zenon
  <2>. QED
    BY <1>1, <2>1, <2>3, CommandsFrame, Zenon
<1>8. Whole'
  BY <1>1, WholeFrame, Zenon
<1>. QED
  BY <1>2, <1>3, <1>4, <1>6, <1>7, <1>8, Zenon DEF Inv

LEMMA CreateInv ==
  ASSUME Inv, NEW n \in AllNames, Create(n)
  PROVE  Inv'
<1> DEFINE c == [comp[n] EXCEPT !.st = "up"]
<1>1. comp[n] \in CompType /\ tier = "podman" /\ comp[n].st = "starting"
  BY DEF Inv, Types, Create
<1>2. c \in CompType /\ c.stray = comp[n].stray /\ c.st = "up" /\ c.orphan = comp[n].orphan
      /\ c.rec = comp[n].rec
  BY <1>1 DEF CompType
<1>3. comp' = [comp EXCEPT ![n] = c] /\ stores \subseteq stores'
  BY DEF Create
<1>4. UNCHANGED <<tier, sup, table, set, rx, dirs>>
  BY DEF Create
<1> HIDE DEF c
<1>5. Fades(comp[n], c)
  BY <1>1, <1>2 DEF Fades
<1>6. Keeps(comp[n], c)
  BY <1>1 DEF Keeps
<1>. QED
  BY <1>2, <1>3, <1>4, <1>5, <1>6, CompartmentStep, Zenon

LEMMA DidNotLaunchInv ==
  ASSUME Inv, NEW n \in AllNames, DidNotLaunch(n)
  PROVE  Inv'
<1>1. comp' = [comp EXCEPT ![n] = Gone] /\ stores \subseteq stores'
  BY DEF DidNotLaunch
<1>2. UNCHANGED <<tier, sup, table, set, rx, dirs>>
  BY DEF DidNotLaunch
<1>3. Fades(comp[n], Gone) /\ Keeps(comp[n], Gone)
  BY GoneFields, Zenon DEF Fades, Keeps
<1>. QED
  BY <1>1, <1>2, <1>3, GoneFields, CompartmentStep, Zenon

LEMMA BeginInv ==
  ASSUME Inv, NEW n \in AllNames, Begin(n)
  PROVE  Inv'
<1> DEFINE s == n \in ExecNames
           c == [comp[n] EXCEPT !.st = "up", !.scratch = s]
<1>1. /\ comp \in [AllNames -> CompType] /\ comp[n] \in CompType
      /\ tier = "seatbelt" /\ comp[n].st = "starting" /\ ~comp[n].orphan
  BY DEF Inv, Types, Begin
<1>2. s \in BOOLEAN
  OBVIOUS
<1>3. comp' = [comp EXCEPT ![n].st = "up", ![n].scratch = s]
  BY DEF Begin
<1>4. UNCHANGED <<tier, sup, table, set, rx, dirs>> /\ stores \subseteq stores'
  BY DEF Begin
<1> HIDE DEF s
<1>5. comp' = [comp EXCEPT ![n] = c]
  BY <1>1, <1>3, Zenon DEF CompType
<1>6. c \in CompType /\ c.stray = comp[n].stray /\ c.st = "up" /\ c.orphan = comp[n].orphan
      /\ c.rec = comp[n].rec /\ c.scratch = s /\ c.late = comp[n].late
  BY <1>1, <1>2, Zenon DEF CompType
<1> HIDE DEF c
<1>7. Fades(comp[n], c)
  BY <1>1, <1>6 DEF Fades
<1>8. n \in ExecNames => Keeps(comp[n], c)
  <2>1. n \in ExecNames => comp[n].rec # "none"
    BY <1>1, Zenon DEF Inv, Commands
  <2>. QED
    BY <1>1, <1>6, <2>1, Zenon DEF Keeps, s
<1>. QED
  BY <1>4, <1>5, <1>6, <1>7, <1>8, CompartmentStep, Zenon

LEMMA CompleteInv ==
  ASSUME Inv, NEW n \in AllNames, Complete(n)
  PROVE  Inv'
<1> DEFINE c == [comp[n] EXCEPT !.rec = "full"]
<1>1. /\ comp[n] \in CompType
      /\ tier = "seatbelt" /\ comp[n].st = "up" /\ ~comp[n].orphan
  BY DEF Inv, Types, Complete
<1>2. comp' = [comp EXCEPT ![n] = c]
  BY DEF Complete
<1>3. UNCHANGED <<tier, sup, table, set, rx, dirs>> /\ stores \subseteq stores'
  BY DEF Complete
<1>4. c \in CompType /\ c.stray = comp[n].stray /\ c.st = "up" /\ c.orphan = comp[n].orphan
      /\ c.rec = "full" /\ c.scratch = comp[n].scratch /\ c.late = comp[n].late
  BY <1>1 DEF CompType
<1> HIDE DEF c
<1>5. Fades(comp[n], c)
  BY <1>1, <1>4 DEF Fades
<1>6. n \in ExecNames => Keeps(comp[n], c)
  <2>1. n \in ExecNames => (~comp[n].late => comp[n].scratch)
    BY <1>1, Zenon DEF Inv, Commands
  <2>. QED
    BY <1>1, <1>4, <2>1 DEF Keeps
<1>. QED
  BY <1>2, <1>3, <1>4, <1>5, <1>6, CompartmentStep, Zenon

LEMMA ExitInv ==
  ASSUME Inv, NEW n \in AllNames, Exit(n)
  PROVE  Inv'
<1> DEFINE c == IF tier = "seatbelt" /\ comp[n].orphan THEN [comp[n] EXCEPT !.st = "none"] ELSE Gone
<1>1. comp[n] \in CompType
  BY DEF Inv, Types
<1>2. comp' = [comp EXCEPT ![n] = c]
  BY DEF Exit
<1>3. UNCHANGED <<tier, sup, table, set, rx, dirs>> /\ stores \subseteq stores'
  BY DEF Exit
<1>4. c \in CompType /\ c.st = "none" /\ (c.orphan => comp[n].orphan)
  BY <1>1, GoneFields DEF CompType
<1> HIDE DEF c
<1>5. Fades(comp[n], c) /\ Keeps(comp[n], c)
  BY <1>4, Zenon DEF Fades, Keeps
<1>. QED
  BY <1>2, <1>3, <1>4, <1>5, CompartmentStep, Zenon

-----------------------------------------------------------------------------
(* The steps of a refexec. *)

(* A step of one refexec that touches no agent's compartment. *)
LEMMA RefexecStep ==
  ASSUME Inv, NEW i \in Ids, UNCHANGED <<tier, sup, table, set, stores, dirs>>,
         comp' \in [AllNames -> CompType], rx' \in [Ids -> RxType],
         \A n \in AgentNames : comp'[n] = comp[n],
         \A j \in Ids : j # i => rx'[j] = rx[j],
         rx'[i].life = rx[i].life,
         rx'[i].run => rx'[i].pc \in {"up", "term"},
         rx'[i].pc # "none" => rx[i].pc # "none",
         Commands'
  PROVE  Inv'
<1>1. /\ tier' = tier /\ sup' = sup /\ table' = table /\ set' = set /\ stores' = stores /\ dirs' = dirs
      /\ Types /\ Table /\ Lives /\ Cover /\ Commands /\ Whole
  BY DEF Inv
<1>2. Types'
  BY <1>1 DEF Types
<1>3. Table' /\ Live' = Live
  BY <1>1, TableFrame, Zenon
<1>4. Lives'
  <2>1. \A j \in Ids : rx[j].run => rx[j].pc \in {"up", "term"}
    BY <1>1, Zenon DEF Lives
  <2>2. \A q \in Requests : Awaits(q)' = Awaits(q)
    BY <1>1, Zenon DEF Awaits
  <2>3. \A j \in Ids : /\ rx'[j].life = rx[j].life
                       /\ rx'[j].run => rx'[j].pc \in {"up", "term"}
                       /\ rx'[j].pc # "none" => rx[j].pc # "none"
    BY <2>1, Zenon
  <2>. QED
    BY <1>1, <1>3, <2>2, <2>3, LivesFrame, Zenon
<1>5. Cover'
  <2>1. \A m \in AgentNames : Fades(comp[m], comp'[m])
    BY FadesSelf, Zenon
  <2>. QED
    BY <1>1, <1>3, <2>1, CoverSame, Zenon
<1>6. Whole'
  BY <1>1, WholeFrame, Zenon
<1>. QED
  BY <1>2, <1>3, <1>4, <1>5, <1>6, Zenon DEF Inv

(* The end of a refexec orphans its command and touches nothing else. *)
LEMMA DiesKeeps ==
  ASSUME Inv, NEW i \in Ids, Dies(i), tier' = tier
  PROVE  /\ comp' \in [AllNames -> CompType] /\ rx' \in [Ids -> RxType]
         /\ \A n \in AllNames : comp'[n].st = comp[n].st
         /\ \A n \in AgentNames : comp'[n] = comp[n]
         /\ \A j \in Ids : j # i => rx'[j] = rx[j]
         /\ rx'[i].life = rx[i].life /\ ~rx'[i].run /\ rx'[i].pc = "none"
         /\ Commands'
<1>1. Types /\ Commands /\ rx \in [Ids -> RxType] /\ rx[i].life \in Nat
  BY DEF Inv, Types, RxType
<1>2. comp' = Orphaned({Exec[i]})
  BY DEF Dies
<1>3. /\ comp' \in [AllNames -> CompType]
      /\ \A n \in AllNames : /\ n # Exec[i] => comp'[n] = comp[n]
                             /\ comp'[n].st = comp[n].st /\ comp'[n].rec = comp[n].rec
                             /\ comp[n].st # "none" /\ n = Exec[i] => comp'[n].orphan
  BY <1>1, <1>2, OrphanedFields
<1>4. \A n \in AgentNames : comp'[n] = comp[n]
  BY <1>3, ExecIsName, Zenon DEF AllNames
<1>5. /\ rx' \in [Ids -> RxType]
      /\ \A j \in Ids : j # i => rx'[j] = rx[j]
      /\ rx'[i].life = rx[i].life /\ rx'[i].run = FALSE /\ rx'[i].pc = "none"
  BY <1>1, Zenon DEF Dies, NoRefexec, RxType
<1>6. Commands'
  <2>1. ASSUME NEW n \in ExecNames
        PROVE  Keeps(comp[n], comp'[n])
    <3>1. n \in AllNames
      BY DEF AllNames
    <3>2. CASE n = Exec[i]
      BY <1>3, <3>1, <3>2, Zenon DEF Keeps
    <3>3. CASE n # Exec[i]
      BY <1>1, <1>3, <3>1, <3>3, KeepsSelf, Zenon
    <3>. QED
      BY <3>2, <3>3
  <2>2. ASSUME NEW j \in Ids, rx'[j].run
        PROVE  rx[j].run /\ (comp'[Exec[j]].orphan => comp[Exec[j]].orphan)
    <3>1. j # i
      BY <1>5, <2>2
    <3>2. Exec[j] # Exec[i] /\ Exec[j] \in AllNames
      BY <3>1, ExecIsName, Zenon
    <3>. QED
      BY <1>3, <1>5, <2>2, <3>1, <3>2, Zenon
  <2>3. \A j \in Ids : rx'[j].pc = "sweep" => rx[j].pc = "sweep" /\ rx'[j].keep = rx[j].keep
    <3>1. rx'[i].pc # "sweep"
      BY <1>5
    <3>. QED
      BY <1>5, <3>1, Zenon
  <2>. QED
    BY <1>1, <2>1, <2>2, <2>3, CommandsFrame, Zenon
<1>. QED
  BY <1>3, <1>4, <1>5, <1>6

(* A SIGTERM to a refexec starts its way out, or is its end. *)
LEMMA TerminateKeeps ==
  ASSUME Inv, NEW i \in Ids, Terminate(i), tier' = tier
  PROVE  /\ comp' \in [AllNames -> CompType] /\ rx' \in [Ids -> RxType]
         /\ \A n \in AllNames : comp'[n].st = comp[n].st
         /\ \A n \in AgentNames : comp'[n] = comp[n]
         /\ \A j \in Ids : j # i => rx'[j] = rx[j]
         /\ rx'[i].life = rx[i].life
         /\ rx'[i].run => rx'[i].pc \in {"up", "term"}
         /\ rx'[i].pc # "none" => rx[i].pc # "none"
         /\ Commands'
<1>1. CASE rx[i].pc = "up"
  <2>1. rx' = [rx EXCEPT ![i].pc = "term"] /\ comp' = comp
    BY <1>1 DEF Terminate
  <2>2. comp \in [AllNames -> CompType] /\ rx \in [Ids -> RxType] /\ rx[i] \in RxType /\ Commands
    BY DEF Inv, Types
  <2>3. /\ rx' \in [Ids -> RxType]
        /\ \A j \in Ids : j # i => rx'[j] = rx[j]
        /\ rx'[i].life = rx[i].life /\ rx'[i].run = rx[i].run /\ rx'[i].pc = "term"
    BY <2>1, <2>2 DEF RxType
  <2>4. Commands'
    <3>1. \A n \in ExecNames : Keeps(comp[n], comp'[n])
      BY <2>1, <2>2, KeepsSelf, Zenon
    <3>2. rx'[i].pc # "sweep"
      BY <2>3
    <3>3. \A j \in Ids : rx'[j].pc = "sweep" => rx[j].pc = "sweep" /\ rx'[j].keep = rx[j].keep
      BY <2>3, <3>2, Zenon
    <3>4. \A j \in Ids : rx'[j].run => rx[j].run
      BY <2>3, Zenon
    <3>. QED
      BY <2>1, <2>2, <3>1, <3>3, <3>4, CommandsFrame, Zenon
  <2>. QED
    BY <1>1, <2>1, <2>2, <2>3, <2>4
<1>2. CASE rx[i].pc # "up"
  <2>1. Dies(i)
    BY <1>2 DEF Terminate
  <2>. QED
    BY <2>1, DiesKeeps, Zenon
<1>. QED
  BY <1>1, <1>2

LEMMA RefexecReapInv ==
  ASSUME Inv, NEW i \in Ids, RefexecReap(i)
  PROVE  Inv'
<1> DEFINE kept == {n \in ExecNames : comp[n].rec # "none" /\ ~reapable(n, FALSE)}
<1>1. /\ Types /\ Commands /\ comp \in [AllNames -> CompType] /\ DOMAIN comp = AllNames
      /\ rx \in [Ids -> RxType] /\ rx[i] \in RxType /\ tier \in {"podman", "seatbelt"}
  BY DEF Inv, Types
<1>2. /\ rx[i].pc = "boot" /\ UNCHANGED <<tier, sup, table, set, stores, dirs>> /\ tier' = tier
      /\ rx' = [rx EXCEPT ![i].pc = IF tier = "podman" THEN "up" ELSE "sweep", ![i].keep = kept]
  BY DEF RefexecReap
<1>3. /\ comp' \in [AllNames -> CompType]
      /\ \A n \in AllNames :
           \/ comp'[n] = comp[n] /\ ~(n \in ExecNames /\ comp[n].orphan)
           \/ comp'[n] = Reaped(n) /\ n \in ExecNames /\ comp[n].orphan
           \/ /\ n \in ExecNames /\ comp[n].orphan /\ tier = "podman"
              /\ comp'[n] = [comp[n] EXCEPT !.stray = TRUE]
  <2>1. \A n : reapable(n, FALSE) <=> comp[n].orphan
    BY DEF reapable
  <2>2. Sweep(ExecNames, FALSE)
    BY Zenon DEF RefexecReap
  <2>3. /\ comp' \in [AllNames -> CompType]
        /\ \A n \in AllNames :
             \/ comp'[n] = comp[n] /\ ~(n \in ExecNames /\ reapable(n, FALSE))
             \/ comp'[n] = Reaped(n) /\ n \in ExecNames /\ reapable(n, FALSE)
             \/ /\ n \in ExecNames /\ reapable(n, FALSE) /\ tier = "podman"
                /\ comp'[n] = [comp[n] EXCEPT !.stray = TRUE]
    BY <1>1, <2>2, SweepOutcome, Zenon
  <2>. QED
    BY <2>1, <2>3, Zenon
<1>4. kept \subseteq ExecNames
  BY Zenon
<1>5. /\ rx' \in [Ids -> RxType]
      /\ \A j \in Ids : j # i => rx'[j] = rx[j]
      /\ rx'[i].life = rx[i].life /\ rx'[i].run = rx[i].run /\ rx'[i].pc \in {"up", "sweep"}
      /\ rx'[i].keep = kept
  <2> HIDE DEF kept
  <2>. QED
    BY <1>1, <1>2, <1>4, Zenon DEF RxType
<1>6. rx[i].run = FALSE
  BY <1>1, <1>2 DEF Inv, Lives, RxType
<1>7. comp' \in [AllNames -> CompType]
  BY <1>3
<1>8. \A n \in AgentNames : comp'[n] = comp[n]
  <2>1. \A n \in AgentNames : n \in AllNames /\ n \notin ExecNames
    BY RuntimesAssumption DEF AllNames
  <2>. QED
    BY <1>3, <2>1, Zenon
<1>9. \A n \in ExecNames : \/ comp'[n] = comp[n] /\ ~comp[n].orphan
                           \/ comp'[n] = Reaped(n) /\ comp[n].orphan
                           \/ comp[n].orphan /\ tier = "podman"
  BY <1>3, Zenon DEF AllNames
<1>10. ASSUME NEW n \in ExecNames, tier = "seatbelt"
       PROVE  \/ comp'[n] = comp[n] /\ ~comp[n].orphan
              \/ comp'[n].st = "none"
              \/ comp'[n].orphan
  <2>1. CASE ~comp[n].orphan
    BY <1>9, <2>1, Zenon
  <2>2. CASE comp[n].orphan
    <3>1. comp'[n] = Reaped(n) /\ comp[n] \in CompType
      BY <1>1, <1>9, <1>10, <2>2 DEF AllNames
    <3>2. \/ Reaped(n) = comp[n]
          \/ Reaped(n) = [comp[n] EXCEPT !.rec = "none", !.stray = TRUE]
          \/ Reaped(n) = [Gone EXCEPT !.scratch = comp[n].scratch]
      BY <1>10 DEF Reaped
    <3>3. [comp[n] EXCEPT !.rec = "none", !.stray = TRUE].orphan = comp[n].orphan
      BY <3>1 DEF CompType
    <3>4. [Gone EXCEPT !.scratch = comp[n].scratch].st = "none"
      BY DEF Gone
    <3>. QED
      BY <2>2, <3>1, <3>2, <3>3, <3>4, Zenon
  <2>. QED
    BY <2>1, <2>2
<1>11. Commands'
  <2>1. ASSUME NEW n \in ExecNames, tier = "seatbelt", comp'[n].st # "none", ~comp'[n].orphan
        PROVE  /\ comp'[n].rec # "none"
               /\ \A j \in Ids : rx'[j].pc = "sweep" /\ n \notin rx'[j].keep => comp'[n].late
               /\ comp'[n].st = "up" /\ ~comp'[n].late => comp'[n].scratch
    <3>1. comp'[n] = comp[n] /\ ~comp[n].orphan
      BY <1>10, <2>1, Zenon
    <3>2. /\ comp[n].rec # "none"
          /\ \A j \in Ids : rx[j].pc = "sweep" /\ n \notin rx[j].keep => comp[n].late
          /\ comp[n].st = "up" /\ ~comp[n].late => comp[n].scratch
      BY <1>1, <2>1, <3>1, Zenon DEF Commands
    <3>3. n \in rx'[i].keep
      BY <1>5, <3>1, <3>2 DEF reapable
    <3>. QED
      BY <1>5, <3>1, <3>2, <3>3, Zenon
  <2>2. ASSUME NEW j \in Ids, rx'[j].run
        PROVE  ~comp'[Exec[j]].orphan
    <3>1. rx[j].run
      BY <1>5, <2>2, Zenon
    <3>2. ~comp[Exec[j]].orphan
      BY <1>1, <3>1, Zenon DEF Commands
    <3>. QED
      BY <1>9, <3>2, ExecIsName, Zenon
  <2>. QED
    BY <1>2, <2>1, <2>2, Zenon DEF Commands
<1> HIDE DEF kept
<1>12. rx'[i].run = FALSE /\ rx[i].pc # "none"
  BY <1>2, <1>5, <1>6
<1>. QED
  BY <1>2, <1>5, <1>7, <1>8, <1>11, <1>12, RefexecStep, Zenon

LEMMA RefexecSweepInv ==
  ASSUME Inv, NEW i \in Ids, RefexecSweep(i)
  PROVE  Inv'
<1>1. /\ Types /\ Commands /\ comp \in [AllNames -> CompType] /\ DOMAIN comp = AllNames
      /\ rx \in [Ids -> RxType] /\ rx[i] \in RxType
  BY DEF Inv, Types
<1>2. /\ rx[i].pc = "sweep" /\ UNCHANGED <<tier, sup, table, set, stores, dirs>> /\ tier' = tier
      /\ rx' = [rx EXCEPT ![i].pc = "up", ![i].keep = {}]
  BY DEF RefexecSweep
<1>3. comp' = [n \in AllNames |->
                 IF n \in ExecNames \ rx[i].keep THEN [comp[n] EXCEPT !.scratch = FALSE] ELSE comp[n]]
  BY <1>1 DEF RefexecSweep
<1>4. /\ rx' \in [Ids -> RxType]
      /\ \A j \in Ids : j # i => rx'[j] = rx[j]
      /\ rx'[i].life = rx[i].life /\ rx'[i].run = rx[i].run /\ rx'[i].pc = "up"
  BY <1>1, <1>2, Zenon DEF RxType
<1>5. comp' \in [AllNames -> CompType]
  <2>1. ASSUME NEW n \in AllNames
        PROVE  [comp[n] EXCEPT !.scratch = FALSE] \in CompType
    <3>1. comp[n] \in CompType
      BY <1>1
    <3>. QED
      BY <3>1, Zenon DEF CompType
  <2>. QED
    BY <1>1, <1>3, <2>1
<1>6. \A n \in AgentNames : comp'[n] = comp[n]
  BY <1>3, RuntimesAssumption DEF AllNames
<1>7. ASSUME NEW n \in ExecNames
      PROVE  /\ n \in rx[i].keep => comp'[n] = comp[n]
             /\ comp'[n].st = comp[n].st /\ comp'[n].orphan = comp[n].orphan
             /\ comp'[n].rec = comp[n].rec /\ comp'[n].late = comp[n].late
  <2>1. comp[n] \in CompType /\ n \in AllNames
    BY <1>1 DEF AllNames
  <2>2. comp'[n] = IF n \in rx[i].keep THEN comp[n] ELSE [comp[n] EXCEPT !.scratch = FALSE]
    BY <1>3, <2>1
  <2>. QED
    BY <2>1, <2>2 DEF CompType
<1>8. Commands'
  <2>1. ASSUME NEW n \in ExecNames
        PROVE  Keeps(comp[n], comp'[n])
    <3> SUFFICES ASSUME tier = "seatbelt", comp[n].st # "none", ~comp[n].orphan
                 PROVE  /\ comp[n].rec # "none"
                        /\ comp'[n].st = "up" /\ ~comp'[n].late => comp'[n].scratch
      BY <1>7, Zenon DEF Keeps
    <3>1. /\ comp[n].rec # "none"
          /\ n \notin rx[i].keep => comp[n].late
          /\ comp[n].st = "up" /\ ~comp[n].late => comp[n].scratch
      BY <1>1, <1>2, Zenon DEF Commands
    <3>. QED
      BY <1>7, <3>1, Zenon
  <2>2. rx'[i].pc # "sweep"
    BY <1>4
  <2>3. \A j \in Ids : rx'[j].pc = "sweep" => rx[j].pc = "sweep" /\ rx'[j].keep = rx[j].keep
    BY <1>4, <2>2, Zenon
  <2>4. \A j \in Ids : rx'[j].run => rx[j].run /\ (comp'[Exec[j]].orphan => comp[Exec[j]].orphan)
    BY <1>4, <1>7, ExecIsName, Zenon
  <2>. QED
    BY <1>1, <1>2, <2>1, <2>3, <2>4, CommandsFrame, Zenon
<1>9. rx'[i].pc \in {"up", "term"} /\ rx[i].pc # "none"
  BY <1>2, <1>4
<1>. QED
  BY <1>2, <1>4, <1>5, <1>6, <1>8, <1>9, RefexecStep, Zenon

LEMMA CommandInv ==
  ASSUME Inv, NEW i \in Ids, Command(i)
  PROVE  Inv'
<1> DEFINE c == Claimed(Exec[i], i)
<1>1. /\ Types /\ Commands /\ comp \in [AllNames -> CompType]
      /\ rx \in [Ids -> RxType] /\ rx[i] \in RxType
  BY DEF Inv, Types
<1>2. /\ rx[i].pc = "up" /\ UNCHANGED <<tier, sup, table, set, stores, dirs>> /\ tier' = tier
      /\ rx' = [rx EXCEPT ![i].run = TRUE] /\ comp' = [comp EXCEPT ![Exec[i]] = c]
  BY DEF Command
<1>3. /\ c \in CompType /\ c.st = "starting" /\ c.orphan = FALSE
      /\ tier = "seatbelt" => c.rec = "pending"
      /\ c.late = (Exec[i] \in ExecNames /\ \E j \in Ids : rx[j].pc = "sweep")
  BY <1>1, ClaimedFields, Zenon
<1>4. Exec[i] \in ExecNames /\ Exec[i] \in AllNames /\ Exec[i] \notin AgentNames
  BY ExecIsName, Zenon
<1> HIDE DEF c
<1>5. /\ rx' \in [Ids -> RxType]
      /\ \A j \in Ids : j # i => rx'[j] = rx[j]
      /\ rx'[i].life = rx[i].life /\ rx'[i].pc = rx[i].pc /\ rx'[i].keep = rx[i].keep
  BY <1>1, <1>2, Zenon DEF RxType
<1>6. /\ comp' \in [AllNames -> CompType] /\ comp'[Exec[i]] = c
      /\ \A n \in AllNames : n # Exec[i] => comp'[n] = comp[n]
  BY <1>1, <1>2, <1>3, <1>4
<1>7. \A n \in AgentNames : comp'[n] = comp[n]
  BY <1>4, <1>6, Zenon DEF AllNames
<1>8. Commands'
  <2>1. ASSUME NEW n \in ExecNames, tier = "seatbelt", comp'[n].st # "none", ~comp'[n].orphan
        PROVE  /\ comp'[n].rec # "none"
               /\ \A j \in Ids : rx'[j].pc = "sweep" /\ n \notin rx'[j].keep => comp'[n].late
               /\ comp'[n].st = "up" /\ ~comp'[n].late => comp'[n].scratch
    <3>1. CASE n = Exec[i]
      <4>1. comp'[n].rec # "none" /\ comp'[n].st # "up"
        BY <1>3, <1>6, <2>1, <3>1
      <4>2. \A j \in Ids : rx'[j].pc = "sweep" => rx[j].pc = "sweep"
        BY <1>5, Zenon
      <4>3. (\E j \in Ids : rx'[j].pc = "sweep") => comp'[n].late
        BY <1>3, <1>4, <1>6, <3>1, <4>2, Zenon
      <4>. QED
        BY <4>1, <4>3, Zenon
    <3>2. CASE n # Exec[i]
      <4>1. comp'[n] = comp[n]
        BY <1>6, <3>2, Zenon DEF AllNames
      <4>2. /\ comp[n].rec # "none"
            /\ \A j \in Ids : rx[j].pc = "sweep" /\ n \notin rx[j].keep => comp[n].late
            /\ comp[n].st = "up" /\ ~comp[n].late => comp[n].scratch
        BY <1>1, <2>1, <4>1, Zenon DEF Commands
      <4>3. \A j \in Ids : rx'[j].pc = rx[j].pc /\ rx'[j].keep = rx[j].keep
        BY <1>5, Zenon
      <4>4. \A j \in Ids : rx'[j].pc = "sweep" /\ n \notin rx'[j].keep => comp[n].late
        BY <4>2, <4>3
      <4>. QED
        BY <4>1, <4>2, <4>4
    <3>. QED
      BY <3>1, <3>2
  <2>2. ASSUME NEW j \in Ids, rx'[j].run
        PROVE  ~comp'[Exec[j]].orphan
    <3>1. CASE j = i
      BY <1>3, <1>6, <3>1
    <3>2. CASE j # i
      <4>1. Exec[j] # Exec[i] /\ Exec[j] \in AllNames
        BY <3>2, ExecIsName, Zenon
      <4>2. rx[j].run /\ comp'[Exec[j]] = comp[Exec[j]]
        BY <1>5, <1>6, <2>2, <3>2, <4>1, Zenon
      <4>. QED
        BY <1>1, <4>2, Zenon DEF Commands
    <3>. QED
      BY <3>1, <3>2
  <2>. QED
    BY <1>2, <2>1, <2>2, Zenon DEF Commands
<1>9. rx'[i].pc \in {"up", "term"} /\ rx[i].pc # "none"
  BY <1>2, <1>5
<1>. QED
  BY <1>2, <1>5, <1>6, <1>7, <1>8, <1>9, RefexecStep, Zenon

(* The two ways a command's wait ends in its own refexec. *)
LEMMA CommandEnds ==
  ASSUME Inv, NEW i \in Ids, NEW c \in CompType, rx[i].run,
         UNCHANGED <<tier, sup, table, set, stores, dirs>>,
         comp' = [comp EXCEPT ![Exec[i]] = c], rx' = [rx EXCEPT ![i].run = FALSE],
         tier = "seatbelt" => c = Gone
  PROVE  Inv'
<1>1. /\ Types /\ Commands /\ comp \in [AllNames -> CompType] /\ tier' = tier
      /\ rx \in [Ids -> RxType] /\ rx[i] \in RxType
  BY DEF Inv, Types
<1>2. Exec[i] \in ExecNames /\ Exec[i] \in AllNames /\ Exec[i] \notin AgentNames
  BY ExecIsName, Zenon
<1>3. /\ rx' \in [Ids -> RxType]
      /\ \A j \in Ids : j # i => rx'[j] = rx[j]
      /\ rx'[i].life = rx[i].life /\ rx'[i].pc = rx[i].pc /\ rx'[i].keep = rx[i].keep
      /\ rx'[i].run = FALSE
  BY <1>1, Zenon DEF RxType
<1>4. /\ comp' \in [AllNames -> CompType] /\ comp'[Exec[i]] = c
      /\ \A n \in AllNames : n # Exec[i] => comp'[n] = comp[n]
  BY <1>1, <1>2
<1>5. \A n \in AgentNames : comp'[n] = comp[n]
  BY <1>2, <1>4, Zenon DEF AllNames
<1>6. Commands'
  <2>1. ASSUME NEW n \in ExecNames
        PROVE  Keeps(comp[n], comp'[n])
    <3>1. CASE n = Exec[i]
      BY <1>4, <3>1, GoneFields, Zenon DEF Keeps
    <3>2. CASE n # Exec[i]
      BY <1>1, <1>4, <3>2, KeepsSelf, Zenon DEF AllNames
    <3>. QED
      BY <3>1, <3>2
  <2>2. \A j \in Ids : rx'[j].pc = "sweep" => rx[j].pc = "sweep" /\ rx'[j].keep = rx[j].keep
    BY <1>3, Zenon
  <2>3. ASSUME NEW j \in Ids, rx'[j].run
        PROVE  rx[j].run /\ (comp'[Exec[j]].orphan => comp[Exec[j]].orphan)
    <3>1. j # i
      BY <1>3, <2>3
    <3>2. Exec[j] # Exec[i] /\ Exec[j] \in AllNames
      BY <3>1, ExecIsName, Zenon
    <3>. QED
      BY <1>3, <1>4, <2>3, <3>1, <3>2, Zenon
  <2>. QED
    BY <1>1, <2>1, <2>2, <2>3, CommandsFrame, Zenon
<1>7. ~rx'[i].run
  BY <1>3
<1>. QED
  BY <1>3, <1>4, <1>5, <1>6, <1>7, RefexecStep, Zenon

LEMMA AttestInv ==
  ASSUME Inv, NEW i \in Ids, Attest(i)
  PROVE  Inv'
<1>1. /\ rx[i].run /\ UNCHANGED <<tier, sup, table, set, stores, dirs>>
      /\ comp' = [comp EXCEPT ![Exec[i]] = Gone] /\ rx' = [rx EXCEPT ![i].run = FALSE]
  BY DEF Attest
<1>. QED
  BY <1>1, GoneFields, CommandEnds, Zenon

LEMMA CancelInv ==
  ASSUME Inv, NEW i \in Ids, Cancel(i)
  PROVE  Inv'
<1>1. /\ rx[i].run /\ UNCHANGED <<tier, sup, table, set, stores, dirs>>
      /\ rx' = [rx EXCEPT ![i].run = FALSE]
  BY DEF Cancel
<1>2. Types /\ Exec[i] \in AllNames /\ Removal(Exec[i])
  BY ExecIsName, Zenon DEF Inv, Cancel
<1>3. PICK c \in CompType : (tier = "seatbelt" => c = Gone) /\ comp' = [comp EXCEPT ![Exec[i]] = c]
  BY <1>2, RemovalOutcome, Zenon
<1>. QED
  BY <1>1, <1>3, CommandEnds, Zenon

LEMMA RefexecEndInv ==
  ASSUME Inv, NEW i \in Ids, Dies(i), UNCHANGED <<tier, sup, table, set, stores, dirs>>
  PROVE  Inv'
<1>1. tier' = tier
  OBVIOUS
<1>. QED
  BY <1>1, DiesKeeps, RefexecStep, Zenon

-----------------------------------------------------------------------------
(* The steps of a handler. *)

(* A step of one handler in progress that ends it not: what it keeps. *)
LEMMA HandlerStep ==
  ASSUME Inv, NEW q \in Requests, set[q].pc # "idle", NEW s \in SetType, s.pc # "idle",
         set' = [set EXCEPT ![q] = s],
         set[q].launched \subseteq s.launched, s.launched \subseteq Agents[q],
         s.pc \in {"start", "release"} => s.launched = {},
         tier' = tier, sup' = sup, table' = table,
         comp' \in [AllNames -> CompType], rx' \in [Ids -> RxType], dirs' \in [Dirs -> Ids \cup {"none"}],
         \A n \in AgentNames : comp'[n] = comp[n]
  PROVE  /\ Types' /\ Table' /\ Cover' /\ Live' = Live
         /\ set'[q] = s /\ \A p \in Requests : p # q => set'[p] = set[p]
<1>1. Types /\ Table /\ Cover /\ set \in [Requests -> SetType]
  BY DEF Inv, Types
<1>2. set' \in [Requests -> SetType] /\ set'[q] = s /\ \A p \in Requests : p # q => set'[p] = set[p]
  BY <1>1
<1>3. Types'
  BY <1>1, <1>2 DEF Types
<1>4. Table' /\ Live' = Live
  <2>1. \A p \in Requests : set'[p].pc = "idle" <=> set[p].pc = "idle"
    BY <1>2, Zenon
  <2>. QED
    BY <1>1, <2>1, TableFrame, Zenon
<1>5. Cover'
  <2>1. \A p \in Requests : set[p].launched \subseteq set'[p].launched
    BY <1>2
  <2>2. \A n \in AgentNames : Ours(n)' /\ Listed(n) => Listed(n)'
    BY <1>4, <2>1, ListedGrows, Zenon
  <2>3. \A p \in Requests : /\ set'[p].launched \subseteq Agents[p]
                            /\ set'[p].pc \in {"idle", "start", "release"} => set'[p].launched = {}
    <3>1. \A p \in Requests : /\ set[p].launched \subseteq Agents[p]
                              /\ set[p].pc \in {"idle", "start", "release"} => set[p].launched = {}
      BY <1>1, Zenon DEF Cover
    <3>2. s.pc \in {"idle", "start", "release"} => s.launched = {}
      OBVIOUS
    <3>. QED
      BY <1>2, <3>1, <3>2, Zenon
  <2>4. \A n \in AgentNames : Fades(comp[n], comp'[n])
    BY FadesSelf, Zenon
  <2>. QED
    BY <1>1, <2>2, <2>3, <2>4, CoverFrame, Zenon
<1>. QED
  BY <1>2, <1>3, <1>4, <1>5, Zenon

(* Two handlers in progress share no directory. *)
LEMMA OwnDirs ==
  ASSUME Inv, NEW p \in Live, NEW q \in Live, p # q
  PROVE  /\ Child[p] # Child[q]
         /\ {ChildDir[Child[p]], ExecDir[Child[p]]} \cap {ChildDir[Child[q]], ExecDir[Child[q]]} = {}
<1>1. Child[p] # Child[q] /\ Child[p] \notin Suffixed /\ Child[q] \notin Suffixed
  BY Zenon DEF Inv, Table
<1>2. Child[p] \in Ids /\ Child[q] \in Ids
  BY NamesAreNames DEF Live
<1>. QED
  BY <1>1, <1>2, RuntimesAssumption

(* A child's directories are directories of spawn_root. *)
LEMMA DirsAreDirs ==
  ASSUME NEW i \in Ids
  PROVE  ChildDir[i] \in Dirs /\ ExecDir[i] \in Dirs
BY DEF Dirs

(* A step of q's handler spares the directories and stores of the others. *)
LEMMA OthersWhole ==
  ASSUME Inv, NEW q \in Requests, set[q].pc # "idle", NEW v,
         dirs' = [dirs EXCEPT ![ChildDir[Child[q]]] = v, ![ExecDir[Child[q]]] = v],
         \A i \in Ids : i # Child[q] /\ i \in stores => i \in stores',
         NEW p \in Requests, p # q, set[p].pc \in {"launch", "held"}
  PROVE  Owns(Child[p])'
<1>1. q \in Live /\ p \in Live
  BY DEF Live
<1>2. Child[p] # Child[q] /\
      {ChildDir[Child[p]], ExecDir[Child[p]]} \cap {ChildDir[Child[q]], ExecDir[Child[q]]} = {}
  BY <1>1, OwnDirs, Zenon
<1>3. Child[p] \in Ids /\ ChildDir[Child[p]] \in Dirs /\ ExecDir[Child[p]] \in Dirs
  BY NamesAreNames, DirsAreDirs, Zenon
<1>4. Owns(Child[p]) /\ dirs \in [Dirs -> Ids \cup {"none"}]
  BY DEF Inv, Whole, Types
<1>5. dirs'[ChildDir[Child[p]]] = dirs[ChildDir[Child[p]]] /\ dirs'[ExecDir[Child[p]]] = dirs[ExecDir[Child[p]]]
  BY <1>2, <1>3, <1>4, Zenon
<1>. QED
  BY <1>2, <1>3, <1>4, <1>5, Zenon DEF Owns

(* start makes the directories of its own child. *)
LEMMA MadeDirsAre ==
  ASSUME Types, NEW i \in Ids
  PROVE  /\ MadeDirs(i) \in [Dirs -> Ids \cup {"none"}]
         /\ MadeDirs(i)[ChildDir[i]] = i /\ MadeDirs(i)[ExecDir[i]] = i
BY DirsAreDirs DEF MadeDirs, Types

LEMMA StartSetInv ==
  ASSUME Inv, NEW q \in Requests, StartSet(q)
  PROVE  Inv'
<1> DEFINE i == Child[q]
           s == [set[q] EXCEPT !.pc = "launch", !.store = TRUE]
           r == [NoRefexec EXCEPT !.pc = "boot", !.life = sup.life]
<1>1. /\ Types /\ Commands /\ Lives /\ Whole /\ set[q] \in SetType /\ rx \in [Ids -> RxType]
      /\ set \in [Requests -> SetType] /\ sup.life \in Nat
      /\ comp \in [AllNames -> CompType]
  BY DEF Inv, Types, SupType
<1>2. i \in Ids
  BY NamesAreNames, Zenon
<1>3. /\ set[q].pc = "start" /\ tier' = tier /\ sup' = sup /\ table' = table /\ comp' = comp
      /\ dirs' = MadeDirs(i) /\ stores' = stores \cup {i} /\ rx' = [rx EXCEPT ![i] = r]
      /\ set' = [set EXCEPT ![q].pc = "launch", ![q].store = TRUE]
  BY DEF StartSet
<1>4. set' = [set EXCEPT ![q] = s]
  BY <1>1, <1>3, Zenon DEF SetType
<1>5. s \in SetType /\ s.pc = "launch" /\ s.launched = set[q].launched
  BY <1>1, Zenon DEF SetType
<1>6. r \in RxType /\ r.pc = "boot" /\ r.life = sup.life /\ r.run = FALSE
  BY <1>1, Zenon DEF RxType, NoRefexec
<1> HIDE DEF s, r
<1>7. rx' \in [Ids -> RxType] /\ rx'[i] = r /\ \A j \in Ids : j # i => rx'[j] = rx[j]
  BY <1>1, <1>2, <1>3, <1>6
<1>8. /\ dirs' \in [Dirs -> Ids \cup {"none"}] /\ dirs'[ChildDir[i]] = i /\ dirs'[ExecDir[i]] = i
  BY <1>1, <1>2, <1>3, MadeDirsAre
<1>9. /\ Types' /\ Table' /\ Cover' /\ Live' = Live
      /\ set'[q] = s /\ \A p \in Requests : p # q => set'[p] = set[p]
  <2>1. set[q].launched \subseteq Agents[q]
    BY DEF Inv, Cover
  <2>2. set[q].pc # "idle" /\ s.pc # "idle" /\ s.pc \notin {"start", "release"}
    BY <1>3, <1>5
  <2>. QED
    BY <1>1, <1>3, <1>4, <1>5, <1>7, <1>8, <2>1, <2>2, HandlerStep, ZenonT(30)
<1>10. Awaits(q)' /\ \A p \in Requests : Awaits(p) => Awaits(p)'
  BY <1>3, <1>5, <1>9, Zenon DEF Awaits
<1>11. Lives'
  <2>1. (Live # {} => sup.pc \in {"serve", "close"})'
    BY <1>1, <1>3, <1>9, Zenon DEF Lives
  <2>2. \A j \in Ids : (rx[j].life <= sup.life)'
    BY <1>1, <1>3, <1>6, <1>7 DEF Lives
  <2>3. \A j \in Ids : (rx[j].run => rx[j].pc \in {"up", "term"})'
    BY <1>1, <1>6, <1>7 DEF Lives
  <2>4. ASSUME NEW j \in Ids, Current(j)'
        PROVE  \E p \in Requests : Child[p] = j /\ Awaits(p)'
    <3>1. CASE j = i
      BY <1>10, <3>1, Zenon
    <3>2. CASE j # i
      <4>1. Current(j)
        BY <1>3, <1>7, <2>4, <3>2, Zenon DEF Current
      <4>. QED
        BY <1>1, <1>10, <4>1, Zenon DEF Lives
    <3>. QED
      BY <3>1, <3>2
  <2>. QED
    BY <2>1, <2>2, <2>3, <2>4, Zenon DEF Lives
<1>12. Commands'
  <2>1. \A n \in ExecNames : Keeps(comp[n], comp'[n])
    BY <1>1, <1>3, KeepsSelf, Zenon
  <2>2. rx'[i].pc # "sweep" /\ ~rx'[i].run
    BY <1>6, <1>7
  <2>3. \A j \in Ids : rx'[j].pc = "sweep" => rx[j].pc = "sweep" /\ rx'[j].keep = rx[j].keep
    BY <1>7, <2>2, Zenon
  <2>4. \A j \in Ids : rx'[j].run => rx[j].run
    BY <1>7, <2>2, Zenon
  <2>. QED
    BY <1>1, <1>3, <2>1, <2>3, <2>4, CommandsFrame, Zenon
<1>13. Whole'
  <2>1. Owns(Child[q])'
    BY <1>3, <1>8 DEF Owns
  <2>2. ASSUME NEW p \in Requests, p # q, set'[p].pc \in {"launch", "held"}
        PROVE  Owns(Child[p])'
    <3>1. set[p].pc \in {"launch", "held"} /\ set[q].pc # "idle"
      BY <1>3, <1>9, <2>2
    <3>2. dirs' = [dirs EXCEPT ![ChildDir[Child[q]]] = i, ![ExecDir[Child[q]]] = i]
      BY <1>3, Zenon DEF MadeDirs
    <3>3. \A j \in Ids : j \in stores => j \in stores'
      BY <1>3
    <3> HIDE DEF i
    <3>. QED
      BY <2>2, <3>1, <3>2, <3>3, OthersWhole, Zenon
  <2>. QED
    BY <2>1, <2>2, Zenon DEF Whole
<1>. QED
  BY <1>9, <1>11, <1>12, <1>13, Zenon DEF Inv

LEMMA StartFailsInv ==
  ASSUME Inv, NEW q \in Requests, StartFails(q)
  PROVE  Inv'
<1> DEFINE i == Child[q]
           b == i \notin stores
           s == [set[q] EXCEPT !.pc = "await", !.store = b]
<1>1. /\ Types /\ Commands /\ Lives /\ Whole /\ set[q] \in SetType /\ rx \in [Ids -> RxType]
      /\ set \in [Requests -> SetType] /\ comp \in [AllNames -> CompType]
  BY DEF Inv, Types
<1>2. i \in Ids /\ b \in BOOLEAN
  BY NamesAreNames, Zenon
<1>3. /\ set[q].pc = "start" /\ tier' = tier /\ sup' = sup /\ table' = table /\ comp' = comp
      /\ dirs' = MadeDirs(i) /\ stores' = stores \cup {i} /\ rx' = rx
      /\ set' = [set EXCEPT ![q].pc = "await", ![q].store = b]
  BY DEF StartFails
<1> HIDE DEF b
<1>4. set' = [set EXCEPT ![q] = s]
  BY <1>1, <1>3, Zenon DEF SetType
<1>5. s \in SetType /\ s.pc = "await" /\ s.launched = set[q].launched
  BY <1>1, <1>2, Zenon DEF SetType
<1> HIDE DEF s
<1>6. /\ dirs' \in [Dirs -> Ids \cup {"none"}]
  BY <1>1, <1>2, <1>3, MadeDirsAre
<1>7. /\ Types' /\ Table' /\ Cover' /\ Live' = Live
      /\ set'[q] = s /\ \A p \in Requests : p # q => set'[p] = set[p]
  <2>1. set[q].launched \subseteq Agents[q]
    BY DEF Inv, Cover
  <2>2. set[q].pc # "idle" /\ s.pc # "idle" /\ s.pc \notin {"start", "release"}
    BY <1>3, <1>5
  <2>. QED
    BY <1>1, <1>3, <1>4, <1>5, <1>6, <2>1, <2>2, HandlerStep, Zenon
<1>8. Lives'
  <2>1. \A p \in Requests : Awaits(p) => Awaits(p)'
    BY <1>3, <1>5, <1>7, Zenon DEF Awaits
  <2>2. \A j \in Ids : rx[j].run => rx[j].pc \in {"up", "term"}
    BY <1>1, Zenon DEF Lives
  <2>. QED
    BY <1>1, <1>3, <1>7, <2>1, <2>2, LivesFrame, Zenon
<1>9. Commands'
  BY <1>1, <1>3, CommandsSame, Zenon
<1>10. Whole'
  <2>1. ASSUME NEW p \in Requests, set'[p].pc \in {"launch", "held"}
        PROVE  Owns(Child[p])'
    <3>1. p # q
      BY <1>5, <1>7, <2>1
    <3>2. set[p].pc \in {"launch", "held"} /\ set[q].pc # "idle"
      BY <1>3, <1>7, <2>1, <3>1
    <3>3. dirs' = [dirs EXCEPT ![ChildDir[Child[q]]] = i, ![ExecDir[Child[q]]] = i]
      BY <1>3, Zenon DEF MadeDirs
    <3>4. \A j \in Ids : j \in stores => j \in stores'
      BY <1>3
    <3> HIDE DEF i
    <3>. QED
      BY <3>1, <3>2, <3>3, <3>4, OthersWhole, Zenon
  <2>. QED
    BY <2>1, Zenon DEF Whole
<1>. QED
  BY <1>7, <1>8, <1>9, <1>10, Zenon DEF Inv

(* A step that moves a handler on and touches neither compartments nor     *)
(* directories: refexec is left alone, or told to end.                     *)
LEMMA MovesOn ==
  ASSUME Inv, NEW q \in Requests, set[q].pc # "idle", NEW s \in SetType,
         s.pc \in {"held", "await", "remove"}, set' = [set EXCEPT ![q] = s],
         set[q].launched \subseteq s.launched, s.launched \subseteq Agents[q],
         UNCHANGED <<tier, sup, table, stores, dirs>>,
         comp' \in [AllNames -> CompType], rx' \in [Ids -> RxType],
         \A n \in AgentNames : comp'[n] = comp[n],
         \A j \in Ids : j # Child[q] => rx'[j] = rx[j],
         rx'[Child[q]].life = rx[Child[q]].life,
         rx'[Child[q]].run => rx'[Child[q]].pc \in {"up", "term"},
         rx'[Child[q]].pc # "none" => rx[Child[q]].pc # "none",
         s.pc = "remove" => rx'[Child[q]].pc = "none",
         s.pc = "held" => set[q].pc = "launch",
         Commands'
  PROVE  Inv'
<1>1. /\ Types /\ Lives /\ Whole /\ dirs \in [Dirs -> Ids \cup {"none"}]
      /\ tier' = tier /\ sup' = sup /\ table' = table /\ stores' = stores /\ dirs' = dirs
  BY DEF Inv, Types
<1>2. s.pc # "idle" /\ s.pc \notin {"start", "release"}
  OBVIOUS
<1>3. /\ Types' /\ Table' /\ Cover' /\ Live' = Live
      /\ set'[q] = s /\ \A p \in Requests : p # q => set'[p] = set[p]
  BY <1>1, <1>2, HandlerStep, Zenon
<1>4. Lives'
  <2>1. \A j \in Ids : rx[j].run => rx[j].pc \in {"up", "term"}
    BY <1>1, Zenon DEF Lives
  <2>2. \A j \in Ids : /\ rx'[j].life = rx[j].life
                       /\ rx'[j].run => rx'[j].pc \in {"up", "term"}
                       /\ rx'[j].pc # "none" => rx[j].pc # "none"
    BY <2>1, Zenon
  <2>3. Awaits(q)' \/ rx'[Child[q]].pc = "none"
    BY <1>3 DEF Awaits
  <2>4. \A p \in Requests : p # q /\ Awaits(p) => Awaits(p)'
    BY <1>3 DEF Awaits
  <2>5. \A p \in Requests : Awaits(p) => Awaits(p)' \/ rx'[Child[p]].pc = "none"
    BY <2>3, <2>4, Zenon
  <2>. QED
    BY <1>1, <1>3, <2>2, <2>5, LivesFrame, Zenon
<1>5. Whole'
  <2>1. \A p \in Requests : set'[p].pc \in {"launch", "held"} => set[p].pc \in {"launch", "held"}
    BY <1>3
  <2>. QED
    BY <1>1, <2>1, WholeFrame, Zenon
<1>. QED
  BY <1>3, <1>4, <1>5, Zenon DEF Inv

(* The new state of a handler that goes to l. *)
LEMMA GotoIs ==
  ASSUME Inv, NEW q \in Requests, NEW l \in {"held", "await", "remove", "release"}, Goto(q, l)
  PROVE  \E s \in SetType : /\ set' = [set EXCEPT ![q] = s] /\ s.pc = l
                            /\ s.launched = set[q].launched /\ s.launched \subseteq Agents[q]
<1> DEFINE s == [set[q] EXCEPT !.pc = l]
<1>1. set[q] \in SetType /\ set[q].launched \subseteq Agents[q]
  BY DEF Inv, Types, Cover
<1>2. set' = [set EXCEPT ![q] = s]
  BY DEF Goto
<1>3. s \in SetType /\ s.pc = l /\ s.launched = set[q].launched
  BY <1>1 DEF SetType
<1> HIDE DEF s
<1>. QED
  BY <1>1, <1>2, <1>3, Zenon

LEMMA ReadyInv ==
  ASSUME Inv, NEW q \in Requests, Ready(q)
  PROVE  Inv'
<1>1. /\ set[q].pc = "launch" /\ Goto(q, "held") /\ UNCHANGED <<tier, sup, table, stores, dirs>>
      /\ comp' = comp /\ rx' = rx /\ tier' = tier
  BY DEF Ready, world
<1>2. PICK s \in SetType : /\ set' = [set EXCEPT ![q] = s] /\ s.pc = "held"
                           /\ s.launched = set[q].launched /\ s.launched \subseteq Agents[q]
  BY <1>1, GotoIs
<1>3. /\ comp \in [AllNames -> CompType] /\ rx \in [Ids -> RxType] /\ Commands
      /\ \A j \in Ids : rx[j].run => rx[j].pc \in {"up", "term"}
  BY DEF Inv, Types, Lives
<1>4. Commands'
  BY <1>1, <1>3, CommandsSame, Zenon
<1>5. /\ s.pc \in {"held", "await", "remove"} /\ s.pc # "remove" /\ set[q].pc # "idle"
      /\ set[q].launched \subseteq s.launched
  BY <1>1, <1>2
<1>6. Child[q] \in Ids
  BY NamesAreNames, Zenon
<1>. QED
  BY <1>1, <1>2, <1>3, <1>4, <1>5, <1>6, MovesOn, Zenon

(* A teardown begins. *)
LEMMA TeardownBegins ==
  ASSUME Inv, NEW q \in Requests, set[q].pc \in {"launch", "held"}, NEW s \in SetType, s.pc = "await",
         set' = [set EXCEPT ![q] = s],
         set[q].launched \subseteq s.launched, s.launched \subseteq Agents[q],
         UNCHANGED <<tier, sup, table, stores, dirs>>, Terminate(Child[q])
  PROVE  Inv'
<1> DEFINE i == Child[q]
<1>1. tier' = tier /\ i \in Ids
  BY NamesAreNames
<1>2. /\ comp' \in [AllNames -> CompType] /\ rx' \in [Ids -> RxType]
      /\ \A n \in AgentNames : comp'[n] = comp[n]
      /\ \A j \in Ids : j # i => rx'[j] = rx[j]
      /\ rx'[i].life = rx[i].life
      /\ rx'[i].run => rx'[i].pc \in {"up", "term"}
      /\ rx'[i].pc # "none" => rx[i].pc # "none"
      /\ Commands'
  BY <1>1, TerminateKeeps, Zenon
<1>3. s.pc \in {"held", "await", "remove"} /\ s.pc # "remove" /\ s.pc # "held" /\ set[q].pc # "idle"
  OBVIOUS
<1>. QED
  BY <1>2, <1>3, MovesOn, Zenon

LEMMA NotReadyInv ==
  ASSUME Inv, NEW q \in Requests, NotReady(q)
  PROVE  Inv'
<1>1. /\ set[q].pc \in {"launch", "held"} /\ Goto(q, "await") /\ Terminate(Child[q])
      /\ UNCHANGED <<tier, sup, table, stores, dirs>>
  BY Zenon DEF NotReady
<1>2. PICK s \in SetType : /\ set' = [set EXCEPT ![q] = s] /\ s.pc = "await"
                           /\ s.launched = set[q].launched /\ s.launched \subseteq Agents[q]
  BY <1>1, GotoIs
<1>3. set[q].launched \subseteq s.launched
  BY <1>2
<1>. QED
  BY <1>1, <1>2, <1>3, TeardownBegins, Zenon

LEMMA LostInv ==
  ASSUME Inv, NEW q \in Requests, Lost(q)
  PROVE  Inv'
<1>1. /\ set[q].pc \in {"launch", "held"} /\ Goto(q, "await") /\ Terminate(Child[q])
      /\ UNCHANGED <<tier, sup, table, stores, dirs>>
  BY DEF Lost
<1>2. PICK s \in SetType : /\ set' = [set EXCEPT ![q] = s] /\ s.pc = "await"
                           /\ s.launched = set[q].launched /\ s.launched \subseteq Agents[q]
  BY <1>1, GotoIs
<1>3. set[q].launched \subseteq s.launched
  BY <1>2
<1>. QED
  BY <1>1, <1>2, <1>3, TeardownBegins, Zenon

LEMMA LaunchClashInv ==
  ASSUME Inv, NEW q \in Requests, NEW a \in Agents[q], LaunchClash(q, a)
  PROVE  Inv'
<1> DEFINE l == IF tier = "podman" THEN set[q].launched \cup {a} ELSE set[q].launched
           s == [set[q] EXCEPT !.launched = l, !.pc = "await"]
<1>1. /\ set \in [Requests -> SetType] /\ set[q] \in SetType /\ set[q].launched \subseteq Agents[q]
  BY DEF Inv, Types, Cover
<1>2. /\ set[q].pc \in {"launch", "held"} /\ Terminate(Child[q])
      /\ UNCHANGED <<tier, sup, table, stores, dirs>>
      /\ set' = [set EXCEPT ![q].launched = l, ![q].pc = "await"]
  BY Zenon DEF LaunchClash
<1>3. set[q].launched \subseteq l /\ l \subseteq Agents[q]
  BY <1>1
<1>4. l \in SUBSET UNION {Agents[p] : p \in Requests}
  BY <1>3
<1> HIDE DEF l
<1>5. set' = [set EXCEPT ![q] = s] /\ s \in SetType /\ s.launched = l /\ s.pc = "await"
  BY <1>1, <1>2, <1>4 DEF SetType
<1> HIDE DEF s
<1>. QED
  BY <1>2, <1>3, <1>5, TeardownBegins, Zenon

LEMMA StoppedInv ==
  ASSUME Inv, NEW q \in Requests, Stopped(q)
  PROVE  Inv'
<1>1. /\ set[q].pc = "await" /\ rx[Child[q]].pc = "none"
      /\ Goto(q, "remove") /\ UNCHANGED <<tier, sup, table, stores, dirs>>
      /\ comp' = comp /\ rx' = rx /\ tier' = tier
  BY DEF Stopped, world
<1>2. PICK s \in SetType : /\ set' = [set EXCEPT ![q] = s] /\ s.pc = "remove"
                           /\ s.launched = set[q].launched /\ s.launched \subseteq Agents[q]
  BY <1>1, GotoIs
<1>3. /\ comp \in [AllNames -> CompType] /\ rx \in [Ids -> RxType] /\ Commands
      /\ \A j \in Ids : rx[j].run => rx[j].pc \in {"up", "term"}
  BY DEF Inv, Types, Lives
<1>4. Commands'
  BY <1>1, <1>3, CommandsSame, Zenon
<1>5. /\ s.pc \in {"held", "await", "remove"} /\ s.pc # "held" /\ set[q].pc # "idle"
      /\ set[q].launched \subseteq s.launched
  BY <1>1, <1>2
<1>6. Child[q] \in Ids
  BY NamesAreNames, Zenon
<1>. QED
  BY <1>1, <1>2, <1>3, <1>4, <1>5, <1>6, MovesOn, Zenon

LEMMA KillInv ==
  ASSUME Inv, NEW q \in Requests, Kill(q)
  PROVE  Inv'
<1> DEFINE i == Child[q]
<1>1. /\ set[q].pc = "await" /\ Goto(q, "remove") /\ Dies(i)
      /\ UNCHANGED <<tier, sup, table, stores, dirs>> /\ tier' = tier
  BY DEF Kill
<1>2. PICK s \in SetType : /\ set' = [set EXCEPT ![q] = s] /\ s.pc = "remove"
                           /\ s.launched = set[q].launched /\ s.launched \subseteq Agents[q]
  BY <1>1, GotoIs
<1>3. i \in Ids
  BY NamesAreNames, Zenon
<1>4. /\ comp' \in [AllNames -> CompType] /\ rx' \in [Ids -> RxType]
      /\ \A n \in AgentNames : comp'[n] = comp[n]
      /\ \A j \in Ids : j # i => rx'[j] = rx[j]
      /\ rx'[i].life = rx[i].life /\ ~rx'[i].run /\ rx'[i].pc = "none"
      /\ Commands'
  BY <1>1, <1>3, DiesKeeps, Zenon
<1>5. /\ s.pc \in {"held", "await", "remove"} /\ s.pc # "held" /\ set[q].pc # "idle"
      /\ set[q].launched \subseteq s.launched
  BY <1>1, <1>2
<1>. QED
  BY <1>1, <1>2, <1>4, <1>5, MovesOn, Zenon

(* A step of a handler on the compartment of one of its agents. *)
LEMMA AgentStep ==
  ASSUME Inv, NEW q \in Requests, set[q].pc # "idle", NEW a \in Agents[q], NEW c \in CompType,
         NEW s \in SetType, s.pc = set[q].pc, set' = [set EXCEPT ![q] = s],
         comp' = [comp EXCEPT ![Name[Child[q], a]] = c],
         UNCHANGED <<tier, sup, table, rx, stores, dirs>>
  PROVE  /\ Types' /\ Table' /\ Lives' /\ Commands' /\ Whole' /\ Live' = Live
         /\ set'[q] = s /\ \A p \in Requests : p # q => set'[p] = set[p]
         /\ comp'[Name[Child[q], a]] = c
         /\ \A m \in AllNames : m # Name[Child[q], a] => comp'[m] = comp[m]
<1> DEFINE n == Name[Child[q], a]
<1>1. /\ Types /\ Table /\ Lives /\ Commands /\ Whole
      /\ comp \in [AllNames -> CompType] /\ set \in [Requests -> SetType]
      /\ tier' = tier /\ sup' = sup /\ table' = table /\ rx' = rx /\ stores' = stores /\ dirs' = dirs
  BY Zenon DEF Inv, Types
<1>2. n \in AgentNames /\ n \in AllNames /\ n \notin ExecNames
  BY AgentIsName, Zenon
<1> HIDE DEF n
<1>3. /\ comp' \in [AllNames -> CompType] /\ comp'[n] = c
      /\ \A m \in AllNames : m # n => comp'[m] = comp[m]
  BY <1>1, <1>2, Zenon DEF n
<1>4. set' \in [Requests -> SetType] /\ set'[q] = s /\ \A p \in Requests : p # q => set'[p] = set[p]
  BY <1>1, Zenon
<1>5. \A p \in Requests : set'[p].pc = set[p].pc
  BY <1>4, Zenon
<1>6. Types'
  BY <1>1, <1>3, <1>4, Zenon DEF Types
<1>7. Table' /\ Live' = Live
  BY <1>1, <1>5, TableFrame, Zenon
<1>8. Lives'
  <2>1. \A p \in Requests : Awaits(p) => Awaits(p)'
    BY <1>5, Zenon DEF Awaits
  <2>2. \A j \in Ids : rx[j].run => rx[j].pc \in {"up", "term"}
    BY <1>1, Zenon DEF Lives
  <2>. QED
    BY <1>1, <1>7, <2>1, <2>2, LivesFrame, Zenon
<1>9. Commands'
  <2>1. \A m \in ExecNames : comp'[m] = comp[m]
    BY <1>2, <1>3, Zenon DEF AllNames
  <2>. QED
    BY <1>1, <2>1, CommandsSame, Zenon
<1>10. Whole'
  BY <1>1, <1>5, WholeFrame, Zenon
<1>. QED
  BY <1>3, <1>4, <1>6, <1>7, <1>8, <1>9, <1>10, Zenon DEF n

LEMMA LaunchInv ==
  ASSUME Inv, NEW q \in Requests, NEW a \in Agents[q], Launch(q, a)
  PROVE  Inv'
<1> DEFINE n == Name[Child[q], a]
           c == Claimed(n, Child[q])
           l == set[q].launched \cup {a}
           s == [set[q] EXCEPT !.launched = l]
<1>1. /\ Types /\ Cover /\ Lives /\ set \in [Requests -> SetType] /\ set[q] \in SetType
      /\ set[q].launched \subseteq Agents[q]
  BY Zenon DEF Inv, Types, Cover
<1>2. /\ set[q].pc = "launch" /\ UNCHANGED <<tier, sup, table, rx, stores, dirs>>
      /\ tier' = tier /\ sup' = sup
      /\ comp' = [comp EXCEPT ![n] = c] /\ set' = [set EXCEPT ![q] = s]
  BY Zenon DEF Launch
<1>3. c \in CompType /\ (tier = "seatbelt" => c.rec = "pending")
  <2>1. Child[q] \in Ids
    BY NamesAreNames, Zenon
  <2>. QED
    BY <1>1, <2>1, ClaimedFields, Zenon
<1>4. l \in SUBSET UNION {Agents[p] : p \in Requests} /\ l \subseteq Agents[q]
  BY <1>1
<1> HIDE DEF c, l
<1>5. s \in SetType /\ s.pc = set[q].pc /\ s.launched = l
  BY <1>1, <1>4 DEF SetType
<1> HIDE DEF s
<1>6. /\ Types' /\ Table' /\ Lives' /\ Commands' /\ Whole' /\ Live' = Live
      /\ set'[q] = s /\ \A p \in Requests : p # q => set'[p] = set[p]
      /\ comp'[n] = c /\ \A m \in AllNames : m # n => comp'[m] = comp[m]
  <2>1. set[q].pc # "idle"
    BY <1>2, Zenon
  <2>. QED
    BY <1>2, <1>3, <1>5, <2>1, AgentStep, ZenonT(30)
<1>7. q \in Live /\ q \in Live'
  BY <1>2, <1>6, Zenon DEF Live
<1>8. Cover'
  <2>1. \A p \in Requests : set[p].launched \subseteq set'[p].launched
    BY <1>5, <1>6, Zenon DEF l
  <2>2. \A m \in AgentNames : Ours(m)' /\ Listed(m) => Listed(m)'
    BY <1>6, <2>1, ListedGrows, Zenon
  <2>3. \A p \in Requests : /\ set'[p].launched \subseteq Agents[p]
                            /\ set'[p].pc \in {"idle", "start", "release"} => set'[p].launched = {}
    <3>1. \A p \in Requests : /\ set[p].launched \subseteq Agents[p]
                              /\ set[p].pc \in {"idle", "start", "release"} => set[p].launched = {}
      BY <1>1, Zenon DEF Cover
    <3>2. s.pc \notin {"idle", "start", "release"} /\ s.launched \subseteq Agents[q]
      BY <1>2, <1>4, <1>5, Zenon
    <3>. QED
      BY <1>6, <3>1, <3>2, Zenon
  <2>4. Arrives(n)
    <3>1. sup.pc \in {"serve", "close"}
      BY <1>1, <1>7 DEF Lives
    <3>2. a \in set'[q].launched
      BY <1>5, <1>6, Zenon DEF l
    <3>3. Listed(n)'
      BY <1>7, <3>2, Zenon DEF Listed
    <3>4. tier = "seatbelt" => comp'[n].rec # "none"
      BY <1>3, <1>6, Zenon
    <3>. QED
      BY <3>1, <3>3, <3>4, Zenon DEF Arrives
  <2>5. \A m \in AgentNames : Fades(comp[m], comp'[m]) \/ Arrives(m)
    <3>1. ASSUME NEW m \in AgentNames, m # n
          PROVE  Fades(comp[m], comp'[m])
      BY <1>6, <3>1, FadesSelf, Zenon DEF AllNames
    <3> HIDE DEF n
    <3>. QED
      BY <2>4, <3>1, Zenon
  <2>. QED
    BY <1>1, <1>2, <2>2, <2>3, <2>5, CoverFrame, Zenon
<1>. QED
  BY <1>6, <1>8, Zenon DEF Inv

(* A teardown takes an agent off its list with the outcome of its removal. *)
LEMMA RemoveAgentOutcome ==
  ASSUME Inv, NEW q \in Requests, NEW a \in Agents[q], RemoveAgent(q, a)
  PROVE  \E c \in CompType : /\ c.st = "none" \/ c.stray
                             /\ comp' = [comp EXCEPT ![Name[Child[q], a]] = c]
<1>1. Types /\ Name[Child[q], a] \in AllNames /\ Removal(Name[Child[q], a])
  BY AgentIsName, Zenon DEF Inv, RemoveAgent
<1>. QED
  BY <1>1, RemovalOutcome, Zenon

LEMMA RemoveAgentInv ==
  ASSUME Inv, NEW q \in Requests, NEW a \in Agents[q], RemoveAgent(q, a)
  PROVE  Inv'
<1> DEFINE n == Name[Child[q], a]
           l == set[q].launched \ {a}
           s == [set[q] EXCEPT !.launched = l]
<1>1. /\ Cover /\ set \in [Requests -> SetType] /\ set[q] \in SetType
      /\ set[q].launched \subseteq Agents[q]
  BY DEF Inv, Types, Cover
<1>2. /\ set[q].pc = "remove" /\ UNCHANGED <<tier, sup, table, rx, stores, dirs>>
      /\ tier' = tier /\ sup' = sup /\ set' = [set EXCEPT ![q] = s]
  BY Zenon DEF RemoveAgent
<1>3. PICK c \in CompType : (c.st = "none" \/ c.stray) /\ comp' = [comp EXCEPT ![n] = c]
  BY RemoveAgentOutcome, Zenon
<1>4. l \in SUBSET UNION {Agents[p] : p \in Requests} /\ l \subseteq Agents[q]
  BY <1>1
<1> HIDE DEF l
<1>5. s \in SetType /\ s.pc = set[q].pc /\ s.launched = l
  BY <1>1, <1>4 DEF SetType
<1> HIDE DEF s
<1>6. /\ Types' /\ Table' /\ Lives' /\ Commands' /\ Whole' /\ Live' = Live
      /\ set'[q] = s /\ \A p \in Requests : p # q => set'[p] = set[p]
      /\ comp'[n] = c /\ \A m \in AllNames : m # n => comp'[m] = comp[m]
  <2>1. set[q].pc # "idle"
    BY <1>2
  <2>. QED
    BY <1>2, <1>3, <1>5, <2>1, AgentStep, ZenonT(30)
<1>7. Cover'
  <2>1. \A m \in AgentNames : Fades(comp[m], comp'[m])
    <3>1. ASSUME NEW m \in AgentNames, m # n
          PROVE  Fades(comp[m], comp'[m])
      BY <1>6, <3>1, FadesSelf, Zenon DEF AllNames
    <3>2. Fades(comp[n], comp'[n])
      BY <1>3, <1>6, Zenon DEF Fades
    <3> HIDE DEF n
    <3>. QED
      BY <3>1, <3>2, Zenon
  <2>2. \A p \in Requests : /\ set'[p].launched \subseteq Agents[p]
                            /\ set'[p].pc \in {"idle", "start", "release"} => set'[p].launched = {}
    <3>1. \A p \in Requests : /\ set[p].launched \subseteq Agents[p]
                              /\ set[p].pc \in {"idle", "start", "release"} => set[p].launched = {}
      BY <1>1, Zenon DEF Cover
    <3>2. s.pc \notin {"idle", "start", "release"} /\ s.launched \subseteq Agents[q]
      BY <1>2, <1>4, <1>5
    <3>. QED
      BY <1>6, <3>1, <3>2, Zenon
  <2>3. ASSUME NEW m \in AgentNames, Ours(m)', Listed(m)
        PROVE  Listed(m)'
    <3>1. m # n
      BY <1>3, <1>6, <2>3, Zenon DEF Ours
    <3>0. PICK p \in Live : \E b \in set[p].launched : Name[Child[p], b] = m
      BY <2>3, Zenon DEF Listed
    <3>2. PICK b \in set[p].launched : Name[Child[p], b] = m
      BY <3>0, Zenon
    <3>3. p \in Requests /\ p \in Live'
      BY <1>6, Zenon DEF Live
    <3>4. b \in set'[p].launched
      <4>1. CASE p = q
        <5>1. b # a
          BY <3>1, <3>2, <4>1, Zenon
        <5>. QED
          BY <1>5, <1>6, <4>1, <5>1, Zenon DEF l
      <4>2. CASE p # q
        BY <1>6, <3>3, <4>2, Zenon
      <4>. QED
        BY <4>1, <4>2
    <3>. QED
      BY <3>2, <3>3, <3>4, Zenon DEF Listed
  <2>. QED
    BY <1>1, <1>2, <2>1, <2>2, <2>3, CoverFrame, Zenon
<1>. QED
  BY <1>6, <1>7, Zenon DEF Inv

LEMMA RemoveStoreInv ==
  ASSUME Inv, NEW q \in Requests, RemoveStore(q)
  PROVE  Inv'
<1> DEFINE i == Child[q]
<1>1. /\ Types /\ Commands /\ Lives /\ Whole /\ rx \in [Ids -> RxType]
      /\ comp \in [AllNames -> CompType] /\ dirs \in [Dirs -> Ids \cup {"none"}]
  BY DEF Inv, Types
<1>2. /\ set[q].pc = "remove" /\ set[q].launched = {} /\ Goto(q, "release")
      /\ tier' = tier /\ sup' = sup /\ table' = table /\ comp' = comp /\ rx' = rx
      /\ stores' = IF set[q].store /\ ~storeInUse(i) THEN stores \ {i} ELSE stores
      /\ dirs' = [dirs EXCEPT ![ChildDir[i]] = "none", ![ExecDir[i]] = "none"]
  BY Zenon DEF RemoveStore
<1>3. PICK s \in SetType : /\ set' = [set EXCEPT ![q] = s] /\ s.pc = "release"
                           /\ s.launched = set[q].launched /\ s.launched \subseteq Agents[q]
  BY <1>2, GotoIs, Zenon
<1>4. dirs' \in [Dirs -> Ids \cup {"none"}]
  BY <1>1, <1>2, Zenon
<1>5. /\ Types' /\ Table' /\ Cover' /\ Live' = Live
      /\ set'[q] = s /\ \A p \in Requests : p # q => set'[p] = set[p]
  <2>1. set[q].pc # "idle" /\ s.pc # "idle" /\ s.launched = {} /\ set[q].launched \subseteq s.launched
    BY <1>2, <1>3, Zenon
  <2>. QED
    BY <1>1, <1>2, <1>3, <1>4, <2>1, HandlerStep, Zenon
<1>6. Lives'
  <2>1. \A p \in Requests : Awaits(p) => Awaits(p)'
    BY <1>2, <1>5 DEF Awaits
  <2>2. \A j \in Ids : rx[j].run => rx[j].pc \in {"up", "term"}
    BY <1>1, Zenon DEF Lives
  <2>. QED
    BY <1>1, <1>2, <1>5, <2>1, <2>2, LivesFrame, Zenon
<1>7. Commands'
  BY <1>1, <1>2, CommandsSame, Zenon
<1>8. Whole'
  <2>1. ASSUME NEW p \in Requests, set'[p].pc \in {"launch", "held"}
        PROVE  Owns(Child[p])'
    <3>1. p # q
      BY <1>3, <1>5, <2>1
    <3>2. set[p].pc \in {"launch", "held"} /\ set[q].pc # "idle"
      BY <1>2, <1>5, <2>1, <3>1
    <3>3. \A j \in Ids : j # i /\ j \in stores => j \in stores'
      BY <1>2
    <3>. QED
      BY <1>2, <3>1, <3>2, <3>3, OthersWhole, Zenon
  <2>. QED
    BY <2>1, Zenon DEF Whole
<1>. QED
  BY <1>5, <1>6, <1>7, <1>8, Zenon DEF Inv

(* admit claims the child, the names and the slots of a request. *)
LEMMA ProvisionTable ==
  ASSUME Inv, NEW q \in Requests, Provision(q)
  PROVE  Table' /\ Live' = Live \cup {q}
<1>1. /\ Table /\ set \in [Requests -> SetType] /\ set[q].pc = "idle" /\ Child[q] \notin Suffixed
      /\ set' = [set EXCEPT ![q].pc = "start"] /\ admit(q)
      /\ table' = [live |-> table.live \cup {Child[q]}, names |-> table.names \cup Names(q),
                   used |-> table.used + Cardinality(Names(q))]
  BY DEF Inv, Types, Provision
<1>2. /\ \A p \in Requests : p # q => set'[p] = set[p]
      /\ set'[q].pc = "start"
  BY <1>1 DEF SetType
<1>3. Live' = Live \cup {q} /\ q \notin Live
  BY <1>1, <1>2 DEF Live
<1>4. /\ table'.live = table.live \cup {Child[q]}
      /\ table'.names = table.names \cup Names(q)
      /\ table'.used = table.used + Cardinality(Names(q))
  BY <1>1
<1>5. table'.live = {Child[p] : p \in Live'}
  BY <1>1, <1>3, <1>4 DEF Table
<1>6. table'.names = UNION {Names(p) : p \in Live'}
  BY <1>1, <1>3, <1>4 DEF Table
<1>7. \A p \in Live : Child[p] # Child[q] /\ Names(p) \cap Names(q) = {}
  <2>1. Child[q] \notin table.live /\ Names(q) \cap table.names = {}
    BY <1>1 DEF admit
  <2>2. \A p \in Live : Child[p] \in table.live /\ Names(p) \subseteq table.names
    BY <1>1 DEF Table
  <2>. QED
    BY <2>1, <2>2
<1>8. \A o, p \in Live' : o # p => Child[o] # Child[p] /\ Names(o) \cap Names(p) = {}
  <2>1. \A o, p \in Live : o # p => Child[o] # Child[p] /\ Names(o) \cap Names(p) = {}
    BY <1>1, Zenon DEF Table
  <2>. QED
    BY <1>3, <1>7, <2>1
<1>9. \A p \in Live' : Child[p] \notin Suffixed
  BY <1>1, <1>3 DEF Table
<1>10. IsFiniteSet(table'.names) /\ table'.used = Cardinality(table'.names) /\ table'.used <= MaxCompartments
  <2>1. /\ IsFiniteSet(table.names) /\ IsFiniteSet(Names(q)) /\ table.used = Cardinality(table.names)
        /\ table.names \cap Names(q) = {} /\ table.used + Cardinality(Names(q)) <= MaxCompartments
    BY <1>1, NamesAreNames DEF Table, admit
  <2>2. /\ IsFiniteSet(table.names \cup Names(q))
        /\ Cardinality(table.names \cup Names(q)) =
             Cardinality(table.names) + Cardinality(Names(q)) - Cardinality(table.names \cap Names(q))
    BY <2>1, FS_Union, Zenon
  <2>3. /\ Cardinality(table.names \cap Names(q)) = 0
        /\ Cardinality(table.names) \in Nat /\ Cardinality(Names(q)) \in Nat
    BY <2>1, FS_EmptySet, FS_CardinalityType, Zenon
  <2>. QED
    BY <1>4, <2>1, <2>2, <2>3
<1>. QED
  BY <1>3, <1>5, <1>6, <1>8, <1>9, <1>10, Zenon DEF Table, Names

LEMMA ProvisionInv ==
  ASSUME Inv, NEW q \in Requests, Provision(q)
  PROVE  Inv'
<1>1. /\ Types /\ Cover /\ Lives /\ Commands /\ Whole /\ set \in [Requests -> SetType]
      /\ set[q] \in SetType
  BY DEF Inv, Types
<1>2. /\ sup.pc \in {"serve", "close"} /\ set[q].pc = "idle" /\ set' = [set EXCEPT ![q].pc = "start"]
      /\ tier' = tier /\ sup' = sup /\ rx' = rx /\ comp' = comp /\ stores' = stores /\ dirs' = dirs
  BY DEF Provision, world
<1>3. /\ set' \in [Requests -> SetType]
      /\ \A p \in Requests : p # q => set'[p] = set[p]
      /\ set'[q].pc = "start" /\ set'[q].launched = set[q].launched
  BY <1>1, <1>2 DEF SetType
<1>4. Table' /\ Live' = Live \cup {q}
  BY ProvisionTable, Zenon
<1>5. Types'
  BY <1>1, <1>2, <1>3 DEF Types
<1>6. Lives'
  <2>1. \A p \in Requests : Awaits(p) => Awaits(p)'
    BY <1>2, <1>3 DEF Awaits
  <2>2. ASSUME NEW i \in Ids, Current(i)'
        PROVE  \E p \in Requests : Child[p] = i /\ Awaits(p)'
    <3>1. Current(i)
      BY <1>2, <2>2, Zenon DEF Current
    <3>. QED
      BY <1>1, <2>1, <3>1, Zenon DEF Lives
  <2>. QED
    BY <1>1, <1>2, <2>2, Zenon DEF Lives
<1>7. Cover'
  <2>1. \A p \in Requests : set'[p].launched = set[p].launched
    BY <1>3, Zenon
  <2>2. ASSUME NEW n \in AgentNames, Listed(n)
        PROVE  Listed(n)'
    <3>1. PICK p \in Live : \E a \in set[p].launched : Name[Child[p], a] = n
      BY <2>2, Zenon DEF Listed
    <3>2. p \in Requests /\ p \in Live'
      BY <1>4 DEF Live
    <3>. QED
      BY <2>1, <3>1, <3>2, Zenon DEF Listed
  <2>3. \A p \in Requests : /\ set'[p].launched \subseteq Agents[p]
                            /\ set'[p].pc \in {"idle", "start", "release"} => set'[p].launched = {}
    <3>1. \A p \in Requests : /\ set[p].launched \subseteq Agents[p]
                              /\ set[p].pc \in {"idle", "start", "release"} => set[p].launched = {}
      BY <1>1, Zenon DEF Cover
    <3>2. set[q].launched = {}
      BY <1>2, <3>1
    <3>. QED
      BY <1>3, <2>1, <3>1, <3>2, Zenon
  <2>4. \A n \in AgentNames : Fades(comp[n], comp'[n])
    BY <1>2, FadesSelf, Zenon
  <2>. QED
    BY <1>1, <1>2, <2>2, <2>3, <2>4, CoverFrame, Zenon
<1>8. Commands'
  BY <1>1, <1>2, CommandsSame, Zenon
<1>9. Whole'
  <2>1. \A p \in Requests : set'[p].pc \in {"launch", "held"} => set[p].pc \in {"launch", "held"}
    BY <1>3
  <2>. QED
    BY <1>1, <1>2, <2>1, WholeFrame, Zenon
<1>. QED
  BY <1>4, <1>5, <1>6, <1>7, <1>8, <1>9, Zenon DEF Inv

(* release gives back what admit claimed. *)
LEMMA ReleaseTable ==
  ASSUME Inv, NEW q \in Requests, Release(q)
  PROVE  Table' /\ Live' = Live \ {q}
<1>1. /\ Table /\ set \in [Requests -> SetType] /\ set[q].pc = "release"
      /\ set' = [set EXCEPT ![q] = Idle]
      /\ table' = [live |-> table.live \ {Child[q]}, names |-> table.names \ Names(q),
                   used |-> table.used - Cardinality(Names(q))]
  BY Zenon DEF Inv, Types, Release
<1>2. /\ \A p \in Requests : p # q => set'[p] = set[p]
      /\ set'[q].pc = "idle"
  BY <1>1 DEF Idle
<1>3. Live' = Live \ {q} /\ q \in Live
  BY <1>1, <1>2, Zenon DEF Live
<1>4. /\ table'.live = table.live \ {Child[q]}
      /\ table'.names = table.names \ Names(q)
      /\ table'.used = table.used - Cardinality(Names(q))
  BY <1>1
<1>5. \A p \in Live' : p \in Live /\ Child[p] # Child[q] /\ Names(p) \cap Names(q) = {}
  BY <1>1, <1>3, Zenon DEF Table
<1>6. table'.live = {Child[p] : p \in Live'}
  BY <1>1, <1>3, <1>4, <1>5 DEF Table
<1>7. table'.names = UNION {Names(p) : p \in Live'}
  BY <1>1, <1>3, <1>4, <1>5 DEF Table
<1>8. \A o, p \in Live' : o # p => Child[o] # Child[p] /\ Names(o) \cap Names(p) = {}
  BY <1>1, <1>5, Zenon DEF Table
<1>9. \A p \in Live' : Child[p] \notin Suffixed
  BY <1>1, <1>5, Zenon DEF Table
<1>10. IsFiniteSet(table'.names) /\ table'.used = Cardinality(table'.names) /\ table'.used <= MaxCompartments
  <2>1. /\ IsFiniteSet(table.names) /\ IsFiniteSet(Names(q)) /\ table.used = Cardinality(table.names)
        /\ table.names \cap Names(q) = Names(q) /\ table.used <= MaxCompartments
    BY <1>1, <1>3, NamesAreNames, Zenon DEF Table
  <2>2. /\ IsFiniteSet(table.names \ Names(q))
        /\ Cardinality(table.names \ Names(q)) =
             Cardinality(table.names) - Cardinality(table.names \cap Names(q))
    BY <2>1, FS_Difference, Zenon
  <2>3. Cardinality(table.names) \in Nat /\ Cardinality(Names(q)) \in Nat
    BY <2>1, FS_CardinalityType, Zenon
  <2>4. MaxCompartments \in Nat
    BY RuntimesAssumption
  <2>5. /\ IsFiniteSet(table'.names)
        /\ Cardinality(table'.names) = Cardinality(table.names) - Cardinality(Names(q))
        /\ table'.used = Cardinality(table.names) - Cardinality(Names(q))
    BY <1>4, <2>1, <2>2, Zenon
  <2>6. Cardinality(table.names) <= MaxCompartments
    BY <2>1, Zenon
  <2>. QED
    BY <2>3, <2>4, <2>5, <2>6
<1>. QED
  BY <1>3, <1>6, <1>7, <1>8, <1>9, <1>10, Zenon DEF Table, Names

LEMMA ReleaseInv ==
  ASSUME Inv, NEW q \in Requests, Release(q)
  PROVE  Inv'
<1>1. /\ Types /\ Cover /\ Lives /\ Commands /\ Whole /\ set \in [Requests -> SetType]
  BY DEF Inv, Types
<1>2. /\ set[q].pc = "release" /\ set' = [set EXCEPT ![q] = Idle]
      /\ tier' = tier /\ sup' = sup /\ rx' = rx /\ comp' = comp /\ stores' = stores /\ dirs' = dirs
  BY DEF Release, world
<1>3. Idle \in SetType /\ Idle.pc = "idle" /\ Idle.launched = {}
  BY Zenon DEF Idle, SetType
<1>4. /\ set' \in [Requests -> SetType] /\ set'[q] = Idle
      /\ \A p \in Requests : p # q => set'[p] = set[p]
  BY <1>1, <1>2, <1>3
<1>5. Table' /\ Live' = Live \ {q}
  BY ReleaseTable, Zenon
<1>6. Types'
  BY <1>1, <1>2, <1>4 DEF Types
<1>7. Lives'
  <2>1. \A p \in Requests : Awaits(p) => Awaits(p)'
    BY <1>2, <1>4 DEF Awaits
  <2>2. \A j \in Ids : rx[j].run => rx[j].pc \in {"up", "term"}
    BY <1>1, Zenon DEF Lives
  <2>3. Live' \subseteq Live
    BY <1>5
  <2>. QED
    BY <1>1, <1>2, <2>1, <2>2, <2>3, LivesFrame, Zenon
<1>8. Cover'
  <2>1. set[q].launched = {}
    BY <1>1, <1>2, Zenon DEF Cover
  <2>2. ASSUME NEW n \in AgentNames, Listed(n)
        PROVE  Listed(n)'
    <3>1. PICK p \in Live : \E a \in set[p].launched : Name[Child[p], a] = n
      BY <2>2, Zenon DEF Listed
    <3>2. p \in Requests /\ p # q
      BY <2>1, <3>1, Zenon DEF Live
    <3>3. p \in Live' /\ set'[p] = set[p]
      BY <1>4, <1>5, <3>2
    <3>. QED
      BY <3>1, <3>3, Zenon DEF Listed
  <2>3. \A p \in Requests : /\ set'[p].launched \subseteq Agents[p]
                            /\ set'[p].pc \in {"idle", "start", "release"} => set'[p].launched = {}
    <3>1. \A p \in Requests : /\ set[p].launched \subseteq Agents[p]
                              /\ set[p].pc \in {"idle", "start", "release"} => set[p].launched = {}
      BY <1>1, Zenon DEF Cover
    <3>2. set'[q].launched = {} /\ {} \subseteq Agents[q]
      BY <1>3, <1>4
    <3>. QED
      BY <1>4, <3>1, <3>2, Zenon
  <2>4. \A n \in AgentNames : Fades(comp[n], comp'[n])
    BY <1>2, FadesSelf, Zenon
  <2>. QED
    BY <1>1, <1>2, <2>2, <2>3, <2>4, CoverFrame, Zenon
<1>9. Commands'
  BY <1>1, <1>2, CommandsSame, Zenon
<1>10. Whole'
  <2>1. \A p \in Requests : set'[p].pc \in {"launch", "held"} => set[p].pc \in {"launch", "held"}
    BY <1>3, <1>4
  <2>. QED
    BY <1>1, <1>2, <2>1, WholeFrame, Zenon
<1>. QED
  BY <1>5, <1>6, <1>7, <1>8, <1>9, <1>10, Zenon DEF Inv

-----------------------------------------------------------------------------
(* The steps of the supervisor process. *)

(* A step that changes nothing the invariant looks at. *)
LEMMA SameInv ==
  ASSUME Inv, UNCHANGED <<tier, sup, table, set, rx, comp, stores, dirs>>
  PROVE  Inv'
<1>1. /\ tier' = tier /\ sup' = sup /\ table' = table /\ set' = set
      /\ rx' = rx /\ comp' = comp /\ stores' = stores /\ dirs' = dirs
      /\ Types /\ Table /\ Lives /\ Cover /\ Commands /\ Whole
  BY DEF Inv
<1>2. Types'
  BY <1>1 DEF Types
<1>3. Table' /\ Live' = Live
  BY <1>1, TableFrame, Zenon
<1>4. Lives'
  <2>1. \A j \in Ids : rx[j].run => rx[j].pc \in {"up", "term"}
    BY <1>1, Zenon DEF Lives
  <2>2. \A q \in Requests : Awaits(q) => Awaits(q)'
    BY <1>1, Zenon DEF Awaits
  <2>. QED
    BY <1>1, <1>3, <2>1, <2>2, LivesFrame, Zenon
<1>5. Cover'
  <2>1. \A n \in AgentNames : Fades(comp[n], comp'[n])
    BY <1>1, FadesSelf, Zenon
  <2>. QED
    BY <1>1, <1>3, <2>1, CoverSame, Zenon
<1>6. Commands'
  BY <1>1, CommandsSame, Zenon
<1>7. Whole'
  BY <1>1, WholeFrame, Zenon
<1>. QED
  BY <1>2, <1>3, <1>4, <1>5, <1>6, <1>7, Zenon DEF Inv

(* A step of the process itself: handlers and refexecs go on as they were. *)
LEMMA SupervisorStep ==
  ASSUME Inv, UNCHANGED <<tier, table, set, rx>>, sup' \in SupType,
         comp' \in [AllNames -> CompType], dirs' \in [Dirs -> Ids \cup {"none"}],
         Live # {} => sup'.pc \in {"serve", "close"},
         sup.life <= sup'.life,
         sup'.life = sup.life /\ sup'.pc # "down" => sup.pc # "down",
         Cover', Commands', Whole'
  PROVE  Inv'
<1>1. /\ tier' = tier /\ table' = table /\ set' = set /\ rx' = rx
      /\ Types /\ Table /\ Lives /\ sup.life \in Nat /\ sup'.life \in Nat /\ rx \in [Ids -> RxType]
  BY DEF Inv, Types, SupType
<1>2. Types'
  BY <1>1 DEF Types
<1>3. Table' /\ Live' = Live
  BY <1>1, TableFrame, Zenon
<1>4. \A i \in Ids : rx[i].life \in Nat /\ rx[i].life <= sup.life
  BY <1>1 DEF Lives, RxType
<1>5. \A i \in Ids : rx'[i].life <= sup'.life
  BY <1>1, <1>4
<1>6. ASSUME NEW i \in Ids, Current(i)'
      PROVE  \E q \in Requests : Child[q] = i /\ Awaits(q)'
  <2>1. rx[i].pc # "none" /\ rx[i].life = sup'.life /\ sup'.pc # "down"
    BY <1>1, <1>6, Zenon DEF Current
  <2>2. sup'.life = sup.life
    BY <1>1, <1>4, <2>1
  <2>3. Current(i)
    BY <2>1, <2>2, Zenon DEF Current
  <2>4. PICK q \in Requests : Child[q] = i /\ Awaits(q)
    BY <1>1, <2>3, Zenon DEF Lives
  <2>. QED
    BY <1>1, <2>4, Zenon DEF Awaits
<1>7. Lives'
  <2>1. \A i \in Ids : (rx[i].run => rx[i].pc \in {"up", "term"})'
    BY <1>1, Zenon DEF Lives
  <2>2. (Live # {} => sup.pc \in {"serve", "close"})'
    BY <1>3, Zenon
  <2>. QED
    BY <1>5, <1>6, <2>1, <2>2, Zenon DEF Lives
<1>. QED
  BY <1>2, <1>3, <1>7, Zenon DEF Inv

(* What Cover says of the handlers alone. *)
LEMMA SameLists ==
  ASSUME Cover, set' = set
  PROVE  /\ \A q \in Requests : (set[q].launched \subseteq Agents[q])'
         /\ \A q \in Requests : (set[q].pc \in {"idle", "start", "release"} => set[q].launched = {})'
BY Zenon DEF Cover

LEMMA ShutdownInv ==
  ASSUME Inv, Shutdown
  PROVE  Inv'
<1>1. /\ Types /\ Cover /\ Commands /\ Whole /\ sup \in SupType
      /\ comp \in [AllNames -> CompType] /\ dirs \in [Dirs -> Ids \cup {"none"}]
  BY DEF Inv, Types
<1>2. /\ sup.pc = "serve" /\ sup' = [sup EXCEPT !.pc = "close", !.then = "down"]
      /\ UNCHANGED <<tier, table, set, rx>>
      /\ tier' = tier /\ table' = table /\ set' = set /\ rx' = rx
      /\ comp' = comp /\ stores' = stores /\ dirs' = dirs
  BY DEF Shutdown, world
<1>3. sup' \in SupType /\ sup'.pc = "close" /\ sup'.life = sup.life /\ sup.life \in Nat
  BY <1>1, <1>2, Zenon DEF SupType
<1>4. Live' = Live
  BY <1>2, Zenon DEF Live
<1>5. Cover'
  <2>1. \A n \in AgentNames : Ours(n)' => Listed(n)'
    <3>1. \A n \in AgentNames : Ours(n) => Listed(n)
      BY <1>1, <1>2 DEF Cover
    <3>. QED
      BY <1>2, <1>4, <3>1, Zenon DEF Ours, Listed
  <2>2. tier' = "seatbelt" => \A n \in AgentNames : Ours(n)' => comp'[n].rec # "none"
    BY <1>1, <1>2, Zenon DEF Cover, Ours
  <2>3. sup'.pc # "sweep" /\ sup'.pc \notin {"down", "reap"}
    BY <1>3
  <2>. QED
    BY <1>1, <1>2, <2>1, <2>2, <2>3, SameLists, Zenon DEF Cover
<1>6. Commands'
  BY <1>1, <1>2, CommandsSame, Zenon
<1>7. Whole'
  BY <1>1, <1>2, WholeFrame, Zenon
<1>8. sup'.pc \in {"serve", "close"} /\ sup.life <= sup'.life /\ sup.pc # "down"
  BY <1>2, <1>3
<1>. QED
  BY <1>1, <1>2, <1>3, <1>5, <1>6, <1>7, <1>8, SupervisorStep, Zenon

LEMMA CrashInv ==
  ASSUME Inv, Crash
  PROVE  Inv'
<1>1. /\ Types /\ Cover /\ Lives /\ Commands /\ sup \in SupType /\ rx \in [Ids -> RxType]
      /\ tier \in {"podman", "seatbelt"}
  BY DEF Inv, Types
<1>2. /\ sup' = [sup EXCEPT !.pc = "down", !.then = "serve"]
      /\ table' = EmptyTable /\ set' = [q \in Requests |-> Idle]
      /\ comp' = Orphaned(AgentNames)
      /\ tier' = tier /\ rx' = rx /\ stores' = stores /\ dirs' = dirs
  BY DEF Crash
<1>3. sup' \in SupType /\ sup'.pc = "down" /\ sup'.life = sup.life
  BY <1>1, <1>2, Zenon DEF SupType
<1>4. /\ comp' \in [AllNames -> CompType]
      /\ \A n \in AllNames :
           /\ n \notin AgentNames => comp'[n] = comp[n]
           /\ comp'[n].st = comp[n].st /\ comp'[n].rec = comp[n].rec
           /\ comp[n].stray => comp'[n].stray
           /\ tier = "podman" /\ comp[n].st = "starting" /\ n \in AgentNames => comp'[n].stray
  BY <1>1, <1>2, OrphanedFields
<1>5. \A q \in Requests : set'[q] = Idle
  BY <1>2
<1>6. Idle \in SetType /\ Idle.pc = "idle" /\ Idle.launched = {}
  BY DEF Idle, SetType
<1>7. Types'
  BY <1>1, <1>2, <1>3, <1>4, <1>6 DEF Types
<1>8. Live' = {}
  BY <1>5, <1>6 DEF Live
<1>9. Table'
  <2>1. table'.live = {} /\ table'.names = {} /\ table'.used = 0
    BY <1>2 DEF EmptyTable
  <2>2. IsFiniteSet({}) /\ Cardinality({}) = 0
    BY FS_EmptySet, Zenon
  <2>3. 0 <= MaxCompartments
    BY RuntimesAssumption
  <2>. QED
    BY <1>8, <2>1, <2>2, <2>3 DEF Table
<1>10. Lives'
  <2>1. \A i \in Ids : ~Current(i)'
    BY <1>3, Zenon DEF Current
  <2>2. \A i \in Ids : (rx[i].life <= sup.life)' /\ (rx[i].run => rx[i].pc \in {"up", "term"})'
    BY <1>1, <1>2, <1>3, Zenon DEF Lives
  <2>. QED
    BY <1>8, <2>1, <2>2, Zenon DEF Lives
<1>11. Cover'
  <2>1. \A q \in Requests : set'[q].launched = {}
    BY <1>5, <1>6
  <2>2. \A n \in AgentNames : comp'[n].st = "starting" /\ tier = "podman" => comp'[n].stray
    BY <1>4, Zenon DEF AllNames
  <2>3. tier = "seatbelt" => \A n \in AgentNames : Ours(n)' => comp'[n].rec # "none"
    <3>1. ASSUME tier = "seatbelt", NEW n \in AgentNames, Ours(n)'
          PROVE  comp'[n].rec # "none"
      <4>1. n \in AllNames
        BY DEF AllNames
      <4>2. Ours(n)
        BY <1>4, <3>1, <4>1, Zenon DEF Ours
      <4>3. comp[n].rec # "none"
        BY <1>1, <3>1, <4>2, Zenon DEF Cover
      <4>. QED
        BY <1>4, <4>1, <4>3, Zenon
    <3>. QED
      BY <3>1, Zenon
  <2>4. sup'.pc \notin {"serve", "close"} /\ sup'.pc # "sweep"
    BY <1>3
  <2>5. \A q \in Requests : (set[q].launched \subseteq Agents[q])'
    BY <2>1
  <2>. QED
    BY <1>2, <2>1, <2>2, <2>3, <2>4, <2>5, Zenon DEF Cover
<1>12. Commands'
  <2>1. \A n \in ExecNames : comp'[n] = comp[n]
    BY <1>4, RuntimesAssumption DEF AllNames
  <2>. QED
    BY <1>1, <1>2, <2>1, CommandsSame, Zenon
<1>13. Whole'
  BY <1>5, <1>6 DEF Whole
<1>. QED
  BY <1>7, <1>9, <1>10, <1>11, <1>12, <1>13, Zenon DEF Inv

LEMMA RestartInv ==
  ASSUME Inv, Restart
  PROVE  Inv'
<1>1. /\ Types /\ Cover /\ Lives /\ Commands /\ Whole /\ sup \in SupType /\ sup.life \in Nat
      /\ comp \in [AllNames -> CompType] /\ dirs \in [Dirs -> Ids \cup {"none"}]
  BY DEF Inv, Types, SupType
<1>2. /\ sup.pc = "down" /\ sup.then = "serve"
      /\ sup' = [pc |-> "reap", life |-> sup.life + 1, then |-> "serve"]
      /\ UNCHANGED <<tier, table, set, rx>> /\ tier' = tier /\ set' = set /\ rx' = rx
      /\ comp' = comp /\ stores' = stores /\ dirs' = dirs
  BY DEF Restart, world
<1>3. sup' \in SupType /\ sup'.pc = "reap" /\ sup'.life = sup.life + 1
  BY <1>1, <1>2 DEF SupType
<1>4. Live = {}
  BY <1>1, <1>2, Zenon DEF Lives
<1>5. Cover'
  <2>1. tier = "podman" => \A n \in AgentNames : comp'[n].st = "starting" => comp'[n].stray
    BY <1>1, <1>2, Zenon DEF Cover
  <2>2. tier = "seatbelt" => \A n \in AgentNames : Ours(n)' => comp'[n].rec # "none"
    BY <1>1, <1>2, Zenon DEF Cover, Ours
  <2>3. sup'.pc \notin {"serve", "close"} /\ sup'.pc # "sweep"
    BY <1>3
  <2>. QED
    BY <1>1, <1>2, <2>1, <2>2, <2>3, SameLists, Zenon DEF Cover
<1>6. Commands'
  BY <1>1, <1>2, CommandsSame, Zenon
<1>7. Whole'
  BY <1>1, <1>2, WholeFrame, Zenon
<1>8. sup.life <= sup'.life /\ sup'.life # sup.life
  BY <1>1, <1>3
<1>. QED
  BY <1>1, <1>2, <1>3, <1>4, <1>5, <1>6, <1>7, <1>8, SupervisorStep, Zenon

(* The reap runs while no handler does. *)
LEMMA ReapingIsAlone ==
  ASSUME Inv, Reaping
  PROVE  Live = {} /\ sup.pc # "down"
BY DEF Inv, Lives, Reaping

(* No set is whole or not where there is none in use. *)
LEMMA NoneWhole ==
  ASSUME Live = {}, set' = set
  PROVE  Whole'
<1>1. \A q \in Requests : set[q].pc = "idle"
  BY DEF Live
<1>. QED
  BY <1>1 DEF Whole

LEMMA ReapCompsInv ==
  ASSUME Inv, ReapComps
  PROVE  Inv'
<1>1. /\ Types /\ Cover /\ Commands /\ sup \in SupType /\ sup.life \in Nat
      /\ comp \in [AllNames -> CompType] /\ DOMAIN comp = AllNames
      /\ dirs \in [Dirs -> Ids \cup {"none"}] /\ tier \in {"podman", "seatbelt"}
  BY DEF Inv, Types, SupType
<1>2. /\ Reaping /\ sup' = [sup EXCEPT !.pc = "sweep"]
      /\ UNCHANGED <<tier, table, set, rx>> /\ tier' = tier /\ set' = set /\ rx' = rx
      /\ stores' = stores /\ dirs' = dirs
  BY DEF ReapComps
<1>3. /\ comp' \in [AllNames -> CompType]
      /\ \A n \in AllNames :
           \/ comp'[n] = comp[n] /\ n \notin AgentNames
           \/ comp'[n] = Reaped(n) /\ n \in AgentNames
           \/ comp'[n] = [comp[n] EXCEPT !.stray = TRUE] /\ n \in AgentNames
  <2>1. \A n : reapable(n, TRUE)
    BY DEF reapable
  <2>2. Sweep(AgentNames, TRUE)
    BY Zenon DEF ReapComps
  <2>3. /\ comp' \in [AllNames -> CompType]
        /\ \A n \in AllNames :
             \/ comp'[n] = comp[n] /\ ~(n \in AgentNames /\ reapable(n, TRUE))
             \/ comp'[n] = Reaped(n) /\ n \in AgentNames /\ reapable(n, TRUE)
             \/ /\ n \in AgentNames /\ reapable(n, TRUE) /\ tier = "podman"
                /\ comp'[n] = [comp[n] EXCEPT !.stray = TRUE]
    BY <1>1, <2>2, SweepOutcome, Zenon
  <2>. QED
    BY <2>1, <2>3, Zenon
<1>4. /\ sup' \in SupType /\ sup'.pc = "sweep" /\ sup'.life = sup.life /\ sup'.then = sup.then
  BY <1>1, <1>2 DEF SupType
<1>5. Live = {} /\ sup.pc # "down"
  BY <1>2, ReapingIsAlone, Zenon
<1>6. comp' \in [AllNames -> CompType]
  BY <1>3
<1>7. ASSUME NEW n \in AgentNames, Ours(n)'
      PROVE  /\ comp'[n] = comp[n] /\ Ours(n)
             /\ \/ tier = "podman" /\ comp[n].st = "starting"
                \/ tier = "seatbelt" /\ comp[n].rec = "none"
  <2>1. n \in AllNames
    BY DEF AllNames
  <2>2. comp'[n] = Reaped(n)
    <3>1. comp[n] \in CompType
      BY <1>1, <2>1
    <3>2. [comp[n] EXCEPT !.stray = TRUE].stray
      BY <3>1, Zenon DEF CompType
    <3>. QED
      BY <1>3, <1>7, <2>1, <3>2, Zenon DEF Ours
  <2>3. Reaped(n).st # "none" /\ ~Reaped(n).stray
    BY <1>7, <2>2, Zenon DEF Ours
  <2>4. Reaped(n) = comp[n] /\ (\/ tier = "podman" /\ comp[n].st = "starting"
                                \/ tier = "seatbelt" /\ comp[n].rec = "none")
    BY <1>1, <2>1, <2>3, ReapedFields, Zenon
  <2>. QED
    BY <2>2, <2>3, <2>4, Zenon DEF Ours
<1>8. Cover'
  <2>1. sup.then = "serve" => \A n \in AgentNames : ~Ours(n)'
    <3> SUFFICES ASSUME sup.then = "serve", NEW n \in AgentNames, Ours(n)'
                 PROVE  FALSE
      OBVIOUS
    <3>1. /\ Ours(n)
          /\ \/ tier = "podman" /\ comp[n].st = "starting"
             \/ tier = "seatbelt" /\ comp[n].rec = "none"
      BY <1>7, Zenon
    <3>2. CASE sup.pc = "reap"
      <4>1. tier = "podman" => (comp[n].st = "starting" => comp[n].stray)
        BY <1>1, <3>2 DEF Cover
      <4>2. tier = "seatbelt" => comp[n].rec # "none"
        BY <1>1, <3>1, Zenon DEF Cover
      <4>. QED
        BY <3>1, <4>1, <4>2 DEF Ours
    <3>3. CASE sup.pc = "close"
      <4>1. Listed(n)
        BY <1>1, <3>1, <3>3 DEF Cover
      <4>. QED
        BY <1>5, <4>1, Zenon DEF Listed
    <3>. QED
      BY <1>2, <3>2, <3>3 DEF Reaping
  <2>2. tier = "seatbelt" => \A n \in AgentNames : Ours(n)' => comp'[n].rec # "none"
    BY <1>1, <1>7, Zenon DEF Cover
  <2>3. sup'.pc \notin {"serve", "close"} /\ sup'.pc \notin {"down", "reap"}
    BY <1>4
  <2>. QED
    BY <1>1, <1>2, <1>4, <2>1, <2>2, <2>3, SameLists, Zenon DEF Cover
<1>9. Commands'
  <2>1. \A n \in ExecNames : comp'[n] = comp[n]
    <3>1. \A n \in ExecNames : n \in AllNames /\ n \notin AgentNames
      BY RuntimesAssumption DEF AllNames
    <3>. QED
      BY <1>3, <3>1, Zenon
  <2>. QED
    BY <1>1, <1>2, <2>1, CommandsSame, Zenon
<1>10. Whole'
  BY <1>2, <1>5, NoneWhole, Zenon
<1>11. sup.life <= sup'.life
  BY <1>1, <1>4
<1>. QED
  BY <1>1, <1>2, <1>4, <1>5, <1>6, <1>8, <1>9, <1>10, <1>11, SupervisorStep, Zenon

LEMMA UnlistedInv ==
  ASSUME Inv, Unlisted
  PROVE  Inv'
<1>1. /\ Types /\ Cover /\ Commands /\ sup \in SupType /\ sup.life \in Nat
      /\ comp \in [AllNames -> CompType] /\ dirs \in [Dirs -> Ids \cup {"none"}]
  BY DEF Inv, Types, SupType
<1>2. /\ Reaping /\ sup' = [sup EXCEPT !.pc = "sweep", !.then = "down"]
      /\ UNCHANGED <<tier, table, set, rx>> /\ tier' = tier /\ set' = set /\ rx' = rx
      /\ comp' = comp /\ stores' = stores /\ dirs' = dirs
  BY DEF Unlisted, world
<1>3. /\ sup' \in SupType /\ sup'.pc = "sweep" /\ sup'.life = sup.life /\ sup'.then = "down"
  BY <1>1, <1>2, Zenon DEF SupType
<1>4. Live = {} /\ sup.pc # "down"
  BY <1>2, ReapingIsAlone, Zenon
<1>5. Cover'
  <2>1. tier = "seatbelt" => \A n \in AgentNames : Ours(n)' => comp'[n].rec # "none"
    BY <1>1, <1>2, Zenon DEF Cover, Ours
  <2>2. sup'.pc \notin {"serve", "close"} /\ sup'.pc \notin {"down", "reap"} /\ sup'.then # "serve"
    BY <1>3
  <2>. QED
    BY <1>1, <1>2, <2>1, <2>2, SameLists, Zenon DEF Cover
<1>6. Commands'
  BY <1>1, <1>2, CommandsSame, Zenon
<1>7. Whole'
  BY <1>2, <1>4, NoneWhole, Zenon
<1>8. sup.life <= sup'.life
  BY <1>1, <1>3
<1>. QED
  BY <1>1, <1>2, <1>3, <1>4, <1>5, <1>6, <1>7, <1>8, SupervisorStep, Zenon

(* What the sweep of the stores leaves of a compartment. *)
LEMMA ReapStoresComp ==
  ASSUME Inv, ReapStores
  PROVE  /\ comp' \in [AllNames -> CompType]
         /\ \A n \in AllNames :
              \/ comp'[n].st = "none"
              \/ n \in AgentNames /\ comp'[n] = [comp[n] EXCEPT !.orphan = TRUE]
              \/ comp'[n] = comp[n]
         /\ \A n \in ExecNames : comp'[n] = comp[n] \/ (comp'[n] = Gone /\ tier = "podman")
<1> DEFINE left == [n \in AllNames |->
              IF tier = "podman" /\ comp[n].st = "up" /\ comp[n].of \in stores
              THEN Gone ELSE comp[n]]
<1>1. comp \in [AllNames -> CompType] /\ DOMAIN comp = AllNames
  BY DEF Inv, Types
<1>2. comp' = [n \in AllNames |->
           IF sup.then = "down" /\ n \in AgentNames /\ left[n] # Gone
           THEN [left[n] EXCEPT !.orphan = TRUE] ELSE left[n]]
  BY <1>1 DEF ReapStores
<1>3. \A n \in AllNames : left[n] = comp[n] \/ (left[n] = Gone /\ tier = "podman")
  OBVIOUS
<1> HIDE DEF left
<1>4. \A n \in AllNames : left[n] \in CompType
  BY <1>1, <1>3, GoneFields
<1>5. ASSUME NEW n \in AllNames
      PROVE  [left[n] EXCEPT !.orphan = TRUE] \in CompType
  BY <1>4, Zenon DEF CompType
<1>6. comp' \in [AllNames -> CompType]
  BY <1>2, <1>4, <1>5
<1>7. ASSUME NEW n \in AllNames
      PROVE  \/ comp'[n].st = "none"
             \/ n \in AgentNames /\ comp'[n] = [comp[n] EXCEPT !.orphan = TRUE]
             \/ comp'[n] = comp[n]
  <2>1. CASE sup.then = "down" /\ n \in AgentNames /\ left[n] # Gone
    BY <1>2, <1>3, <2>1, Zenon
  <2>2. CASE ~(sup.then = "down" /\ n \in AgentNames /\ left[n] # Gone)
    BY <1>2, <1>3, <2>2, GoneFields
  <2>. QED
    BY <2>1, <2>2
<1>8. \A n \in ExecNames : comp'[n] = comp[n] \/ (comp'[n] = Gone /\ tier = "podman")
  <2>1. \A n \in ExecNames : n \in AllNames /\ n \notin AgentNames
    BY RuntimesAssumption DEF AllNames
  <2>2. \A n \in ExecNames : comp'[n] = left[n]
    BY <1>2, <2>1
  <2>. QED
    BY <1>3, <2>1, <2>2, Zenon
<1>. QED
  BY <1>6, <1>7, <1>8

LEMMA ReapStoresInv ==
  ASSUME Inv, ReapStores
  PROVE  Inv'
<1>1. /\ Types /\ Cover /\ Lives /\ Commands /\ sup \in SupType /\ sup.life \in Nat
      /\ comp \in [AllNames -> CompType] /\ sup.then \in {"serve", "down"}
  BY DEF Inv, Types, SupType
<1>2. /\ sup.pc = "sweep" /\ sup' = [sup EXCEPT !.pc = sup.then]
      /\ UNCHANGED <<tier, table, set, rx>> /\ tier' = tier /\ set' = set /\ rx' = rx
      /\ dirs' = [d \in Dirs |-> "none"]
  BY DEF ReapStores
<1>3. /\ sup' \in SupType /\ sup'.pc = sup.then /\ sup'.life = sup.life /\ sup'.then = sup.then
  BY <1>1, <1>2 DEF SupType
<1>4. Live = {}
  BY <1>1, <1>2 DEF Lives
<1>5. comp' \in [AllNames -> CompType] /\ dirs' \in [Dirs -> Ids \cup {"none"}]
  BY <1>2, ReapStoresComp
<1>6. ASSUME NEW n \in AgentNames, Ours(n)'
      PROVE  Ours(n) /\ comp'[n].rec = comp[n].rec
  <2>1. n \in AllNames /\ comp[n] \in CompType
    BY <1>1 DEF AllNames
  <2>2. comp'[n] = [comp[n] EXCEPT !.orphan = TRUE] \/ comp'[n] = comp[n]
    BY <1>6, <2>1, ReapStoresComp, Zenon DEF Ours
  <2>3. comp'[n].st = comp[n].st /\ comp'[n].stray = comp[n].stray /\ comp'[n].rec = comp[n].rec
    BY <2>1, <2>2 DEF CompType
  <2>. QED
    BY <1>6, <2>3, Zenon DEF Ours
<1>7. Cover'
  <2>1. tier = "seatbelt" => \A n \in AgentNames : Ours(n)' => comp'[n].rec # "none"
    BY <1>1, <1>6, Zenon DEF Cover
  <2>2. sup.then = "serve" => \A n \in AgentNames : ~Ours(n)'
    BY <1>1, <1>2, <1>6, Zenon DEF Cover
  <2>3. \/ sup'.pc = "serve" /\ sup.then = "serve"
        \/ sup'.pc = "down" /\ sup'.then = "down"
    BY <1>1, <1>3
  <2>4. CASE sup'.pc = "serve" /\ sup.then = "serve"
    <3>1. sup'.pc # "sweep" /\ sup'.pc \notin {"down", "reap"}
      BY <2>4
    <3>. QED
      BY <1>1, <1>2, <2>1, <2>2, <2>4, <3>1, SameLists, Zenon DEF Cover
  <2>5. CASE sup'.pc = "down" /\ sup'.then = "down"
    <3>1. sup'.pc # "sweep" /\ sup'.pc \notin {"serve", "close"} /\ sup'.then # "serve"
      BY <2>5
    <3>. QED
      BY <1>1, <1>2, <2>1, <3>1, SameLists, Zenon DEF Cover
  <2>. QED
    BY <2>3, <2>4, <2>5
<1>8. Commands'
  <2>1. ASSUME NEW n \in ExecNames
        PROVE  Keeps(comp[n], comp'[n]) /\ (comp'[n].orphan => comp[n].orphan)
    <3>1. comp'[n] = comp[n] \/ (comp'[n] = Gone /\ tier = "podman")
      BY ReapStoresComp, Zenon
    <3>2. CASE comp'[n] = comp[n]
      BY <1>1, <3>2, KeepsSelf, Zenon
    <3>3. CASE comp'[n] = Gone
      <4>1. comp'[n].st = "none" /\ comp'[n].orphan = FALSE
        BY <3>3, GoneFields, Zenon
      <4>. QED
        BY <4>1, Zenon DEF Keeps
    <3>. QED
      BY <3>1, <3>2, <3>3
  <2>2. \A i \in Ids : comp'[Exec[i]].orphan => comp[Exec[i]].orphan
    BY <2>1, ExecIsName, Zenon
  <2>. QED
    BY <1>1, <1>2, <2>1, <2>2, CommandsFrame, Zenon
<1>9. Whole'
  BY <1>2, <1>4, NoneWhole, Zenon
<1>10. sup.life <= sup'.life /\ sup.pc # "down"
  BY <1>1, <1>2, <1>3
<1>. QED
  BY <1>2, <1>3, <1>4, <1>5, <1>7, <1>8, <1>9, <1>10, SupervisorStep, Zenon

-----------------------------------------------------------------------------
(* The invariant. *)

LEMMA InitInv ==
  ASSUME Init
  PROVE  Inv
<1>1. /\ tier \in Tiers /\ sup = [pc |-> "serve", life |-> 1, then |-> "serve"]
      /\ table = EmptyTable /\ set = [q \in Requests |-> Idle]
      /\ rx = [i \in Ids |-> NoRefexec] /\ comp = [n \in AllNames |-> Gone]
      /\ dirs = [d \in Dirs |-> "none"]
  BY DEF Init, AllNames
<1>2. Idle \in SetType /\ Idle.pc = "idle" /\ Idle.launched = {}
  BY DEF Idle, SetType
<1>3. NoRefexec \in RxType /\ NoRefexec.pc = "none" /\ NoRefexec.life = 0 /\ NoRefexec.run = FALSE
  BY DEF NoRefexec, RxType
<1>4. /\ \A q \in Requests : set[q] = Idle
      /\ \A i \in Ids : rx[i] = NoRefexec
      /\ \A n \in AllNames : comp[n] = Gone
      /\ sup.pc = "serve" /\ sup.life = 1
  BY <1>1
<1>5. Types
  <2>1. tier \in {"podman", "seatbelt"}
    BY <1>1, RuntimesAssumption, Zenon
  <2>2. sup \in SupType
    BY <1>1 DEF SupType
  <2>. QED
    BY <1>1, <1>2, <1>3, <2>1, <2>2, GoneFields, Zenon DEF Types
<1>6. Live = {}
  BY <1>2, <1>4 DEF Live
<1>7. Table
  <2>1. table.live = {} /\ table.names = {} /\ table.used = 0
    BY <1>1 DEF EmptyTable
  <2>2. IsFiniteSet({}) /\ Cardinality({}) = 0
    BY FS_EmptySet, Zenon
  <2>3. 0 <= MaxCompartments
    BY RuntimesAssumption
  <2>. QED
    BY <1>6, <2>1, <2>2, <2>3 DEF Table
<1>8. Lives
  BY <1>3, <1>4, <1>6 DEF Lives, Current
<1>9. Cover
  <2>1. \A n \in AgentNames : comp[n].st = "none"
    BY <1>4, GoneFields, Zenon DEF AllNames
  <2>2. \A q \in Requests : set[q].launched = {}
    BY <1>2, <1>4, Zenon
  <2>. QED
    BY <1>4, <2>1, <2>2, Zenon DEF Cover, Ours
<1>10. Commands
  <2>1. \A n \in ExecNames : comp[n].st = "none"
    BY <1>4, GoneFields, Zenon DEF AllNames
  <2>2. \A i \in Ids : ~rx[i].run
    BY <1>3, <1>4
  <2>. QED
    BY <2>1, <2>2, Zenon DEF Commands
<1>11. Whole
  BY <1>2, <1>4 DEF Whole
<1>. QED
  BY <1>5, <1>7, <1>8, <1>9, <1>10, <1>11 DEF Inv

(* Every step is one of the steps above. *)
LEMMA HandlerInv ==
  ASSUME Inv, NEW q \in Requests, Handler(q)
  PROVE  Inv'
<1>1. CASE \E a \in Agents[q] : Launch(q, a) \/ LaunchClash(q, a) \/ RemoveAgent(q, a)
  BY <1>1, LaunchInv, LaunchClashInv, RemoveAgentInv, Zenon
<1>. QED
  BY <1>1, StartSetInv, StartFailsInv, ReadyInv, NotReadyInv, LostInv, StoppedInv, KillInv,
     RemoveStoreInv, ReleaseInv, Zenon DEF Handler

LEMMA RefexecInv ==
  ASSUME Inv, NEW i \in Ids, Refexec(i) \/ Command(i) \/ RefexecCrash(i)
  PROVE  Inv'
<1>1. CASE RefexecExit(i)
  <2>1. Dies(i) /\ UNCHANGED <<tier, sup, table, set, stores, dirs>>
    BY <1>1 DEF RefexecExit
  <2>. QED
    BY <2>1, RefexecEndInv, Zenon
<1>2. CASE RefexecCrash(i)
  <2>1. Dies(i) /\ UNCHANGED <<tier, sup, table, set, stores, dirs>>
    BY <1>2, Zenon DEF RefexecCrash
  <2>. QED
    BY <2>1, RefexecEndInv, Zenon
<1>. QED
  BY <1>1, <1>2, RefexecReapInv, RefexecSweepInv, AttestInv, CancelInv, CommandInv, Zenon DEF Refexec

LEMMA NextInv ==
  ASSUME Inv, [Next]_vars
  PROVE  Inv'
<1>1. CASE \E q \in Requests : Request(q) \/ Provision(q) \/ Refuse(q) \/ Handler(q) \/ HangUp(q)
  <2>1. ASSUME NEW q \in Requests, Request(q) \/ Refuse(q) \/ HangUp(q)
        PROVE  Inv'
    <3>1. UNCHANGED <<tier, sup, table, set, rx, comp, stores, dirs>>
      BY <2>1 DEF Request, Refuse, HangUp, world
    <3>. QED
      BY <3>1, SameInv, Zenon
  <2>. QED
    BY <1>1, <2>1, ProvisionInv, HandlerInv, Zenon
<1>2. CASE \E i \in Ids : Refexec(i) \/ Command(i) \/ RefexecCrash(i)
  BY <1>2, RefexecInv, Zenon
<1>3. CASE \E n \in DOMAIN comp : Launching(n) \/ Exit(n)
  <2>1. DOMAIN comp = AllNames
    BY DEF Inv, Types
  <2>2. PICK n \in AllNames : Launching(n) \/ Exit(n)
    BY <1>3, <2>1
  <2>. QED
    BY <2>2, CreateInv, DidNotLaunchInv, BeginInv, CompleteInv, ExitInv, Zenon DEF Launching
<1>4. CASE Supervisor \/ Shutdown \/ Crash \/ Restart \/ Unlisted
  BY <1>4, ReapCompsInv, ReapStoresInv, ShutdownInv, CrashInv, RestartInv, UnlistedInv, Zenon
  DEF Supervisor
<1>5. CASE UNCHANGED vars
  <2>1. UNCHANGED <<tier, sup, table, set, rx, comp, stores, dirs>>
    BY <1>5 DEF vars
  <2>. QED
    BY <2>1, SameInv, Zenon
<1>. QED
  BY <1>1, <1>2, <1>3, <1>4, <1>5, Zenon DEF Next

(* What the processes and the compartments can be in, together: the        *)
(* inductive invariant of the runtimes.                                    *)
THEOREM RuntimesInvariant == Spec => []Inv
<1>1. Init => Inv
  BY InitInv
<1>2. Inv /\ [Next]_vars => Inv'
  BY NextInv
<1>. QED
  BY <1>1, <1>2, PTL DEF Spec

-----------------------------------------------------------------------------
(* The state properties. *)

(* A slot is free exactly when its compartment is (SlotsCover), for every  *)
(* set of children and agents, also where two children need one name.      *)
THEOREM SlotsCoverCorrect == Spec => []SlotsCover
<1>1. Inv => SlotsCover
  <2> SUFFICES ASSUME Inv, sup.pc \in {"serve", "close"}
               PROVE  /\ \A n \in AgentNames : comp[n].st # "none" /\ ~comp[n].stray => n \in table.names
                      /\ table.used = Cardinality(table.names) /\ table.used <= MaxCompartments
    BY DEF SlotsCover
  <2>1. Table /\ Cover
    BY DEF Inv
  <2>2. ASSUME NEW n \in AgentNames, comp[n].st # "none", ~comp[n].stray
        PROVE  n \in table.names
    <3>1. Listed(n)
      BY <2>1, <2>2, Zenon DEF Cover, Ours
    <3>2. PICK q \in Live : \E a \in set[q].launched : Name[Child[q], a] = n
      BY <3>1, Zenon DEF Listed
    <3>3. PICK a \in set[q].launched : Name[Child[q], a] = n
      BY <3>2, Zenon
    <3>4. q \in Requests
      BY DEF Live
    <3>5. a \in Agents[q]
      BY <2>1, <3>4 DEF Cover
    <3>6. n \in Names(q)
      BY <3>3, <3>5, Zenon DEF Names
    <3>. QED
      BY <2>1, <3>6 DEF Table
  <2>. QED
    BY <2>1, <2>2 DEF Table
<1>. QED
  BY <1>1, RuntimesInvariant, PTL

(* A command that runs has its scratch dir (ScratchKept), whatever sibling *)
(* refexecs start and sweep once its launch has claimed the name.          *)
THEOREM ScratchKeptCorrect == Spec => []ScratchKept
<1>1. Inv => ScratchKept
  <2> SUFFICES ASSUME Inv, NEW n \in ExecNames, tier = "seatbelt", comp[n].st = "up",
                      ~comp[n].orphan, ~comp[n].late
               PROVE  comp[n].scratch
    BY DEF ScratchKept
  <2>1. comp[n].st # "none"
    OBVIOUS
  <2>. QED
    BY <2>1, Zenon DEF Inv, Commands
<1>. QED
  BY <1>1, RuntimesInvariant, PTL

-----------------------------------------------------------------------------
(* The action properties. *)

(* A step of a handler that ends a compartment is the removal of an agent  *)
(* it lists.                                                               *)
LEMMA HandlerEnds ==
  ASSUME Inv, NEW q \in Requests, Handler(q), NEW n \in AllNames,
         comp[n].st = "up", comp'[n].st # "up"
  PROVE  \E a \in Agents[q] : RemoveAgent(q, a) /\ Name[Child[q], a] = n
<1>1. Types /\ comp \in [AllNames -> CompType] /\ Child[q] \in Ids
  BY NamesAreNames, Zenon DEF Inv, Types
<1>2. comp' # comp
  OBVIOUS
<1>3. ~(Terminate(Child[q]) /\ tier' = tier)
  BY <1>1, TerminateKeeps, Zenon
<1>4. ~(Dies(Child[q]) /\ tier' = tier)
  BY <1>1, DiesKeeps, Zenon
<1>5. ~StartSet(q) /\ ~StartFails(q) /\ ~Ready(q) /\ ~Stopped(q) /\ ~RemoveStore(q) /\ ~Release(q)
  BY <1>2 DEF StartSet, StartFails, Ready, Stopped, RemoveStore, Release, world
<1>6. ~NotReady(q) /\ ~Lost(q) /\ ~Kill(q)
  BY <1>3, <1>4, Zenon DEF NotReady, Lost, Kill
<1>7. PICK a \in Agents[q] : Launch(q, a) \/ LaunchClash(q, a) \/ RemoveAgent(q, a)
  BY <1>5, <1>6, Zenon DEF Handler
<1>8. ~LaunchClash(q, a)
  BY <1>3, Zenon DEF LaunchClash
<1>9. ~Launch(q, a)
  <2> SUFFICES ASSUME Launch(q, a)
               PROVE  FALSE
    OBVIOUS
  <2>1. /\ comp' = [comp EXCEPT ![Name[Child[q], a]] = Claimed(Name[Child[q], a], Child[q])]
        /\ ~Taken(Name[Child[q], a])
    BY Zenon DEF Launch
  <2>2. n # Name[Child[q], a]
    BY <2>1, Zenon DEF Taken
  <2>. QED
    BY <1>1, <2>1, <2>2, Zenon
<1>10. n = Name[Child[q], a]
  <2>0. RemoveAgent(q, a)
    BY <1>7, <1>8, <1>9, Zenon
  <2>1. PICK c \in CompType : (c.st = "none" \/ c.stray) /\ comp' = [comp EXCEPT ![Name[Child[q], a]] = c]
    BY <2>0, RemoveAgentOutcome, Zenon
  <2>. QED
    BY <1>1, <2>1, Zenon
<1>. QED
  BY <1>7, <1>8, <1>9, <1>10, Zenon

(* A step of a refexec that ends a compartment ends its own command or the *)
(* orphan of another.                                                      *)
LEMMA RefexecEnds ==
  ASSUME Inv, NEW i \in Ids, Refexec(i) \/ Command(i) \/ RefexecCrash(i), NEW n \in AllNames,
         comp[n].st = "up", comp'[n].st # "up"
  PROVE  /\ n \in ExecNames
         /\ comp[n].orphan \/ (n = Exec[i] /\ rx'[i] # rx[i])
<1>1. /\ Types /\ comp \in [AllNames -> CompType] /\ DOMAIN comp = AllNames
      /\ rx \in [Ids -> RxType] /\ rx[i] \in RxType
  BY Zenon DEF Inv, Types
<1>2. ~(Dies(i) /\ tier' = tier)
  BY DiesKeeps, Zenon
<1>3. ~RefexecExit(i) /\ ~RefexecCrash(i)
  BY <1>2, Zenon DEF RefexecExit, RefexecCrash
<1>4. CASE RefexecReap(i)
  <2>1. Sweep(ExecNames, FALSE)
    BY <1>4, Zenon DEF RefexecReap
  <2>2. n \in ExecNames /\ reapable(n, FALSE)
    BY <1>1, <2>1, SweepOutcome, Zenon
  <2>. QED
    BY <2>2 DEF reapable
<1>5. CASE RefexecSweep(i)
  <2>1. comp' = [m \in AllNames |->
                   IF m \in ExecNames \ rx[i].keep THEN [comp[m] EXCEPT !.scratch = FALSE] ELSE comp[m]]
    BY <1>1, <1>5 DEF RefexecSweep
  <2>2. comp'[n] = [comp[n] EXCEPT !.scratch = FALSE] \/ comp'[n] = comp[n]
    BY <2>1
  <2>3. comp[n] \in CompType
    BY <1>1
  <2>4. [comp[n] EXCEPT !.scratch = FALSE].st = comp[n].st
    BY <2>3 DEF CompType
  <2>. QED
    BY <2>2, <2>4, Zenon
<1>6. CASE Command(i)
  <2>1. comp' = [comp EXCEPT ![Exec[i]] = Claimed(Exec[i], i)] /\ comp[Exec[i]] = Gone
    BY <1>6 DEF Command
  <2>2. n # Exec[i]
    BY <2>1, GoneFields
  <2>. QED
    BY <1>1, <2>1, <2>2, Zenon
<1>7. CASE Attest(i)
  <2>1. comp' = [comp EXCEPT ![Exec[i]] = Gone] /\ comp[Exec[i]].st = "none"
    BY <1>7 DEF Attest
  <2>2. n # Exec[i]
    BY <2>1
  <2>. QED
    BY <1>1, <2>1, <2>2, Zenon
<1>8. CASE Cancel(i)
  <2>1. PICK c : comp' = [comp EXCEPT ![Exec[i]] = c]
    BY <1>8, Zenon DEF Cancel, Removal
  <2>2. n = Exec[i]
    BY <1>1, <2>1
  <2>3. rx[i].run /\ rx' = [rx EXCEPT ![i].run = FALSE]
    BY <1>8 DEF Cancel
  <2>4. rx'[i].run = FALSE
    BY <1>1, <2>3 DEF RxType
  <2>5. rx'[i] # rx[i]
    BY <2>3, <2>4, Zenon
  <2>. QED
    BY <2>2, <2>5, ExecIsName, Zenon
<1>. QED
  BY <1>3, <1>4, <1>5, <1>6, <1>7, <1>8, Zenon DEF Refexec

(* Who can end a compartment: no process; the handler that lists it; its   *)
(* own refexec, or another once it is an orphan; the supervisor, while no  *)
(* handler runs.                                                           *)
LEMMA Ends ==
  ASSUME Inv, [Next]_vars, NEW n \in AllNames, comp[n].st = "up", comp'[n].st # "up"
  PROVE  \/ UNCHANGED <<set, rx, sup>>
         \/ \E q \in Requests : \E a \in Agents[q] : RemoveAgent(q, a) /\ Name[Child[q], a] = n
         \/ n \in ExecNames /\ (comp[n].orphan \/ \E i \in Ids : n = Exec[i] /\ rx'[i] # rx[i])
         \/ Live = {} /\ (n \in AgentNames \/ sup.pc = "sweep")
<1>1. Types /\ Lives /\ comp \in [AllNames -> CompType] /\ DOMAIN comp = AllNames
  BY DEF Inv, Types
<1>2. comp' # comp
  BY Zenon
<1>3. CASE \E q \in Requests : Request(q) \/ Provision(q) \/ Refuse(q) \/ Handler(q) \/ HangUp(q)
  <2>1. \A q \in Requests : ~Request(q) /\ ~Provision(q) /\ ~Refuse(q) /\ ~HangUp(q)
    BY <1>2 DEF Request, Provision, Refuse, HangUp, world
  <2>. QED
    BY <1>3, <2>1, HandlerEnds, Zenon
<1>4. CASE \E i \in Ids : Refexec(i) \/ Command(i) \/ RefexecCrash(i)
  BY <1>4, RefexecEnds, Zenon
<1>5. CASE \E m \in DOMAIN comp : Launching(m) \/ Exit(m)
  BY <1>5, Zenon DEF Launching, Create, DidNotLaunch, Begin, Complete, Exit
<1>6. CASE Supervisor
  <2>1. CASE ReapComps
    <3>1. Sweep(AgentNames, TRUE) /\ Reaping
      BY <2>1, Zenon DEF ReapComps
    <3>2. n \in AgentNames
      BY <1>1, <3>1, SweepOutcome, Zenon
    <3>. QED
      BY <3>1, <3>2, ReapingIsAlone, Zenon
  <2>2. CASE ReapStores
    <3>1. sup.pc = "sweep"
      BY <2>2 DEF ReapStores
    <3>2. Live = {}
      BY <1>1, <3>1 DEF Lives
    <3>. QED
      BY <3>1, <3>2
  <2>. QED
    BY <1>6, <2>1, <2>2, Zenon DEF Supervisor
<1>7. ~Shutdown /\ ~Restart /\ ~Unlisted /\ ~UNCHANGED vars
  BY <1>2 DEF Shutdown, Restart, Unlisted, world, vars
<1>8. ~Crash
  <2>1. Orphaned(AgentNames)[n].st = comp[n].st
    BY <1>1, OrphanedFields, Zenon
  <2>. QED
    BY <2>1 DEF Crash
<1>. QED
  BY <1>3, <1>4, <1>5, <1>6, <1>7, <1>8, Zenon DEF Next

(* No teardown or sweep touches a set that is held (HeldIsWhole): a child  *)
(* that needs a name or a directory of another's is not admitted beside it. *)
THEOREM HeldIsWholeCorrect == Spec => HeldIsWhole
<1> DEFINE A == \A q \in Requests : set[q].pc = "held" /\ set'[q].pc = "held" =>
                  /\ Child[q] \in stores'
                  /\ dirs'[ChildDir[Child[q]]] = Child[q] /\ dirs'[ExecDir[Child[q]]] = Child[q]
                  /\ \A n \in Names(q) :
                       comp[n].st = "up" /\ comp'[n].st # "up" => UNCHANGED <<set, rx, sup>>
<1>1. ASSUME Inv, Inv', [Next]_vars
      PROVE  A
  <2> SUFFICES ASSUME NEW q \in Requests, set[q].pc = "held", set'[q].pc = "held"
               PROVE  /\ Child[q] \in stores'
                      /\ dirs'[ChildDir[Child[q]]] = Child[q] /\ dirs'[ExecDir[Child[q]]] = Child[q]
                      /\ \A n \in Names(q) :
                           comp[n].st = "up" /\ comp'[n].st # "up" => UNCHANGED <<set, rx, sup>>
    BY Zenon
  <2>1. Owns(Child[q])'
    BY <1>1 DEF Inv, Whole
  <2>2. q \in Live /\ Table
    BY <1>1 DEF Live, Inv
  <2>3. ASSUME NEW n \in Names(q), comp[n].st = "up", comp'[n].st # "up"
        PROVE  UNCHANGED <<set, rx, sup>>
    <3>1. n \in AgentNames /\ n \in AllNames /\ n \notin ExecNames
      BY NamesAreNames, RuntimesAssumption DEF AllNames
    <3>2. ASSUME NEW p \in Requests, NEW a \in Agents[p], RemoveAgent(p, a), Name[Child[p], a] = n
          PROVE  FALSE
      <4>1. set[p].pc = "remove"
        BY <3>2, Zenon DEF RemoveAgent
      <4>2. p \in Live /\ p # q
        BY <4>1 DEF Live
      <4>3. n \in Names(p)
        BY <3>2, Zenon DEF Names
      <4>4. Names(p) \cap Names(q) = {}
        BY <2>2, <4>2, Zenon DEF Table
      <4>. QED
        BY <4>3, <4>4
    <3>3. Live # {}
      BY <2>2
    <3>. QED
      BY <1>1, <2>3, <3>1, <3>2, <3>3, Ends, Zenon
  <2>. QED
    BY <2>1, <2>3, Zenon DEF Owns
<1>2. Inv /\ Inv' /\ [Next]_vars => [A]_vars
  BY <1>1, Zenon
<1>. QED
  BY <1>2, RuntimesInvariant, PTL DEF Spec, HeldIsWhole

(* No other process ends a command in flight (CommandsSpared), as long as  *)
(* its refexec is of the supervisor's current life.                        *)
THEOREM CommandsSparedCorrect == Spec => CommandsSpared
<1> DEFINE A == \A i \in Ids :
                  /\ rx[i].run /\ rx'[i] = rx[i] /\ rx[i].life = sup.life
                  /\ comp[Exec[i]].st = "up" /\ comp'[Exec[i]].st # "up"
                  => UNCHANGED <<set, rx, sup>>
<1>1. ASSUME Inv, [Next]_vars
      PROVE  A
  <2> SUFFICES ASSUME NEW i \in Ids, rx[i].run, rx'[i] = rx[i], rx[i].life = sup.life,
                      comp[Exec[i]].st = "up", comp'[Exec[i]].st # "up"
               PROVE  UNCHANGED <<set, rx, sup>>
    BY Zenon
  <2>1. Lives /\ Commands
    BY <1>1 DEF Inv
  <2>2. Exec[i] \in AllNames /\ Exec[i] \notin AgentNames /\ ~comp[Exec[i]].orphan
    BY <2>1, ExecIsName, Zenon DEF Commands
  <2>3. \A j \in Ids : Exec[i] = Exec[j] => i = j
    BY ExecIsName, Zenon
  <2>4. ASSUME NEW q \in Requests, NEW a \in Agents[q], Name[Child[q], a] = Exec[i]
        PROVE  FALSE
    BY <2>2, <2>4, AgentIsName, Zenon
  <2>5. ASSUME Live = {}, sup.pc = "sweep"
        PROVE  FALSE
    <3>1. Current(i)
      BY <2>1, <2>5 DEF Lives, Current
    <3>2. PICK q \in Requests : Awaits(q)
      BY <2>1, <3>1, Zenon DEF Lives
    <3>3. q \in Live
      BY <3>2 DEF Awaits, Live
    <3>. QED
      BY <2>5, <3>3
  <2>. QED
    BY <1>1, <2>2, <2>3, <2>4, <2>5, Ends, Zenon
<1>2. Inv /\ [Next]_vars => [A]_vars
  BY <1>1, Zenon
<1>. QED
  BY <1>2, RuntimesInvariant, PTL DEF Spec, CommandsSpared

(* A handler ends by its release, or with the supervisor. *)
LEMMA OnlyRelease ==
  ASSUME Inv, [Next]_vars, NEW q \in Requests, set[q].pc # "idle", set'[q].pc = "idle"
  PROVE  Release(q) \/ sup'.pc = "down"
<1>1. set \in [Requests -> SetType] /\ set' # set
  BY Zenon DEF Inv, Types
<1>2. CASE \E p \in Requests : Request(p) \/ Provision(p) \/ Refuse(p) \/ Handler(p) \/ HangUp(p)
  <2>1. PICK p \in Requests : Request(p) \/ Provision(p) \/ Refuse(p) \/ Handler(p) \/ HangUp(p)
    BY <1>2
  <2>2. ~Request(p) /\ ~Refuse(p) /\ ~HangUp(p)
    BY <1>1 DEF Request, Refuse, HangUp
  <2>3. ~Provision(p)
    BY <1>1 DEF Provision, SetType
  <2>4. ~StartSet(p) /\ ~StartFails(p)
    BY <1>1 DEF StartSet, StartFails, SetType
  <2>5. ~Ready(p) /\ ~NotReady(p) /\ ~Lost(p) /\ ~Stopped(p) /\ ~Kill(p) /\ ~RemoveStore(p)
    <3>1. ASSUME NEW l \in {"held", "await", "remove", "release"}, Goto(p, l)
          PROVE  FALSE
      BY <1>1, <3>1 DEF Goto, SetType
    <3>. QED
      BY <3>1, Zenon DEF Ready, NotReady, Lost, Stopped, Kill, RemoveStore
  <2>6. ASSUME NEW a \in Agents[p], Launch(p, a) \/ RemoveAgent(p, a)
        PROVE  FALSE
    BY <1>1, <2>6, Zenon DEF Launch, RemoveAgent, SetType
  <2>7. ASSUME NEW a \in Agents[p], LaunchClash(p, a)
        PROVE  FALSE
    BY <1>1, <2>7, Zenon DEF LaunchClash, SetType
  <2>8. Release(p)
    BY <2>1, <2>2, <2>3, <2>4, <2>5, <2>6, <2>7, Zenon DEF Handler
  <2>9. p = q
    BY <1>1, <2>8, Zenon DEF Release
  <2>. QED
    BY <2>8, <2>9
<1>3. CASE \E i \in Ids : Refexec(i) \/ Command(i) \/ RefexecCrash(i)
  BY <1>1, <1>3, Zenon DEF Refexec, RefexecReap, RefexecSweep, Attest, Cancel, RefexecExit, Command, RefexecCrash
<1>4. CASE \E n \in DOMAIN comp : Launching(n) \/ Exit(n)
  BY <1>1, <1>4 DEF Launching, Create, DidNotLaunch, Begin, Complete, Exit
<1>5. CASE Crash
  BY <1>5 DEF Crash, Inv, Types, SupType
<1>6. ~Supervisor /\ ~Shutdown /\ ~Restart /\ ~Unlisted /\ ~UNCHANGED vars
  BY <1>1, Zenon DEF Supervisor, ReapComps, ReapStores, Shutdown, Restart, Unlisted, vars
<1>. QED
  BY <1>2, <1>3, <1>4, <1>5, <1>6, Zenon DEF Next

(* The end of the body reaches the gateway only once the set is gone       *)
(* (EndIsGone): nothing but strays is left under the names of the request. *)
THEOREM EndIsGoneCorrect == Spec => EndIsGone
<1> DEFINE A == \A q \in Requests :
                  set[q].pc # "idle" /\ set'[q].pc = "idle" /\ lease[q] /\ sup.pc = "serve" /\ sup'.pc = "serve" =>
                    /\ Child[q] \notin table'.live
                    /\ \A n \in Names(q) : comp'[n].st = "none" \/ comp'[n].stray
<1>1. ASSUME Inv, [Next]_vars
      PROVE  A
  <2> SUFFICES ASSUME NEW q \in Requests, set[q].pc # "idle", set'[q].pc = "idle",
                      sup.pc = "serve", sup'.pc = "serve"
               PROVE  /\ Child[q] \notin table'.live
                      /\ \A n \in Names(q) : comp'[n].st = "none" \/ comp'[n].stray
    BY Zenon
  <2>1. Release(q)
    <3>1. sup'.pc # "down"
      OBVIOUS
    <3>. QED
      BY <1>1, <3>1, OnlyRelease, Zenon
  <2>2. Child[q] \notin table'.live
    BY <2>1, Zenon DEF Release
  <2>3. set[q].pc = "release" /\ comp' = comp
    BY <2>1, Zenon DEF Release, world
  <2>4. Table /\ Cover /\ q \in Live
    BY <1>1 DEF Inv, Live
  <2>5. ASSUME NEW n \in Names(q), comp[n].st # "none", ~comp[n].stray
        PROVE  FALSE
    <3>1. n \in AgentNames
      BY NamesAreNames
    <3>2. Listed(n)
      BY <2>4, <2>5, <3>1, Zenon DEF Cover, Ours
    <3>3. PICK p \in Live : \E a \in set[p].launched : Name[Child[p], a] = n
      BY <3>2, Zenon DEF Listed
    <3>4. PICK a \in set[p].launched : Name[Child[p], a] = n
      BY <3>3, Zenon
    <3>5. p \in Requests
      BY DEF Live
    <3>6. a \in Agents[p]
      BY <2>4, <3>5, Zenon DEF Cover
    <3>7. n \in Names(p)
      BY <3>4, <3>6, Zenon DEF Names
    <3>8. p = q
      <4>1. p # q => Names(p) \cap Names(q) = {}
        BY <2>4, Zenon DEF Table
      <4>. QED
        BY <3>7, <4>1
    <3>9. set[q].launched = {}
      BY <2>3, <2>4, Zenon DEF Cover
    <3>. QED
      BY <3>8, <3>9
  <2>. QED
    BY <2>2, <2>3, <2>5, Zenon
<1>2. Inv /\ [Next]_vars => [A]_vars
  BY <1>1, Zenon
<1>. QED
  BY <1>2, RuntimesInvariant, PTL DEF Spec, EndIsGone
=============================================================================
