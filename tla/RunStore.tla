------------------------------ MODULE RunStore ------------------------------
(***************************************************************************)
(* The run directory after the runs: ledgers written by running processes, *)
(* `runs prune` removing whole delegation trees from a listing it took     *)
(* earlier (cmd/agenthof/main.go), `audit anchor --run / --pending` filing *)
(* finished runs at a transparency log and keeping each proof beside its   *)
(* run (anchor_runs.go, internal/sidecar, internal/anchor), and the verdict *)
(* an audit of a run and its descendants folds from all of it              *)
(* (internal/completeness, internal/anchorverify).                         *)
(*                                                                         *)
(* Prune takes no lock; anchoring passes exclude each other with           *)
(* .anchor.lock, which dies with its process.  A ledger is its events'     *)
(* number and whether the last one is final: RunEngine and Completeness    *)
(* say what the events are.                                                *)
(***************************************************************************)
EXTENDS Naturals, Sequences, FiniteSets

CONSTANTS
  Runs,        \* run ids
  NoParent,
  Parent,      \* who spawns each run, or NoParent
  Anchorers,   \* processes of `audit anchor`
  MaxRecords,  \* lines a sidecar may hold
  Limit,       \* --limit of a sweep
  MaxEvents,   \* events of a ledger before its final one
  MaxPasses,   \* anchoring and pruning passes started
  MaxFaults    \* faults: crashes, failed writes, a log's refusals and silence

Nobody == "nobody"

ASSUME RunStoreAssumption ==
  /\ IsFiniteSet(Runs) /\ Parent \in [Runs -> Runs \cup {NoParent}]
  /\ Nobody \notin Anchorers

VARIABLES
  alive,     \* a run's process: "new", "running", "over", "broken"
  n,         \* events written to each ledger
  ended,     \* runs whose last event is final
  named,     \* children a spawn event of their parent names
  file,      \* a ledger's directory entry: "none", "there", "gone"
  old,       \* ledgers last written before the retention cutoff
  side,      \* each run's sidecar: its records, <<>> when there is none
  recorded,  \* runs with a success record on the control ledger
  logKey,    \* the key the log signs with
  pin,       \* anchor.pub, or 0
  lock,      \* who holds .anchor.lock
  anc,       \* the anchoring processes
  prn,       \* the pruning process
  halved,      \* runs whose tree a fault left half pruned
  passes, faults

runs == <<alive, n, ended, named>>
anchors == <<side, recorded, logKey, pin, lock, anc>>
vars == <<runs, file, old, anchors, prn, halved, passes, faults>>

There == {r \in Runs : file[r] = "there"}
Children(r) == {c \in Runs : Parent[c] = r}

\* An anchoring pass: its candidates, the run it is at and what it read of it,
\* the pin it opened with.
Rest == [at |-> "idle", todo |-> {}, run |-> NoParent, seq |-> 0, key |-> 0,
         pub |-> 0, sweep |-> FALSE, tries |-> 0, again |-> FALSE]
NotPruning == [at |-> "idle", ledgers |-> {}, proofs |-> {}, seen |-> {},
               first |-> [r \in {} |-> NoParent], todo |-> <<>>]

Init ==
  /\ alive = [r \in Runs |-> "new"]
  /\ n = [r \in Runs |-> 0]
  /\ ended = {} /\ named = {}
  /\ file = [r \in Runs |-> "none"] /\ old = {}
  /\ side = [r \in Runs |-> <<>>] /\ recorded = {}
  /\ logKey = 1 /\ pin \in {0, 1}
  /\ lock = Nobody /\ anc = [a \in Anchorers |-> Rest]
  /\ prn = NotPruning
  /\ halved = {} /\ passes = 0 /\ faults = 0

Fault == faults < MaxFaults /\ faults' = faults + 1

(***************************************************************************)
(* Runs.  A child is started by a running parent, which names it in a      *)
(* spawn event once it has returned and ends only when every child it      *)
(* started is named.  A pruned ledger's writer goes on, unheard.           *)
(***************************************************************************)
Start(r) ==
  /\ alive[r] = "new"
  /\ Parent[r] # NoParent => alive[Parent[r]] = "running" /\ n[Parent[r]] > 0
  /\ alive' = [alive EXCEPT ![r] = "running"]
  /\ file' = [file EXCEPT ![r] = "there"]
  /\ UNCHANGED <<n, ended, named, old, anchors, prn, halved, passes, faults>>

Wrote(r) ==
  /\ n' = [n EXCEPT ![r] = @ + 1]
  /\ old' = old \ {r}
  /\ UNCHANGED <<file, anchors, prn, halved, passes, faults>>

Emit(r) ==
  /\ alive[r] = "running" /\ n[r] < MaxEvents
  /\ Wrote(r)
  /\ UNCHANGED <<alive, ended, named>>

Name(c) ==
  LET p == Parent[c] IN
  /\ p # NoParent /\ alive[p] = "running"
  /\ alive[c] \in {"over", "broken"} /\ c \notin named
  /\ named' = named \cup {c}
  /\ Wrote(p)
  /\ UNCHANGED <<alive, ended>>

End(r) ==
  /\ alive[r] = "running" /\ n[r] > 0
  /\ \A c \in Children(r) : alive[c] = "new" \/ c \in named
  /\ alive' = [alive EXCEPT ![r] = "over"]
  /\ ended' = ended \cup {r}
  /\ Wrote(r)
  /\ UNCHANGED named

\* An append fails and the run returns without a final event, or the process
\* dies and takes the whole tree with it.
Break(r) ==
  /\ Fault /\ alive[r] = "running"
  /\ \/ /\ \A c \in Children(r) : alive[c] # "running"
        /\ alive' = [alive EXCEPT ![r] = "broken"]
     \/ alive' = [s \in Runs |-> IF alive[s] = "running" THEN "broken" ELSE alive[s]]
  /\ UNCHANGED <<n, ended, named, file, old, anchors, prn, halved, passes>>

\* The retention period passes: far longer than from a ledger's creation to
\* its first event, and prune fixes its cutoff before it lists the directory.
Age ==
  /\ prn.at = "idle"
  /\ \A r \in There : alive[r] = "running" => n[r] > 0
  /\ old # There /\ old' = There
  /\ UNCHANGED <<runs, file, anchors, prn, halved, passes, faults>>

(***************************************************************************)
(* runs prune.  The directory is listed, then the first event of every     *)
(* ledger is read for its parent; roots past the cutoff go with all their  *)
(* descendants, children first; then proofs whose run is nowhere.          *)
(***************************************************************************)
Pruning(to) == prn' = [prn EXCEPT !.at = to]

PruneList ==
  /\ prn.at = "idle" /\ passes < MaxPasses /\ passes' = passes + 1
  /\ prn' = [NotPruning EXCEPT !.at = "listed", !.ledgers = There,
               !.proofs = {r \in Runs : side[r] # <<>>}]
  /\ UNCHANGED <<runs, file, old, anchors, halved, faults>>

Parents == [r \in There |-> IF n[r] > 0 THEN Parent[r] ELSE NoParent]

PruneParents ==
  /\ prn.at = "listed"
  /\ prn' = [prn EXCEPT !.at = "sweeping", !.first = Parents]
  /\ UNCHANGED <<runs, file, old, anchors, halved, passes, faults>>

Mut_isRoot(r) == TRUE
isRoot(r) == r \notin DOMAIN prn.first \/ prn.first[r] \notin DOMAIN prn.first

\* remove's order: the descendants the listing knew of, each before its
\* parent.
Listed(r) == {c \in DOMAIN prn.first : prn.first[c] = r}
Below(r) ==
  {s \in {r} \cup DOMAIN prn.first :
     \A D \in SUBSET Runs : r \in D /\ (\A x \in D : Listed(x) \subseteq D) => s \in D}
Doomed(r) ==
  {q \in [1..Cardinality(Below(r)) -> Below(r)] :
     /\ \A x \in Below(r) : \E i \in DOMAIN q : q[i] = x
     /\ \A i, j \in DOMAIN q : q[i] \in Listed(q[j]) => i < j}

PruneRoot(r) ==
  /\ prn.at = "sweeping" /\ prn.todo = <<>> /\ r \in prn.ledgers \ prn.seen
  /\ IF isRoot(r) /\ r \in There /\ r \in old
       THEN \E q \in Doomed(r) : prn' = [prn EXCEPT !.seen = @ \cup {r}, !.todo = q]
       ELSE prn' = [prn EXCEPT !.seen = @ \cup {r}]
  /\ UNCHANGED <<runs, file, old, anchors, halved, passes, faults>>

PruneLedger ==
  /\ prn.at = "sweeping" /\ prn.todo # <<>>
  /\ LET r == Head(prn.todo) IN
     \/ /\ file' = [file EXCEPT ![r] = IF @ = "there" THEN "gone" ELSE @]
        /\ Pruning("proof")
        /\ UNCHANGED <<halved, faults>>
     \/ /\ Fault                                     \* os.Remove failed: skip r
        /\ halved' = halved \cup {r}
        /\ prn' = [prn EXCEPT !.todo = Tail(@)]
        /\ UNCHANGED file
  /\ UNCHANGED <<runs, old, anchors, passes>>

PruneProof ==
  /\ prn.at = "proof"
  /\ side' = [side EXCEPT ![Head(prn.todo)] = <<>>]
  /\ prn' = [prn EXCEPT !.at = "sweeping", !.todo = Tail(@)]
  /\ UNCHANGED <<runs, file, old, recorded, logKey, pin, lock, anc, halved, passes, faults>>

Mut_PruneOrphans ==
  /\ prn.at = "sweeping" /\ prn.todo = <<>> /\ prn.ledgers \subseteq prn.seen
  /\ side' = [r \in Runs |-> IF r \notin DOMAIN prn.first THEN <<>> ELSE side[r]]
  /\ prn' = NotPruning
  /\ UNCHANGED <<runs, file, old, recorded, logKey, pin, lock, anc, halved, passes, faults>>

PruneOrphans ==
  /\ prn.at = "sweeping" /\ prn.todo = <<>> /\ prn.ledgers \subseteq prn.seen
  /\ side' = [r \in Runs |-> IF r \in prn.proofs \ DOMAIN prn.first THEN <<>> ELSE side[r]]
  /\ prn' = NotPruning
  /\ UNCHANGED <<runs, file, old, recorded, logKey, pin, lock, anc, halved, passes, faults>>

PruneCrash ==
  /\ Fault /\ prn.at # "idle"
  /\ halved' = halved \cup {prn.todo[i] : i \in DOMAIN prn.todo}
  /\ prn' = NotPruning
  /\ UNCHANGED <<runs, file, old, anchors, passes>>

(***************************************************************************)
(* audit anchor.  Past the preamble a pass takes the lock and keeps it to  *)
(* its last record.  For each run: read a whole, final ledger; submit its  *)
(* head; write the proof beside it; record it on the control ledger.       *)
(***************************************************************************)
Quiet == <<runs, file, old, prn, halved, passes>>

Candidates == {r \in There : side[r] = <<>>}

Mut_AnchorStart(a) ==
  /\ anc[a].at = "idle" /\ passes < MaxPasses /\ passes' = passes + 1
  /\ lock' = a
  /\ \/ anc' = [anc EXCEPT ![a] = [Rest EXCEPT !.at = "next", !.todo = Candidates,
                                               !.pub = pin, !.sweep = TRUE]]
     \/ \E r \in Runs : anc' = [anc EXCEPT ![a] = [Rest EXCEPT !.at = "next", !.todo = {r},
                                                           !.pub = pin]]
  /\ UNCHANGED <<runs, file, old, prn, halved, faults, side, recorded, logKey, pin>>

AnchorStart(a) ==
  /\ anc[a].at = "idle" /\ passes < MaxPasses /\ passes' = passes + 1
  /\ lock = Nobody /\ lock' = a
  /\ \/ anc' = [anc EXCEPT ![a] = [Rest EXCEPT !.at = "next", !.todo = Candidates,
                                               !.pub = pin, !.sweep = TRUE]]
     \/ \E r \in Runs : anc' = [anc EXCEPT ![a] = [Rest EXCEPT !.at = "next", !.todo = {r},
                                                           !.pub = pin]]
  /\ UNCHANGED <<runs, file, old, prn, halved, faults, side, recorded, logKey, pin>>

Stopped(a) ==
  /\ anc' = [anc EXCEPT ![a] = Rest]
  /\ lock' = Nobody

AnchorDone(a) ==
  /\ anc[a].at = "next" /\ (anc[a].todo = {} \/ anc[a].tries >= Limit)
  /\ Stopped(a)
  /\ UNCHANGED <<Quiet, faults, side, recorded, logKey, pin>>

FinalEvent(r) == r \in ended

\* A run that is gone, still running or torn is not anchorable; skipping it
\* costs a sweep nothing of its limit.
AnchorRead(a, r) ==
  /\ anc[a].at = "next" /\ r \in anc[a].todo /\ anc[a].tries < Limit
  /\ anc' = IF r \in There /\ FinalEvent(r)
              THEN [anc EXCEPT ![a].at = "submit", ![a].run = r, ![a].seq = n[r],
                               ![a].todo = @ \ {r}]
              ELSE [anc EXCEPT ![a].todo = @ \ {r}]
  /\ UNCHANGED <<Quiet, faults, side, recorded, logKey, pin, lock>>

\* Submit posts the entry and verifies what it got back under the key that was
\* pinned when the pass began, or the served one, whose id the receipt keeps.
Accepts(a) == anc[a].pub \in {0, logKey}

Submit(a) ==
  /\ anc[a].at = "submit"
  /\ Accepts(a)
  /\ anc' = [anc EXCEPT ![a].at = "proof", ![a].key = logKey]
  /\ UNCHANGED <<Quiet, faults, side, recorded, logKey, pin, lock>>

\* The log answered and refused, or its key is not the pinned one: the sweep
\* goes on, unless the text is the same as of the refusal before.
SubmitRefused(a) ==
  /\ anc[a].at = "submit"
  /\ IF Accepts(a) THEN Fault ELSE UNCHANGED faults
  /\ \/ anc[a].again /\ Stopped(a)
     \/ /\ anc' = [anc EXCEPT ![a].at = "next", ![a].tries = @ + 1, ![a].again = TRUE]
        /\ UNCHANGED lock
  /\ UNCHANGED <<Quiet, side, recorded, logKey, pin>>

\* sidecar.Append reads what is there and replaces the file.
Proof(a) ==
  LET r == anc[a].run IN
  /\ anc[a].at = "proof"
  /\ Len(side[r]) < MaxRecords
  /\ side' = [side EXCEPT ![r] = Append(@, [seq |-> anc[a].seq, key |-> anc[a].key])]
  /\ anc' = [anc EXCEPT ![a].at = "record"]
  /\ UNCHANGED <<Quiet, faults, recorded, logKey, pin, lock>>

Record(a) ==
  /\ anc[a].at = "record"
  /\ recorded' = recorded \cup {anc[a].run}
  /\ anc' = [anc EXCEPT ![a].at = "next", ![a].tries = @ + 1, ![a].again = FALSE]
  /\ UNCHANGED <<Quiet, faults, side, logKey, pin, lock>>

\* What stops a pass: a log that does not answer (its entry may be filed), a
\* backend that cannot be built, a full sidecar, a write or record that fails,
\* or the end of the process.
AnchorStops(a) ==
  /\ anc[a].at # "idle"
  /\ IF anc[a].at = "proof" /\ Len(side[anc[a].run]) >= MaxRecords
       THEN UNCHANGED faults ELSE Fault
  /\ Stopped(a)
  /\ UNCHANGED <<Quiet, side, recorded, logKey, pin>>

\* The log rotates its key, or the operator pins the one it serves.
Rekey ==
  /\ \/ Fault /\ logKey = 1 /\ logKey' = 2 /\ UNCHANGED pin
     \/ pin # logKey /\ pin' = logKey /\ UNCHANGED <<logKey, faults>>
  /\ UNCHANGED <<Quiet, side, recorded, lock, anc>>

Next ==
  \/ \E r \in Runs : Start(r) \/ Emit(r) \/ Name(r) \/ End(r) \/ Break(r) \/ PruneRoot(r)
  \/ Age \/ Rekey
  \/ PruneList \/ PruneParents \/ PruneLedger \/ PruneProof \/ PruneOrphans \/ PruneCrash
  \/ \E a \in Anchorers :
       \/ AnchorStart(a) \/ AnchorDone(a) \/ Submit(a) \/ SubmitRefused(a)
       \/ Proof(a) \/ Record(a) \/ AnchorStops(a)
       \/ \E r \in Runs : AnchorRead(a, r)

Spec == Init /\ [][Next]_vars

(***************************************************************************)
(* The audit of a run: its sidecar's records against its ledger and the    *)
(* trusted key, its delegation tree through the spawn events, one exit     *)
(* code by precedence.                                                     *)
(***************************************************************************)
Check(r, rec) == rec.seq = n[r] /\ FinalEvent(r)

\* A key this point does not hold is the absence of a verdict: the pinned
\* one decides, else the one the log serves now, and nothing offline.
servedKey(offline) == IF offline THEN 0 ELSE logKey
verifyProofOffline(rec, key) == key = rec.key
Verify(rec, offline) ==
  IF verifyProofOffline(rec, IF pin # 0 THEN pin ELSE servedKey(offline))
    THEN "verified" ELSE "unverifiable"

\* anchorverify's ladder: only content can disagree.
decide(r, rec, offline) == IF Check(r, rec) THEN Verify(rec, offline) ELSE "mismatch"

State(r, offline) ==
  LET each == {decide(r, side[r][i], offline) : i \in DOMAIN side[r]} IN
  CASE each = {} -> "not-anchored"
    [] "mismatch" \in each -> "mismatch"
    [] "unverifiable" \in each /\ "mismatch" \notin each -> "unverifiable"
    [] OTHER -> "verified"

\* VerifyTree: a named child must have its ledger; once the parent has ended,
\* a ledger that names it must be named.
Gap(r) ==
  \/ \E c \in Children(r) \cap named : c \notin There
  \/ r \in ended /\ \E c \in Children(r) \cap There : n[c] > 0 /\ c \notin named

Tree(r) ==
  LET Down[s \in Runs] == {s} \cup UNION {Down[c] : c \in Children(s) \cap named \cap There}
  IN  Down[r]

runExitCode(r, offline) ==
  LET states == {State(s, offline) : s \in Tree(r)} IN
  CASE "mismatch" \in states -> 6
    [] "mismatch" \notin states /\ \E s \in Tree(r) : Gap(s) -> 11
    [] "mismatch" \notin states /\ (\A s \in Tree(r) : ~Gap(s)) /\ ~(Tree(r) \subseteq ended) -> 12
    [] "mismatch" \notin states /\ (\A s \in Tree(r) : ~Gap(s)) /\ Tree(r) \subseteq ended ->
         IF "unverifiable" \in states THEN 7 ELSE 0

(***************************************************************************)
(* Properties.                                                             *)
(***************************************************************************)
Whole(r) ==
  LET Under[s \in Runs] == {s} \cup UNION {Under[c] : c \in Children(s)}
  IN  \A s \in Under[r] : /\ alive[s] # "broken" /\ s \notin halved
                          /\ \A i \in DOMAIN prn.todo : prn.todo[i] # s

\* No false alarm: the audit of a tree whose runs ended or still run, and that
\* no prune is removing or left half removed, never reports an anchor mismatch
\* or a gap, whatever prunes and anchoring passes went before, whatever key
\* the log uses by now and whether the log is asked or not.
AuditIsQuiet ==
  \A r \in There : Whole(r) =>
    \A offline \in BOOLEAN : runExitCode(r, offline) \in {0, 7, 12}

\* A run the control ledger records as anchored keeps its proof for as long as
\* its ledger is there: the proof is written before the record, and prune,
\* working from its listing, removes only proofs whose ledger is gone.
RecordedHasProof == \A r \in recorded \cap There : side[r] # <<>>

\* A sweep files only runs that have no proof, and no two passes hold one run
\* between the log and its proof: the lock spans the choice of candidates and
\* every write, so overlapping crons cannot file one head twice.
SweepFilesOnce ==
  \A a \in Anchorers : anc[a].at \in {"submit", "proof"} =>
    /\ anc[a].sweep => side[anc[a].run] = <<>>
    /\ \A b \in Anchorers \ {a} : anc[b].at \in {"submit", "proof"} => anc[b].run # anc[a].run
=============================================================================
