--------------------------- MODULE RunStoreProofs ---------------------------
(***************************************************************************)
(* What holds of the run directory for any delegation forest, any number   *)
(* of anchoring processes and any number of passes and faults: an anchored *)
(* run keeps its proof while its ledger is there, though prune takes no    *)
(* lock, and no head is filed twice by overlapping sweeps.                 *)
(***************************************************************************)
EXTENDS RunStore, FiniteSetTheorems, TLAPS

-----------------------------------------------------------------------------
(* The inductive invariant.                                                 *)

Proofs == [seq : Nat, key : Nat]
Pass == [at : {"idle", "next", "submit", "proof", "record"}, todo : SUBSET Runs,
         run : Runs \cup {NoParent}, seq : Nat, key : Nat,
         pub : Nat, sweep : BOOLEAN, tries : Nat, again : BOOLEAN]
Listing == UNION {[D -> Runs \cup {NoParent}] : D \in SUBSET Runs}
Prune == [at : {"idle", "listed", "sweeping", "proof"}, ledgers : SUBSET Runs,
          proofs : SUBSET Runs, seen : SUBSET Runs,
          first : Listing, todo : Seq(Runs)]

TypeOK ==
  /\ alive \in [Runs -> {"new", "running", "over", "broken"}]
  /\ n \in [Runs -> Nat]
  /\ file \in [Runs -> {"none", "there", "gone"}]
  /\ side \in [Runs -> Seq(Proofs)] /\ recorded \subseteq Runs /\ logKey \in Nat /\ pin \in Nat
  /\ anc \in [Anchorers -> Pass]
  /\ prn \in Prune

(* A ledger is created once, by its run; nothing is known of a run without *)
(* one.                                                                    *)
Begun ==
  /\ \A r \in Runs : alive[r] = "new" => file[r] = "none"
  /\ \A r \in Runs : r \in recorded \/ side[r] # <<>> => file[r] # "none"

(* What the prune in progress knows of the directory it listed. *)
PruneKnows ==
  /\ prn.at = "listed" => \A r \in prn.proofs : file[r] # "none"
  /\ prn.at \in {"sweeping", "proof"} => \A r \in prn.proofs \ DOMAIN prn.first : file[r] = "gone"
  /\ \A r \in DOMAIN prn.first : file[r] # "none"
  /\ \A i \in DOMAIN prn.todo : file[prn.todo[i]] # "none"
  /\ prn.at = "proof" => prn.todo # <<>> /\ file[Head(prn.todo)] = "gone"

(* An anchoring pass holds the lock, and the run in its hands is not one   *)
(* still to come; a sweep's runs have no proof.                            *)
Holds(a) ==
  /\ anc[a].at # "idle" => lock = a
  /\ anc[a].at \in {"submit", "proof", "record"} =>
       anc[a].run \in Runs /\ file[anc[a].run] # "none" /\ anc[a].run \notin anc[a].todo
  /\ anc[a].at = "record" /\ file[anc[a].run] = "there" => side[anc[a].run] # <<>>
  /\ anc[a].at # "idle" /\ anc[a].sweep => \A r \in anc[a].todo : side[r] = <<>>
  /\ anc[a].at \in {"submit", "proof"} /\ anc[a].sweep => side[anc[a].run] = <<>>

Inv ==
  /\ TypeOK /\ Begun /\ PruneKnows
  /\ \A a \in Anchorers : Holds(a)
  /\ RecordedHasProof

-----------------------------------------------------------------------------
(* Runs.                                                                    *)

(* A step that leaves the directory, its proofs and both passes alone. *)
LEMMA RunStep ==
  ASSUME Inv, UNCHANGED <<file, side, recorded, anc, lock, prn>>, logKey' \in Nat, pin' \in Nat,
         alive' \in [Runs -> {"new", "running", "over", "broken"}], n' \in [Runs -> Nat],
         \A r \in Runs : alive'[r] = "new" => alive[r] = "new"
  PROVE  Inv'
<1>1. TypeOK'
  BY DEF Inv, TypeOK
<1>2. Begun'
  BY Zenon DEF Inv, Begun
<1>3. PruneKnows' /\ RecordedHasProof' /\ \A a \in Anchorers : Holds(a)'
  BY Zenon DEF Inv, PruneKnows, RecordedHasProof, Holds, There
<1>4. QED
  BY <1>1, <1>2, <1>3 DEF Inv

LEMMA RunsStep ==
  ASSUME Inv, NEW r \in Runs, Emit(r) \/ Name(r) \/ End(r) \/ Break(r)
  PROVE  Inv'
<1>1. UNCHANGED <<file, side, recorded, anc, lock, prn>> /\ logKey' \in Nat /\ pin' \in Nat
  BY DEF Emit, Name, End, Break, Wrote, anchors, Inv, TypeOK
<1>2. n' \in [Runs -> Nat]
  BY DEF Emit, Name, End, Break, Wrote, Inv, TypeOK
<1>3. alive' \in [Runs -> {"new", "running", "over", "broken"}] /\ \A s \in Runs : alive'[s] = "new" => alive[s] = "new"
  <2>1. CASE Emit(r) \/ Name(r) \/ End(r)
    BY <2>1, Zenon DEF Emit, Name, End, Inv, TypeOK
  <2>2. CASE Break(r)
    BY <2>2, Zenon DEF Break, Inv, TypeOK
  <2>3. QED
    BY <2>1, <2>2
<1>4. QED
  BY <1>1, <1>2, <1>3, RunStep

LEMMA IdleStep ==
  ASSUME Inv, Age \/ Rekey \/ UNCHANGED vars
  PROVE  Inv'
<1>1. UNCHANGED <<file, side, recorded, anc, lock, prn>> /\ alive' = alive /\ n' = n /\ logKey' \in Nat /\ pin' \in Nat
  BY DEF Age, Rekey, vars, runs, anchors, Quiet, Inv, TypeOK
<1>2. QED
  BY <1>1, RunStep DEF Inv, TypeOK

LEMMA ListingType ==
  ASSUME NEW D \in SUBSET Runs, NEW f \in [D -> Runs \cup {NoParent}]
  PROVE  f \in Listing
  BY Zenon DEF Listing

LEMMA PruneTypes ==
  ASSUME Inv
  PROVE  /\ prn \in Prune /\ prn.todo \in Seq(Runs) /\ DOMAIN prn.first \subseteq Runs
         /\ prn.proofs \subseteq Runs /\ PruneKnows
         /\ file \in [Runs -> {"none", "there", "gone"}] /\ side \in [Runs -> Seq(Proofs)]
<1>1. prn.first \in Listing
  BY DEF Inv, TypeOK, Prune
<1>2. DOMAIN prn.first \subseteq Runs
  BY <1>1 DEF Listing
<1>3. QED
  BY <1>2 DEF Inv, TypeOK, Prune

(* A ledger is created: its run was new, so nobody knows of it. *)
LEMMA StartStep ==
  ASSUME Inv, NEW r \in Runs, Start(r)
  PROVE  Inv'
<1>1. /\ UNCHANGED <<side, recorded, logKey, pin, anc, lock, prn, n>> /\ alive[r] = "new"
      /\ alive' = [alive EXCEPT ![r] = "running"] /\ file' = [file EXCEPT ![r] = "there"]
  BY DEF Start, anchors
<1>2. file[r] = "none" /\ r \notin recorded /\ side[r] = <<>>
  BY <1>1 DEF Inv, Begun
<1>3. TypeOK'
  BY <1>1 DEF Inv, TypeOK
<1>4. file'[r] = "there" /\ alive'[r] = "running" /\ \A s \in Runs \ {r} : file'[s] = file[s] /\ alive'[s] = alive[s]
  BY <1>1 DEF Inv, TypeOK
<1>5. Begun'
  BY <1>1, <1>2, <1>4, Zenon DEF Inv, Begun
<1>6. PruneKnows'
  <2>1. prn \in Prune /\ prn.todo \in Seq(Runs) /\ DOMAIN prn.first \subseteq Runs /\ prn.proofs \subseteq Runs
    BY PruneTypes
  <2>2. \A s \in Runs : file[s] # "none" => file'[s] = file[s]
    BY <1>2, <1>4, Zenon
  <2>3. \A s \in Runs : file[s] = "gone" => file'[s] = "gone"
    BY <1>2, <1>4, Zenon
  <2>4. \A i \in DOMAIN prn.todo : prn.todo[i] \in Runs
    BY <2>1
  <2>5. prn.todo # <<>> => Head(prn.todo) \in Runs
    BY <2>1
  <2>6. PruneKnows /\ prn' = prn
    BY <1>1, Zenon DEF Inv
  <2>7. prn.at = "listed" => \A s \in prn.proofs : file'[s] # "none"
    BY <2>1, <2>2, <2>6, Zenon DEF PruneKnows
  <2>8. prn.at \in {"sweeping", "proof"} => \A s \in prn.proofs \ DOMAIN prn.first : file'[s] = "gone"
    BY <2>1, <2>3, <2>6, Zenon DEF PruneKnows
  <2>9. \A s \in DOMAIN prn.first : file'[s] # "none"
    BY <2>1, <2>2, <2>6, Zenon DEF PruneKnows
  <2>10. \A i \in DOMAIN prn.todo : file'[prn.todo[i]] # "none"
    BY <2>2, <2>4, <2>6, Zenon DEF PruneKnows
  <2>11. prn.at = "proof" => prn.todo # <<>> /\ file'[Head(prn.todo)] = "gone"
    BY <2>3, <2>5, <2>6, Zenon DEF PruneKnows
  <2>12. QED
    BY <2>6, <2>7, <2>8, <2>9, <2>10, <2>11, Zenon DEF PruneKnows
<1>7. ASSUME NEW a \in Anchorers PROVE Holds(a)'
  <2>1. Holds(a)
    BY DEF Inv
  <2>2. anc[a].run \in Runs /\ file[anc[a].run] # "none" => file'[anc[a].run] = file[anc[a].run]
    BY <1>2, <1>4, Zenon
  <2>3. QED
    BY <1>1, <2>1, <2>2, Zenon DEF Holds
<1>8. RecordedHasProof'
  <2>1. recorded \subseteq Runs
    BY DEF Inv, TypeOK
  <2>2. \A s \in recorded : s \in Runs \ {r}
    BY <1>2, <2>1, Zenon
  <2>3. \A s \in recorded : file'[s] = "there" => s \in Runs /\ file[s] = "there"
    BY <1>4, <2>2, Zenon
  <2>4. \A s \in recorded : file[s] = "there" /\ s \in Runs => side[s] # <<>>
    BY Zenon DEF Inv, RecordedHasProof, There
  <2>5. recorded' = recorded /\ side' = side
    BY <1>1, Zenon
  <2>6. QED
    BY <2>3, <2>4, <2>5, Zenon DEF RecordedHasProof, There
<1>9. QED
  BY <1>3, <1>5, <1>6, <1>7, <1>8 DEF Inv

-----------------------------------------------------------------------------
(* Pruning: a ledger that is there goes, a proof goes only after it.        *)

LEMMA PruneStep ==
  ASSUME Inv, UNCHANGED <<alive, n, recorded, logKey, pin, anc, lock>>,
         file' \in [Runs -> {"none", "there", "gone"}], side' \in [Runs -> Seq(Proofs)], prn' \in Prune,
         \A r \in Runs : file'[r] = file[r] \/ (file[r] = "there" /\ file'[r] = "gone"),
         \A r \in Runs : side'[r] = side[r] \/ (side'[r] = <<>> /\ file'[r] = "gone"),
         PruneKnows'
  PROVE  Inv'
<1>1. TypeOK'
  BY DEF Inv, TypeOK
<1>2. Begun'
  BY Zenon DEF Inv, Begun
<1>3. RecordedHasProof'
  BY Zenon DEF Inv, RecordedHasProof, There
<1>4. ASSUME NEW a \in Anchorers PROVE Holds(a)'
  <2>1. Holds(a) /\ anc[a].todo \subseteq Runs
    BY DEF Inv, TypeOK, Pass
  <2>2. QED
    BY <2>1, Zenon DEF Holds
<1>5. QED
  BY <1>1, <1>2, <1>3, <1>4 DEF Inv

LEMMA PruneListStep ==
  ASSUME Inv, PruneList
  PROVE  Inv'
<1> DEFINE none == [r \in {} |-> NoParent]
<1>1. /\ UNCHANGED <<alive, n, recorded, logKey, pin, anc, lock, file, side>>
      /\ prn' = [at |-> "listed", ledgers |-> There, proofs |-> {r \in Runs : side[r] # <<>>}, seen |-> {},
                 first |-> none, todo |-> <<>>]
  BY Zenon DEF PruneList, runs, anchors, NotPruning
<1>2. none \in [{} -> Runs \cup {NoParent}] /\ DOMAIN none = {}
  OBVIOUS
<1> HIDE DEF none
<1>3. prn' \in Prune
  <2>1. none \in Listing
    BY <1>2, ListingType, Zenon
  <2>2. QED
    BY <1>1, <2>1 DEF Prune, There
<1>4. PruneKnows'
  <2>1. /\ prn'.at = "listed" /\ prn'.proofs = {r \in Runs : side[r] # <<>>}
        /\ DOMAIN prn'.first = {} /\ DOMAIN prn'.todo = {}
    BY <1>1, <1>2
  <2>2. \A r \in prn'.proofs : file[r] # "none"
    BY <2>1, Zenon DEF Inv, Begun
  <2>3. QED
    BY <1>1, <2>1, <2>2, Zenon DEF PruneKnows
<1>5. QED
  BY <1>1, <1>3, <1>4, PruneTypes, PruneStep

LEMMA PruneParentsStep ==
  ASSUME Inv, PruneParents
  PROVE  Inv'
<1>1. /\ UNCHANGED <<alive, n, recorded, logKey, pin, anc, lock, file, side>>
      /\ prn' = [prn EXCEPT !.at = "sweeping", !.first = Parents] /\ prn.at = "listed"
  BY DEF PruneParents, runs, anchors
<1>2. Parents \in [There -> Runs \cup {NoParent}] /\ There \in SUBSET Runs /\ DOMAIN Parents = There
  BY RunStoreAssumption DEF Parents, There
<1>3. prn' \in Prune
  <2>1. Parents \in Listing
    BY <1>2, ListingType
  <2>2. QED
    BY <1>1, <2>1, PruneTypes, Zenon DEF Prune
<1>4. PruneKnows'
  <2>1. /\ prn'.at = "sweeping" /\ prn'.proofs = prn.proofs /\ prn'.first = Parents /\ prn'.todo = prn.todo
    BY <1>1, PruneTypes DEF Prune
  <2>2. \A r \in prn.proofs \ There : file[r] = "gone"
    <3>1. \A r \in prn.proofs : r \in Runs /\ file[r] # "none" /\ file[r] \in {"none", "there", "gone"}
      BY <1>1, PruneTypes DEF PruneKnows
    <3>2. QED
      BY <3>1 DEF There
  <2>3. \A r \in There : file[r] # "none"
    BY DEF There
  <2>4. QED
    BY <1>1, <1>2, <2>1, <2>2, <2>3, PruneTypes, Zenon DEF PruneKnows
<1>5. QED
  BY <1>1, <1>3, <1>4, PruneTypes, PruneStep

(* The order of removal names only ledgers that were listed. *)
LEMMA DoomedListed ==
  ASSUME Inv, NEW r \in There, NEW q \in Doomed(r)
  PROVE  q \in Seq(Runs) /\ \A i \in DOMAIN q : file[q[i]] # "none"
<1>1. Below(r) \subseteq {r} \cup DOMAIN prn.first
  BY DEF Below
<1>2. Below(r) \subseteq Runs /\ \A s \in Below(r) : file[s] # "none"
  BY <1>1, PruneTypes DEF There, PruneKnows
<1>3. IsFiniteSet(Below(r))
  BY <1>2, RunStoreAssumption, FS_Subset
<1>4. Cardinality(Below(r)) \in Nat
  BY <1>3, FS_CardinalityType
<1>5. q \in [1..Cardinality(Below(r)) -> Below(r)]
  BY DEF Doomed
<1> HIDE DEF Below
<1>6. QED
  BY <1>2, <1>4, <1>5

LEMMA PruneRootStep ==
  ASSUME Inv, NEW r \in Runs, PruneRoot(r)
  PROVE  Inv'
<1>1. /\ UNCHANGED <<alive, n, recorded, logKey, pin, anc, lock, file, side>> /\ prn.at = "sweeping"
  BY Zenon DEF PruneRoot, runs, anchors
<1>2. CASE prn' = [prn EXCEPT !.seen = @ \cup {r}]
  <2>1. prn' \in Prune
    BY <1>2, PruneTypes, Zenon DEF Prune
  <2>2. prn'.at = prn.at /\ prn'.proofs = prn.proofs /\ prn'.first = prn.first /\ prn'.todo = prn.todo
    BY <1>2, PruneTypes DEF Prune
  <2>3. PruneKnows'
    BY <1>1, <2>2, PruneTypes, Zenon DEF PruneKnows
  <2>4. QED
    BY <1>1, <2>1, <2>3, PruneTypes, PruneStep
<1>3. ASSUME r \in There, NEW q \in Doomed(r), prn' = [prn EXCEPT !.seen = @ \cup {r}, !.todo = q]
      PROVE  Inv'
  <2>1. q \in Seq(Runs) /\ \A i \in DOMAIN q : file[q[i]] # "none"
    BY <1>3, DoomedListed
  <2>2. prn' \in Prune
    BY <1>3, <2>1, PruneTypes, Zenon DEF Prune
  <2>3. prn'.at = "sweeping" /\ prn'.proofs = prn.proofs /\ prn'.first = prn.first /\ prn'.todo = q
    BY <1>1, <1>3, PruneTypes DEF Prune
  <2>4. PruneKnows'
    BY <1>1, <2>1, <2>3, PruneTypes, Zenon DEF PruneKnows
  <2>5. QED
    BY <1>1, <2>2, <2>4, PruneTypes, PruneStep
<1>4. QED
  BY <1>2, <1>3, Zenon DEF PruneRoot

LEMMA TodoTail ==
  ASSUME NEW s \in Seq(Runs), s # <<>>
  PROVE  /\ Tail(s) \in Seq(Runs) /\ Head(s) \in Runs /\ Head(s) = s[1] /\ 1 \in DOMAIN s
         /\ \A i \in DOMAIN Tail(s) : i + 1 \in DOMAIN s /\ Tail(s)[i] = s[i + 1]
  OBVIOUS

LEMMA PruneLedgerStep ==
  ASSUME Inv, PruneLedger
  PROVE  Inv'
<1> DEFINE r == Head(prn.todo)
<1>1. UNCHANGED <<alive, n, recorded, logKey, pin, anc, lock, side>> /\ prn.at = "sweeping" /\ prn.todo # <<>>
  BY DEF PruneLedger, runs, anchors
<1>2. /\ Tail(prn.todo) \in Seq(Runs) /\ r \in Runs /\ r = prn.todo[1] /\ 1 \in DOMAIN prn.todo
      /\ \A i \in DOMAIN Tail(prn.todo) : i + 1 \in DOMAIN prn.todo /\ Tail(prn.todo)[i] = prn.todo[i + 1]
  BY <1>1, PruneTypes, TodoTail
<1>3. CASE file' = [file EXCEPT ![r] = IF @ = "there" THEN "gone" ELSE @] /\ Pruning("proof")
  <2>1. file[r] \in {"there", "gone"}
    BY <1>2, PruneTypes DEF PruneKnows
  <2>2. file' = [file EXCEPT ![r] = "gone"]
    BY <1>3, <2>1, Zenon
  <2>3. file' \in [Runs -> {"none", "there", "gone"}] /\ file'[r] = "gone" /\ \A s \in Runs \ {r} : file'[s] = file[s]
    BY <1>2, <2>2, PruneTypes
  <2>4. /\ prn' \in Prune
        /\ prn'.at = "proof" /\ prn'.proofs = prn.proofs /\ prn'.first = prn.first /\ prn'.todo = prn.todo
    BY <1>3, PruneTypes, Zenon DEF Prune, Pruning
  <2> HIDE DEF r
  <2>5. \A s \in Runs : file'[s] = file[s] \/ (file[s] = "there" /\ file'[s] = "gone")
    BY <2>1, <2>3
  <2>6. \A s \in Runs : (file[s] # "none" => file'[s] # "none") /\ (file[s] = "gone" => file'[s] = "gone")
    BY <2>3
  <2>7. PruneKnows'
    <3>1. \A i \in DOMAIN prn.todo : prn.todo[i] \in Runs
      BY PruneTypes
    <3>2. file'[Head(prn.todo)] = "gone"
      BY <2>3 DEF r
    <3>3. QED
      BY <1>1, <2>4, <2>6, <3>1, <3>2, PruneTypes, Zenon DEF PruneKnows
  <2>8. QED
    BY <1>1, <2>3, <2>4, <2>5, <2>7, PruneTypes, PruneStep
<1>4. CASE prn' = [prn EXCEPT !.todo = Tail(@)] /\ UNCHANGED file
  <2>1. /\ prn' \in Prune
        /\ prn'.at = "sweeping" /\ prn'.proofs = prn.proofs /\ prn'.first = prn.first /\ prn'.todo = Tail(prn.todo)
    BY <1>1, <1>2, <1>4, PruneTypes, Zenon DEF Prune
  <2>2. \A i \in DOMAIN Tail(prn.todo) : file[Tail(prn.todo)[i]] # "none"
    BY <1>2, PruneTypes, Zenon DEF PruneKnows
  <2>3. PruneKnows'
    BY <1>1, <1>4, <2>1, <2>2, PruneTypes, Zenon DEF PruneKnows
  <2>4. QED
    BY <1>1, <1>4, <2>1, <2>3, PruneTypes, PruneStep
<1>5. QED
  BY <1>3, <1>4 DEF PruneLedger

LEMMA PruneProofStep ==
  ASSUME Inv, PruneProof
  PROVE  Inv'
<1> DEFINE r == Head(prn.todo)
<1>1. /\ UNCHANGED <<alive, n, recorded, logKey, pin, anc, lock, file>> /\ prn.at = "proof"
      /\ side' = [side EXCEPT ![r] = <<>>] /\ prn' = [prn EXCEPT !.at = "sweeping", !.todo = Tail(@)]
  BY DEF PruneProof, runs
<1>2. prn.todo # <<>> /\ file[r] = "gone"
  BY <1>1, PruneTypes DEF PruneKnows
<1>3. /\ Tail(prn.todo) \in Seq(Runs) /\ r \in Runs /\ r = prn.todo[1] /\ 1 \in DOMAIN prn.todo
      /\ \A i \in DOMAIN Tail(prn.todo) : i + 1 \in DOMAIN prn.todo /\ Tail(prn.todo)[i] = prn.todo[i + 1]
  BY <1>2, PruneTypes, TodoTail
<1>4. side' \in [Runs -> Seq(Proofs)] /\ side'[r] = <<>> /\ \A s \in Runs \ {r} : side'[s] = side[s]
  BY <1>1, <1>3, PruneTypes
<1>5. /\ prn' \in Prune
      /\ prn'.at = "sweeping" /\ prn'.proofs = prn.proofs /\ prn'.first = prn.first /\ prn'.todo = Tail(prn.todo)
  BY <1>1, <1>3, PruneTypes, Zenon DEF Prune
<1> HIDE DEF r
<1>6. \A i \in DOMAIN Tail(prn.todo) : file[Tail(prn.todo)[i]] # "none"
  <2>1. \A i \in DOMAIN prn.todo : file[prn.todo[i]] # "none"
    BY PruneTypes, Zenon DEF PruneKnows
  <2>2. QED
    BY <1>3, <2>1, Zenon
<1>7. PruneKnows'
  BY <1>1, <1>5, <1>6, PruneTypes, Zenon DEF PruneKnows
<1>8. \A s \in Runs : side'[s] = side[s] \/ (side'[s] = <<>> /\ file'[s] = "gone")
  BY <1>1, <1>2, <1>4, Zenon
<1>9. QED
  BY <1>1, <1>4, <1>5, <1>7, <1>8, PruneTypes, PruneStep

LEMMA NotPruningStep ==
  ASSUME Inv, prn' = NotPruning
  PROVE  prn' \in Prune /\ PruneKnows'
<1> DEFINE none == [r \in {} |-> NoParent]
<1>1. none \in [{} -> Runs \cup {NoParent}] /\ DOMAIN none = {}
  OBVIOUS
<1>2. prn' = [at |-> "idle", ledgers |-> {}, proofs |-> {}, seen |-> {}, first |-> none, todo |-> <<>>]
  BY DEF NotPruning
<1> HIDE DEF none
<1>3. prn' \in Prune
  <2>1. none \in Listing
    BY <1>1, ListingType, Zenon
  <2>2. QED
    BY <1>2, <2>1 DEF Prune
<1>4. prn'.at = "idle" /\ DOMAIN prn'.first = {} /\ DOMAIN prn'.todo = {}
  BY <1>1, <1>2
<1>5. QED
  BY <1>3, <1>4, Zenon DEF PruneKnows

LEMMA PruneEndStep ==
  ASSUME Inv, PruneOrphans \/ PruneCrash
  PROVE  Inv'
<1>1. UNCHANGED <<alive, n, recorded, logKey, pin, anc, lock, file>> /\ prn' = NotPruning
  BY DEF PruneOrphans, PruneCrash, runs, anchors
<1>2. side' \in [Runs -> Seq(Proofs)]
  <2>1. CASE PruneOrphans
    <3>1. side' = [r \in Runs |-> IF r \in prn.proofs \ DOMAIN prn.first THEN <<>> ELSE side[r]]
      BY <2>1 DEF PruneOrphans
    <3>2. \A r \in Runs : side[r] \in Seq(Proofs) /\ <<>> \in Seq(Proofs)
      BY PruneTypes
    <3>3. QED
      BY <3>1, <3>2, Zenon
  <2>2. CASE PruneCrash
    BY <2>2, PruneTypes DEF PruneCrash, anchors
  <2>3. QED
    BY <2>1, <2>2
<1>3. \A s \in Runs : side'[s] = side[s] \/ (side'[s] = <<>> /\ file[s] = "gone")
  <2>1. CASE PruneOrphans
    BY <2>1, PruneTypes DEF PruneOrphans, PruneKnows
  <2>2. CASE PruneCrash
    BY <2>2 DEF PruneCrash, anchors
  <2>3. QED
    BY <2>1, <2>2
<1>4. QED
  BY <1>1, <1>2, <1>3, NotPruningStep, PruneTypes, PruneStep

-----------------------------------------------------------------------------
(* Anchoring, under .anchor.lock.                                           *)

LEMMA OthersIdle ==
  ASSUME Inv, NEW a \in Anchorers, anc[a].at # "idle" \/ lock = Nobody
  PROVE  \A b \in Anchorers \ {a} : anc[b].at = "idle"
  BY RunStoreAssumption, Zenon DEF Inv, Holds

(* A pass writes proofs and records of runs that have a ledger, proof first. *)
LEMMA AnchorStep ==
  ASSUME Inv, NEW a \in Anchorers, anc[a].at # "idle" \/ lock = Nobody,
         UNCHANGED <<alive, n, file, prn, logKey, pin>>, NEW pass \in Pass, anc' = [anc EXCEPT ![a] = pass],
         side' \in [Runs -> Seq(Proofs)], recorded' \subseteq Runs,
         \A r \in Runs : side'[r] = side[r] \/ (side'[r] # <<>> /\ file[r] # "none"),
         \A r \in recorded' : r \in recorded \/ (file[r] # "none" /\ (file[r] = "there" => side'[r] # <<>>)),
         anc'[a] = pass => Holds(a)'
  PROVE  Inv'
<1>1. anc' \in [Anchorers -> Pass] /\ anc'[a] = pass /\ \A b \in Anchorers \ {a} : anc'[b] = anc[b]
  BY DEF Inv, TypeOK
<1>2. TypeOK'
  BY <1>1 DEF Inv, TypeOK
<1>3. Begun'
  BY Zenon DEF Inv, Begun
<1>4. PruneKnows'
  BY Zenon DEF Inv, PruneKnows
<1>5. ASSUME NEW b \in Anchorers PROVE Holds(b)'
  <2>1. CASE b = a
    BY <1>1, <2>1, Zenon
  <2>2. CASE b # a
    <3>1. anc'[b] = anc[b] /\ anc[b].at = "idle"
      BY <1>1, <2>2, OthersIdle
    <3>2. QED
      BY <3>1, Zenon DEF Holds
  <2>3. QED
    BY <2>1, <2>2
<1>6. RecordedHasProof'
  BY Zenon DEF Inv, RecordedHasProof, There
<1>7. QED
  BY <1>2, <1>3, <1>4, <1>5, <1>6 DEF Inv

LEMMA PassTypes ==
  ASSUME Inv, NEW a \in Anchorers
  PROVE  /\ anc[a] \in Pass /\ Holds(a) /\ anc \in [Anchorers -> Pass]
         /\ side \in [Runs -> Seq(Proofs)] /\ recorded \subseteq Runs /\ n \in [Runs -> Nat] /\ logKey \in Nat /\ pin \in Nat
  BY DEF Inv, TypeOK

LEMMA AnchorStartStep ==
  ASSUME Inv, NEW a \in Anchorers, AnchorStart(a)
  PROVE  Inv'
<1>1. UNCHANGED <<alive, n, file, prn, logKey, pin, side, recorded>> /\ lock = Nobody /\ lock' = a
  BY Zenon DEF AnchorStart, runs
<1>2. PICK pass \in Pass : /\ anc' = [anc EXCEPT ![a] = pass] /\ pass.at = "next"
                           /\ pass.sweep => \A r \in pass.todo : side[r] = <<>>
  <2>1. CASE anc' = [anc EXCEPT ![a] = [Rest EXCEPT !.at = "next", !.todo = Candidates, !.pub = pin, !.sweep = TRUE]]
    <3> DEFINE pass == [Rest EXCEPT !.at = "next", !.todo = Candidates, !.pub = pin, !.sweep = TRUE]
    <3>1. Candidates \in SUBSET Runs /\ \A r \in Candidates : side[r] = <<>>
      BY DEF Candidates, There
    <3>2. pass \in Pass /\ pass.at = "next" /\ pass.todo = Candidates
      BY <3>1, PassTypes, Zenon DEF Rest, Pass
    <3>3. QED
      BY <2>1, <3>1, <3>2, Zenon
  <2>2. ASSUME NEW r \in Runs, anc' = [anc EXCEPT ![a] = [Rest EXCEPT !.at = "next", !.todo = {r}, !.pub = pin]]
        PROVE  \E pass \in Pass : /\ anc' = [anc EXCEPT ![a] = pass] /\ pass.at = "next"
                                  /\ pass.sweep => \A s \in pass.todo : side[s] = <<>>
    <3> DEFINE pass == [Rest EXCEPT !.at = "next", !.todo = {r}, !.pub = pin]
    <3>1. pass \in Pass /\ pass.at = "next" /\ pass.sweep = FALSE
      BY PassTypes, Zenon DEF Rest, Pass
    <3>2. QED
      BY <2>2, <3>1, Zenon
  <2>3. QED
    BY <2>1, <2>2, Zenon DEF AnchorStart
<1>3. anc'[a] = pass => Holds(a)'
  BY <1>1, <1>2, Zenon DEF Holds
<1>4. QED
  BY <1>1, <1>2, <1>3, PassTypes, AnchorStep, Zenon

(* A pass that ends, whatever ended it. *)
LEMMA StopStep ==
  ASSUME Inv, NEW a \in Anchorers, anc[a].at # "idle", Stopped(a),
         UNCHANGED <<alive, n, file, prn, logKey, pin, side, recorded>>
  PROVE  Inv'
<1>1. Rest \in Pass /\ Rest.at = "idle"
  BY DEF Rest, Pass
<1>2. anc' = [anc EXCEPT ![a] = Rest]
  BY DEF Stopped
<1>3. anc'[a] = Rest => Holds(a)'
  BY <1>1, Zenon DEF Holds
<1>4. QED
  BY <1>1, <1>2, <1>3, PassTypes, AnchorStep, Zenon

LEMMA StopSteps ==
  ASSUME Inv, NEW a \in Anchorers, AnchorDone(a) \/ AnchorStops(a)
  PROVE  Inv'
<1>1. anc[a].at # "idle" /\ Stopped(a) /\ UNCHANGED <<alive, n, file, prn, logKey, pin, side, recorded>>
  BY Zenon DEF AnchorDone, AnchorStops, Quiet, runs
<1>2. QED
  BY <1>1, StopStep

LEMMA AnchorReadStep ==
  ASSUME Inv, NEW a \in Anchorers, NEW r \in Runs, AnchorRead(a, r)
  PROVE  Inv'
<1>1. /\ UNCHANGED <<alive, n, file, prn, logKey, pin, side, recorded, lock>>
      /\ anc[a].at = "next" /\ r \in anc[a].todo
  BY DEF AnchorRead, Quiet, runs
<1>2. CASE anc' = [anc EXCEPT ![a].todo = @ \ {r}]
  <2> DEFINE pass == [anc[a] EXCEPT !.todo = @ \ {r}]
  <2>1. /\ pass \in Pass /\ pass.at = "next" /\ pass.todo = anc[a].todo \ {r} /\ pass.sweep = anc[a].sweep
        /\ anc' = [anc EXCEPT ![a] = pass]
    BY <1>1, <1>2, PassTypes, Zenon DEF Pass
  <2> HIDE DEF pass
  <2>2. anc'[a] = pass => Holds(a)'
    BY <1>1, <2>1, PassTypes, Zenon DEF Holds
  <2>3. QED
    BY <1>1, <2>1, <2>2, PassTypes, AnchorStep, Zenon
<1>3. CASE r \in There /\ anc' = [anc EXCEPT ![a].at = "submit", ![a].run = r, ![a].seq = n[r], ![a].todo = @ \ {r}]
  <2> DEFINE pass == [anc[a] EXCEPT !.at = "submit", !.run = r, !.seq = n[r], !.todo = @ \ {r}]
  <2>1. /\ pass \in Pass /\ pass.at = "submit" /\ pass.todo = anc[a].todo \ {r} /\ pass.sweep = anc[a].sweep
        /\ pass.run = r
    BY <1>1, PassTypes, Zenon DEF Pass
  <2>2. anc' = [anc EXCEPT ![a] = pass]
    BY <1>3, PassTypes, Zenon
  <2>3. file[r] # "none"
    BY <1>3 DEF There
  <2> HIDE DEF pass
  <2>4. anc'[a] = pass => Holds(a)'
    BY <1>1, <2>1, <2>3, PassTypes, Zenon DEF Holds
  <2>5. QED
    BY <1>1, <2>1, <2>2, <2>4, PassTypes, AnchorStep, Zenon
<1>4. QED
  BY <1>2, <1>3 DEF AnchorRead

LEMMA SubmitStep ==
  ASSUME Inv, NEW a \in Anchorers, Submit(a)
  PROVE  Inv'
<1>1. /\ UNCHANGED <<alive, n, file, prn, logKey, pin, side, recorded, lock>>
      /\ anc[a].at = "submit" /\ anc' = [anc EXCEPT ![a].at = "proof", ![a].key = logKey]
  BY DEF Submit, Quiet, runs
<1> DEFINE pass == [anc[a] EXCEPT !.at = "proof", !.key = logKey]
<1>2. /\ pass \in Pass /\ pass.at = "proof" /\ pass.todo = anc[a].todo /\ pass.sweep = anc[a].sweep
      /\ pass.run = anc[a].run
  BY PassTypes, Zenon DEF Pass
<1>3. anc' = [anc EXCEPT ![a] = pass]
  BY <1>1, PassTypes, Zenon
<1> HIDE DEF pass
<1>4. anc'[a] = pass => Holds(a)'
  <2>1. /\ lock = a /\ anc[a].run \in Runs /\ file[anc[a].run] # "none" /\ anc[a].run \notin anc[a].todo
        /\ anc[a].sweep => side[anc[a].run] = <<>> /\ \A r \in anc[a].todo : side[r] = <<>>
    BY <1>1, PassTypes DEF Holds
  <2>2. QED
    BY <1>1, <1>2, <2>1, Zenon DEF Holds
<1>5. QED
  BY <1>1, <1>2, <1>3, <1>4, PassTypes, AnchorStep, Zenon

LEMMA SubmitRefusedStep ==
  ASSUME Inv, NEW a \in Anchorers, SubmitRefused(a)
  PROVE  Inv'
<1>1. UNCHANGED <<alive, n, file, prn, logKey, pin, side, recorded>> /\ anc[a].at = "submit"
  BY DEF SubmitRefused, Quiet, runs
<1>2. CASE Stopped(a)
  BY <1>1, <1>2, StopStep
<1>3. CASE anc' = [anc EXCEPT ![a].at = "next", ![a].tries = @ + 1, ![a].again = TRUE] /\ UNCHANGED lock
  <2> DEFINE pass == [anc[a] EXCEPT !.at = "next", !.tries = @ + 1, !.again = TRUE]
  <2>1. pass \in Pass /\ pass.at = "next" /\ pass.todo = anc[a].todo /\ pass.sweep = anc[a].sweep
    <3>1. anc[a] \in Pass /\ anc[a].tries + 1 \in Nat
      BY PassTypes DEF Pass
    <3>2. QED
      BY <3>1, Zenon DEF Pass
  <2>2. anc' = [anc EXCEPT ![a] = pass]
    BY <1>3, PassTypes, Zenon
  <2> HIDE DEF pass
  <2>3. anc'[a] = pass => Holds(a)'
    <3>1. lock = a /\ (anc[a].sweep => \A r \in anc[a].todo : side[r] = <<>>)
      BY <1>1, PassTypes DEF Holds
    <3>2. QED
      BY <1>1, <1>3, <2>1, <3>1, Zenon DEF Holds
  <2>4. QED
    BY <1>1, <2>1, <2>2, <2>3, PassTypes, AnchorStep, Zenon
<1>4. QED
  BY <1>2, <1>3 DEF SubmitRefused

LEMMA ProofStep ==
  ASSUME Inv, NEW a \in Anchorers, Proof(a)
  PROVE  Inv'
<1> DEFINE r == anc[a].run
           rec == [seq |-> anc[a].seq, key |-> anc[a].key]
<1>1. /\ UNCHANGED <<alive, n, file, prn, logKey, pin, recorded, lock>>
      /\ anc[a].at = "proof" /\ anc' = [anc EXCEPT ![a].at = "record"]
      /\ side' = [side EXCEPT ![r] = Append(side[r], rec)]
  BY DEF Proof, Quiet, runs
<1>2. r \in Runs /\ file[r] # "none" /\ r \notin anc[a].todo /\ rec \in Proofs
  BY <1>1, PassTypes DEF Holds, Pass, Proofs
<1> HIDE DEF r, rec
<1>3. Append(side[r], rec) \in Seq(Proofs) /\ Append(side[r], rec) # <<>>
  <2>1. side[r] \in Seq(Proofs)
    BY <1>2, PassTypes
  <2>2. QED
    BY <1>2, <2>1
<1>4. side' \in [Runs -> Seq(Proofs)] /\ side'[r] # <<>> /\ \A s \in Runs \ {r} : side'[s] = side[s]
  BY <1>1, <1>2, <1>3, PassTypes
<1> DEFINE pass == [anc[a] EXCEPT !.at = "record"]
<1>5. /\ pass \in Pass /\ pass.at = "record" /\ pass.todo = anc[a].todo /\ pass.sweep = anc[a].sweep
      /\ pass.run = r
  BY PassTypes, Zenon DEF Pass, r
<1>6. anc' = [anc EXCEPT ![a] = pass]
  BY <1>1, PassTypes
<1> HIDE DEF pass
<1>7. anc'[a] = pass => Holds(a)'
  <2>1. \A s \in anc[a].todo : s \in Runs \ {r}
    BY <1>2, PassTypes DEF Pass
  <2>2. lock' = a /\ file' = file
    BY <1>1, PassTypes, Zenon DEF Holds
  <2>3. anc[a].sweep => \A s \in anc[a].todo : side'[s] = <<>>
    <3>1. anc[a].sweep => \A s \in anc[a].todo : side[s] = <<>>
      BY <1>1, PassTypes, Zenon DEF Holds
    <3>2. QED
      BY <1>4, <2>1, <3>1, Zenon
  <2>4. pass.at # "idle" /\ pass.at \notin {"submit", "proof"}
    BY <1>5
  <2>5. QED
    BY <1>2, <1>4, <1>5, <2>2, <2>3, <2>4, Zenon DEF Holds
<1>8. \A s \in Runs : side'[s] = side[s] \/ (side'[s] # <<>> /\ file[s] # "none")
  BY <1>2, <1>4, Zenon
<1>9. recorded' \subseteq Runs /\ recorded' = recorded
  BY <1>1, PassTypes
<1>10. anc[a].at # "idle"
  BY <1>1
<1>11. \A s \in recorded' : s \in recorded \/ (file[s] # "none" /\ (file[s] = "there" => side'[s] # <<>>))
  BY <1>9, Zenon
<1>12. QED
  BY <1>1, <1>4, <1>5, <1>6, <1>7, <1>8, <1>9, <1>10, <1>11, AnchorStep, Zenon

LEMMA RecordStep ==
  ASSUME Inv, NEW a \in Anchorers, Record(a)
  PROVE  Inv'
<1> DEFINE r == anc[a].run
<1>1. /\ UNCHANGED <<alive, n, file, prn, logKey, pin, side, lock>> /\ recorded' = recorded \cup {r}
      /\ anc[a].at = "record" /\ anc' = [anc EXCEPT ![a].at = "next", ![a].tries = @ + 1, ![a].again = FALSE]
  BY DEF Record, Quiet, runs
<1>2. r \in Runs /\ file[r] # "none" /\ (file[r] = "there" => side[r] # <<>>)
  BY <1>1, PassTypes DEF Holds
<1> DEFINE pass == [anc[a] EXCEPT !.at = "next", !.tries = @ + 1, !.again = FALSE]
<1>3. pass \in Pass /\ pass.at = "next" /\ pass.todo = anc[a].todo /\ pass.sweep = anc[a].sweep
  <2>1. anc[a] \in Pass /\ anc[a].tries + 1 \in Nat
    BY PassTypes DEF Pass
  <2>2. QED
    BY <2>1, Zenon DEF Pass
<1>4. anc' = [anc EXCEPT ![a] = pass]
  BY <1>1, PassTypes, Zenon
<1> HIDE DEF pass, r
<1>5. anc'[a] = pass => Holds(a)'
  <2>1. lock = a /\ (anc[a].sweep => \A s \in anc[a].todo : side[s] = <<>>)
    BY <1>1, PassTypes DEF Holds
  <2>2. QED
    BY <1>1, <1>3, <2>1, Zenon DEF Holds
<1>6. recorded' \subseteq Runs
  BY <1>1, <1>2, PassTypes
<1>7. \A s \in recorded' : s \in recorded \/ (file[s] # "none" /\ (file[s] = "there" => side'[s] # <<>>))
  BY <1>1, <1>2
<1>8. QED
  BY <1>1, <1>3, <1>4, <1>5, <1>6, <1>7, PassTypes, AnchorStep, Zenon

-----------------------------------------------------------------------------
(* The theorems.                                                            *)

LEMMA InitInv ==
  ASSUME Init
  PROVE  Inv
<1> DEFINE none == [r \in {} |-> NoParent]
<1>1. none \in [{} -> Runs \cup {NoParent}] /\ DOMAIN none = {}
  OBVIOUS
<1>2. none \in Listing
  BY <1>1, ListingType, Zenon
<1>3. prn = [at |-> "idle", ledgers |-> {}, proofs |-> {}, seen |-> {}, first |-> none, todo |-> <<>>]
  BY DEF Init, NotPruning
<1> HIDE DEF none
<1>4. prn \in Prune /\ prn.at = "idle" /\ DOMAIN prn.first = {} /\ DOMAIN prn.todo = {}
  BY <1>1, <1>2, <1>3 DEF Prune
<1>5. Rest \in Pass /\ Rest.at = "idle"
  BY DEF Rest, Pass
<1>6. TypeOK
  BY <1>4, <1>5 DEF Init, TypeOK
<1>7. Begun /\ RecordedHasProof
  BY DEF Init, Begun, RecordedHasProof
<1>8. PruneKnows
  BY <1>4, Zenon DEF PruneKnows
<1>9. \A a \in Anchorers : Holds(a)
  <2>1. \A a \in Anchorers : anc[a].at = "idle"
    BY <1>5 DEF Init
  <2>2. QED
    BY <2>1, Zenon DEF Holds
<1>10. QED
  BY <1>6, <1>7, <1>8, <1>9 DEF Inv

LEMMA NextInv ==
  ASSUME Inv, [Next]_vars
  PROVE  Inv'
<1>1. ASSUME NEW r \in Runs, Start(r) \/ Emit(r) \/ Name(r) \/ End(r) \/ Break(r) \/ PruneRoot(r) PROVE Inv'
  BY <1>1, StartStep, RunsStep, PruneRootStep, Zenon
<1>2. CASE PruneList \/ PruneParents \/ PruneLedger \/ PruneProof \/ PruneOrphans \/ PruneCrash
  BY <1>2, PruneListStep, PruneParentsStep, PruneLedgerStep, PruneProofStep, PruneEndStep, Zenon
<1>3. ASSUME NEW a \in Anchorers,
             \/ AnchorStart(a) \/ AnchorDone(a) \/ Submit(a) \/ SubmitRefused(a)
             \/ Proof(a) \/ Record(a) \/ AnchorStops(a)
             \/ \E r \in Runs : AnchorRead(a, r)
      PROVE  Inv'
  BY <1>3, AnchorStartStep, StopSteps, SubmitStep, SubmitRefusedStep, ProofStep, RecordStep, AnchorReadStep, Zenon
<1>4. CASE Age \/ Rekey \/ UNCHANGED vars
  BY <1>4, IdleStep
<1>5. QED
  BY <1>1, <1>2, <1>3, <1>4, Zenon DEF Next

(* The inductive invariant holds of every behaviour of the runs, `runs     *)
(* prune` and `audit anchor` (pruneRuns, anchor_runs.go, internal/sidecar). *)
THEOREM RunStoreInvariance == Spec => []Inv
<1>1. Init => Inv
  BY InitInv
<1>2. Inv /\ [Next]_vars => Inv'
  BY NextInv
<1>3. QED
  BY <1>1, <1>2, PTL DEF Spec

(* A run on the control ledger as anchored keeps its proof while its       *)
(* ledger is there, whatever prunes race the anchoring: pruneRuns takes no *)
(* lock, and its listing is old when it acts on it.                        *)
THEOREM ProofsAreKept == Spec => []RecordedHasProof
<1>1. Inv => RecordedHasProof
  BY DEF Inv
<1>2. QED
  BY <1>1, RunStoreInvariance, PTL

(* Overlapping sweeps file no run that has a proof, and no two passes hold *)
(* one run (.anchor.lock spans the candidates and every write).            *)
THEOREM SweepsFileOnce == Spec => []SweepFilesOnce
<1>1. Inv => SweepFilesOnce
  <2> SUFFICES ASSUME Inv, NEW a \in Anchorers, anc[a].at \in {"submit", "proof"}
               PROVE  /\ anc[a].sweep => side[anc[a].run] = <<>>
                      /\ \A b \in Anchorers \ {a} : anc[b].at \in {"submit", "proof"} => anc[b].run # anc[a].run
    BY Zenon DEF SweepFilesOnce
  <2>1. anc[a].at # "idle"
    OBVIOUS
  <2>2. \A b \in Anchorers \ {a} : anc[b].at = "idle"
    BY <2>1, OthersIdle
  <2>3. anc[a].sweep => side[anc[a].run] = <<>>
    BY Zenon DEF Inv, Holds
  <2>4. QED
    BY <2>2, <2>3
<1>2. QED
  BY <1>1, RunStoreInvariance, PTL

=============================================================================
