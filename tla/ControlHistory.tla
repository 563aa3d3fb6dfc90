--------------------------- MODULE ControlHistory ---------------------------
(***************************************************************************)
(* What the control ledger promises, with no files in it: one chain of     *)
(* records that only grows at its end, in which every record carries its   *)
(* position and the hash of the record before it, and from which a suffix  *)
(* is taken away only behind a seal and only once it is preserved          *)
(* elsewhere.  ControlLedger implements it with a set of segment files, a  *)
(* manifest and advisory locks.                                            *)
(*                                                                         *)
(* The hash of a record is modelled by its uid: every record written is    *)
(* given a fresh one, so that equal hashes mean equal records.             *)
(***************************************************************************)
EXTENDS Integers, Sequences

VARIABLES
  log,     \* the records of the chain, oldest first
  aside    \* the uids of the records preserved in torn fragments

Acts == {"event", "seal", "repair", "older"}

Line == [seq : Nat, prev : Nat, uid : Nat, act : Acts, seg : Nat, worm : BOOLEAN]

Uids(ls) == {ls[k].uid : k \in DOMAIN ls}

HeadUid(ls) == IF ls = <<>> THEN 0 ELSE ls[Len(ls)].uid

Init == log = <<>> /\ aside = {}

(* A record extends the chain: the next position, the current head as prev, *)
(* and a hash no earlier record has.                                        *)
Extend == /\ Len(log') = Len(log) + 1
          /\ SubSeq(log', 1, Len(log)) = log
          /\ LET l == log'[Len(log')]
             IN  /\ l.seq = Len(log) + 1
                 /\ l.prev = HeadUid(log)
                 /\ l.uid \notin Uids(log) \cup aside \cup {0}
          /\ UNCHANGED aside

(* Records at the end of the chain are copied into a fragment. *)
Preserve == \E k \in 0..Len(log) :
              /\ aside' = aside \cup Uids(SubSeq(log, k + 1, Len(log)))
              /\ UNCHANGED log

(* What follows a seal is cut off, once it is preserved. *)
Cut == \E k \in DOMAIN log :
         /\ log[k].act = "seal"
         /\ Uids(SubSeq(log, k + 1, Len(log))) \subseteq aside
         /\ log' = SubSeq(log, 1, k)
         /\ UNCHANGED aside

Next == Extend \/ Preserve \/ Cut

Spec == Init /\ [][Next]_<<log, aside>>
=============================================================================
