----------------------------- MODULE MCRunStore -----------------------------
(***************************************************************************)
(* RunStore on a run that spawns another, and two anchoring processes.     *)
(***************************************************************************)
EXTENDS RunStore, TLC

CONSTANTS root, child

Symmetric == Permutations(Anchorers)
MCParent == [r \in Runs |-> IF r = child THEN root ELSE NoParent]
=============================================================================
