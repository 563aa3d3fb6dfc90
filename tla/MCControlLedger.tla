-------------------------- MODULE MCControlLedger --------------------------
(* ControlLedger on small sets of processes. *)
EXTENDS ControlLedger, TLC

Symmetry == Permutations(Procs)
=============================================================================
