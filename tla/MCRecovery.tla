----------------------------- MODULE MCRecovery -----------------------------
(* Recovery on two ordinals. *)
EXTENDS Recovery
=============================================================================
