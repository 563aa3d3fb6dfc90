------------------------------ MODULE MCServe ------------------------------
(***************************************************************************)
(* Serve on small sets of requests and run ids.                            *)
(***************************************************************************)
EXTENDS Serve
=============================================================================
