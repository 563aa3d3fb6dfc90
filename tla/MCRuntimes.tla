----------------------------- MODULE MCRuntimes -----------------------------
(***************************************************************************)
(* Two children, one of them asked for in three ways: alone, with an agent *)
(* whose compartment name is a sibling's ("r-1" with "a-b" and "r-1-a"     *)
(* with "b"), and with two agents, which do not fit beside the other       *)
(* child.  A third id ends in the exec directory's suffix.                 *)
(***************************************************************************)
EXTENDS Runtimes

MCRequests == {"one", "two", "clash", "pair", "suffix"}
MCChild == [q \in MCRequests |-> CASE q = "one" -> "r1" [] q = "suffix" -> "r1-exec" [] OTHER -> "r2"]
MCAgents == [q \in MCRequests |->
               CASE q = "clash" -> {"b"} [] q = "pair" -> {"a", "c"} [] OTHER -> {"a"}]
MCIds == {"r1", "r2", "r1-exec"}
MCName == [p \in MCIds \X {"a", "b", "c"} |-> IF p = <<"r2", "b">> THEN <<"r1", "a">> ELSE p]
MCExec == [i \in MCIds |-> <<i, "run">>]
MCChildDir == [i \in MCIds |-> i]
MCExecDir == [i \in MCIds |->
                CASE i = "r1" -> "r1-exec" [] i = "r2" -> "r2-exec" [] OTHER -> "r1-exec-exec"]
=============================================================================
