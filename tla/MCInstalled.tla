---------------------------- MODULE MCInstalled ----------------------------
(* Installed with a configuration that both invokers may change and its    *)
(* flip, one that only the first may, and one that would lock everybody    *)
(* out.                                                                    *)
EXTENDS Installed, TLC

CONSTANTS both, off, alone, locked, i1, i2

MCConfigs == {both, alone, locked}
MCFlipConfigs == {both, off}
MCInvokers == {i1, i2}
MCOneInvoker == {i1}
MCGrants == [c \in Configs |-> CASE c \in {both, off} -> Invokers
                              [] c = alone -> {i1}
                              [] OTHER -> {}]
MCFlipped == [c \in Configs |-> CASE c = both /\ off \in Configs -> off
                               [] c = off -> both
                               [] OTHER -> c]

Symmetry == Permutations(Procs)
=============================================================================
