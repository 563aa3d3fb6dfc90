---------------------------- MODULE MCRunEngine ----------------------------
(* Small workflows, one bounce per step: two fronted steps, the second     *)
(* bouncing to the first; a local step behind a fronted one; and three     *)
(* steps of which the last, the only fronted one, bounces over the second. *)
EXTENDS RunEngine, TLC

StepDef(onFailure, fronted) == [onFailure |-> onFailure, maxBounces |-> 1, fronted |-> fronted]

TwoSteps == {<<StepDef(NoStep, TRUE), StepDef(NoStep, f)>> : f \in BOOLEAN}
ThreeSteps == {<<StepDef(NoStep, FALSE), StepDef(NoStep, FALSE), StepDef(1, TRUE)>>}
SomeSteps == {<<StepDef(NoStep, TRUE), StepDef(NoStep, TRUE)>>} \cup ThreeSteps

Symmetry == Permutations(Calls)
=============================================================================
