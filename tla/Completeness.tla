---------------------------- MODULE Completeness ----------------------------
(***************************************************************************)
(* internal/completeness: whether the events of a verified run ledger      *)
(* account for themselves.  An event keeps what the judgement reads: its   *)
(* type (the four door types are one, "door"), the step it names, the      *)
(* status of a workflow_finished, the door_calls of a step's terminal      *)
(* (NoCount when the field is absent) and the accounting marker of a       *)
(* workflow_started.                                                       *)
(***************************************************************************)
EXTENDS Integers, Sequences, FiniteSets

NoCount == -1
NoStep == 0

StepTerminals == {"step_succeeded", "step_failed"}

EventTypes == StepTerminals \cup
  {"run_refused", "workflow_started", "step_started", "bounced_back", "workflow_finished", "door", "other"}

(* The engine's workflow_finished sites as a table. *)
terminalConsistent(status, prev) ==
  \/ status = "succeeded" /\ prev = "step_succeeded"
  \/ status = "failed" /\ prev = "step_failed"
  \/ status = "cancelled" /\ prev \in StepTerminals \cup {"workflow_started", "bounced_back"}

(* Mutant: only a window that holds more door events than its terminal says is refused. *)
Mut_CountsDiffer(e, w) == e.doors < w.doors

CountsDiffer(e, w) == e.doors # w.doors

(* The open step's window w (open, doors), the last lifecycle event before *)
(* e (prev), and what e may not do there.                                  *)
Violates(w, e, last) ==
  \/ e.type = "door" /\ w.open = NoStep
  \/ e.type = "step_started" /\ w.open # NoStep
  \/ e.type \in StepTerminals /\ (w.open # e.step \/ CountsDiffer(e, w))
  \/ e.type = "bounced_back" /\ (w.open # NoStep \/ w.prev # "step_failed")
  \/ e.type = "workflow_finished" /\ (~last \/ w.open # NoStep \/ ~terminalConsistent(e.status, w.prev))
  \/ e.type \in {"run_refused", "workflow_started", "other"}

Advance(w, e, last) ==
  [ok    |-> w.ok /\ ~Violates(w, e, last),
   open  |-> IF e.type = "step_started" THEN e.step ELSE IF e.type \in StepTerminals THEN NoStep ELSE w.open,
   doors |-> IF e.type = "step_started" THEN 0 ELSE w.doors + (IF e.type = "door" THEN 1 ELSE 0),
   prev  |-> IF e.type = "door" THEN w.prev ELSE e.type]

(* The walk over the events after the first. *)
Windows(es) ==
  LET w[k \in DOMAIN es] ==
        IF k = 1 THEN [ok |-> TRUE, open |-> NoStep, doors |-> 0, prev |-> "workflow_started"]
        ELSE Advance(w[k - 1], es[k], k = Len(es))
  IN  w[Len(es)]

Check(es) ==
  IF es = <<>> THEN "unterminated"
  ELSE IF es[1].type = "run_refused" THEN IF Len(es) = 1 THEN "complete" ELSE "gap"
  ELSE IF es[1].type # "workflow_started" THEN "gap"
  ELSE IF es[Len(es)].type # "workflow_finished" THEN "unterminated"
  ELSE IF ~es[1].marker
       THEN IF \E k \in DOMAIN es : es[k].type \in StepTerminals /\ es[k].doors # NoCount
            THEN "gap" ELSE "no-claim"
  ELSE IF Windows(es).ok THEN "complete" ELSE "gap"
=============================================================================
