--------------------------- MODULE RunLedgerProofs ---------------------------
(***************************************************************************)
(* What holds of the ledger of every run, for any workflow, any number of  *)
(* requests at its doors and any number of failed writes: a ledger that    *)
(* reads complete is honest, a run without a failed write reads complete,  *)
(* and the result Run returns is what it recorded.                         *)
(***************************************************************************)
EXTENDS RunEngineProofs, WellFoundedInduction

-----------------------------------------------------------------------------
(* The inductive invariants.                                                *)

(* The count the open step's terminal will carry, were it written now. *)
Stamp == IF Serving \/ pc = "wait" THEN doorCalls ELSE IF pc = "start" THEN 0 ELSE counted

Window == [ok : BOOLEAN, open : Nat, doors : Nat, prev : EventTypes]

(* What the completeness check makes of the events so far. *)
W == Windows(disk.events)

Balance ==
  /\ W \in Window
  /\ pc \in InStep => W.open = i /\ (W.ok => W.doors + Cardinality(Missing) = Stamp)
  /\ pc \in {"top", "begin", "failed", "end"} => W.open = NoStep /\ (W.ok => Missing = {})
  /\ pc = "top" => W.prev \in {"workflow_started", "step_succeeded", "bounced_back"}
  /\ pc = "top" /\ i > N => W.prev = "step_succeeded"
  /\ pc = "failed" => W.prev = "step_failed"
  /\ pc = "end" => terminalConsistent(fin, W.prev)

Account ==
  /\ disk.events # <<>> /\ disk.events[1].type = "workflow_started" /\ disk.events[1].marker
  /\ Balance

Complete == Check(disk.events) = "complete"

(* What a run without a fault adds. *)
Clean ==
  faults = 0 =>
    /\ disk.tail = "clean" /\ ~logErr /\ pc # "dead"
    /\ Missing \subseteq In(Unwritten)
    /\ pc \in Running \ {"open"} => W.ok
    /\ pc = "over" /\ disk.events # <<>> => Complete

Honest == Verified /\ Complete => Missing = {}

Accounts == (Walking => Account) /\ Clean /\ Honest

Matches(e) ==
  \/ e.type = "run_refused" /\ result.status = "refused"
  \/ e.type = "workflow_finished" /\ result.status = e.status

Returned ==
  pc = "over" /\ Verified /\ disk.events # <<>> /\ ~result.err => Matches(disk.events[Len(disk.events)])

-----------------------------------------------------------------------------
(* The completeness check's walk over the events, an event at a time.       *)

LEMMA Least ==
  ASSUME NEW T, T \subseteq Nat, T # {}
  PROVE  \E x \in T : \A y \in T : x <= y
<1> DEFINE Less == {ss \in Nat \X Nat : ss[1] < ss[2]}
<1>1. IsWellFoundedOn(Less, Nat)
  BY NatLessThanWellFounded, Zenon DEF OpToRel
<1>2. PICK x \in T : \A y \in T : ~(<<y, x>> \in Less)
  <2> HIDE DEF Less
  <2>1. QED
    BY <1>1, WFMin, Zenon
<1>3. ASSUME NEW y \in T PROVE x <= y
  <2>1. x \in Nat /\ y \in Nat /\ ~(<<y, x>> \in Less)
    BY <1>2
  <2>2. ~(y < x)
    BY <2>1
  <2>3. QED
    BY <2>1, <2>2
<1>4. QED
  BY <1>3

Start == [ok |-> TRUE, open |-> NoStep, doors |-> 0, prev |-> "workflow_started"]
StepOf(es, w, k) == IF k = 1 THEN Start ELSE Advance(w[k - 1], es[k], k = Len(es))
Walks(es, w, m) == w = [k \in 1..m |-> StepOf(es, w, k)]

LEMMA WalksExist ==
  ASSUME NEW es, NEW n \in Nat
  PROVE  \E w : Walks(es, w, n)
<1> DEFINE T == {m \in Nat : ~(\E w : Walks(es, w, m))}
<1>1. SUFFICES ASSUME T # {} PROVE FALSE
  BY Zenon
<1>2. PICK m \in T : \A y \in T : m <= y
  <2>1. T \subseteq Nat
    BY Zenon
  <2> HIDE DEF T
  <2>2. QED
    BY <1>1, <2>1, Least, Zenon
<1>3. m \in Nat /\ ~(\E w : Walks(es, w, m))
  BY <1>2, Zenon
<1>4. CASE m = 0
  <2> DEFINE w0 == [k \in 1..0 |-> Start]
  <2>1. w0 = [k \in 1..0 |-> StepOf(es, w0, k)]
    <3>1. \A k \in 1..0 : FALSE
      OBVIOUS
    <3>2. QED
      BY <3>1, Zenon
  <2>2. QED
    BY <1>3, <1>4, <2>1, Zenon DEF Walks
<1>5. CASE m # 0
  <2>1. m - 1 \in Nat /\ ~(m <= m - 1)
    BY <1>3, <1>5
  <2>2. m - 1 \notin T
    BY <1>2, <2>1, Zenon
  <2>3. PICK w : Walks(es, w, m - 1)
    BY <2>1, <2>2, Zenon
  <2>4. \A k \in 1..(m - 1) : w[k] = StepOf(es, w, k)
    BY <2>3, Zenon DEF Walks
  <2> DEFINE v == [k \in 1..m |-> IF k = m THEN StepOf(es, w, m) ELSE w[k]]
  <2>5. \A k \in 1..m : k # m => k \in 1..(m - 1)
    BY <1>3
  <2>6. \A k \in 1..m : k # 1 => k - 1 \in 1..m /\ k - 1 # m
    BY <1>3
  <2>7. \A k \in 1..m : k # 1 => v[k - 1] = w[k - 1]
    BY <2>6, Zenon
  <2>8. \A k \in 1..m : StepOf(es, v, k) = StepOf(es, w, k)
    <3> HIDE DEF v
    <3>1. QED
      BY <2>7, Zenon DEF StepOf
  <2>9. \A k \in 1..m : (IF k = m THEN StepOf(es, w, m) ELSE w[k]) = StepOf(es, w, k)
    BY <2>4, <2>5, Zenon
  <2>10. v = [k \in 1..m |-> StepOf(es, v, k)]
    <3>1. v = [k \in 1..m |-> StepOf(es, w, k)]
      BY <2>9, Zenon
    <3> HIDE DEF v
    <3>2. QED
      BY <2>8, <3>1, Zenon
  <2>11. QED
    BY <1>3, <2>10, Zenon DEF Walks
<1>6. QED
  BY <1>4, <1>5, Zenon

LEMMA WindowsAre ==
  ASSUME NEW es \in Seq(Ev)
  PROVE  \E w : Walks(es, w, Len(es)) /\ Windows(es) = w[Len(es)]
<1> DEFINE w == CHOOSE u : Walks(es, u, Len(es))
<1>1. Walks(es, w, Len(es))
  <2>1. Len(es) \in Nat
    OBVIOUS
  <2>2. QED
    BY <2>1, WalksExist, Zenon
<1>2. Windows(es) = w[Len(es)]
  <2>1. DOMAIN es = 1..Len(es)
    OBVIOUS
  <2>2. QED
    BY <2>1, Zenon DEF Windows, Walks, StepOf, Start
<1>3. QED
  BY <1>1, <1>2, Zenon

LEMMA WindowsFirst ==
  ASSUME NEW e \in Ev
  PROVE  Windows(<<e>>) = Start
<1>1. <<e>> \in Seq(Ev) /\ Len(<<e>>) = 1
  OBVIOUS
<1>2. PICK w : Walks(<<e>>, w, 1) /\ Windows(<<e>>) = w[1]
  BY <1>1, WindowsAre, Zenon
<1>3. 1 \in 1..1
  OBVIOUS
<1>4. w[1] = StepOf(<<e>>, w, 1)
  BY <1>2, <1>3, Zenon DEF Walks
<1>5. QED
  BY <1>2, <1>4, Zenon DEF StepOf

LEMMA AdvanceWithin ==
  ASSUME NEW w, NEW e, e.type # "workflow_finished", NEW a \in BOOLEAN, NEW b \in BOOLEAN
  PROVE  Advance(w, e, a) = Advance(w, e, b)
<1>1. Violates(w, e, a) <=> Violates(w, e, b)
  BY Zenon DEF Violates
<1>2. QED
  BY <1>1, Zenon DEF Advance

(* As long as the run is not finished, one more event advances the walk by *)
(* one step.                                                               *)
LEMMA WindowsAppend ==
  ASSUME NEW es \in Seq(Ev), es # <<>>, NEW e \in Ev,
         \A k \in DOMAIN es : es[k].type # "workflow_finished"
  PROVE  Windows(Append(es, e)) = Advance(Windows(es), e, TRUE)
<1> DEFINE n == Len(es)
           fs == Append(es, e)
<1>1. /\ n \in Nat /\ n # 0 /\ n \in 1..n /\ n + 1 \in 1..(n + 1) /\ n + 1 # 1 /\ (n + 1) - 1 = n
      /\ fs \in Seq(Ev) /\ Len(fs) = n + 1 /\ fs[n + 1] = e
      /\ \A k \in 1..n : k \in DOMAIN es /\ fs[k] = es[k] /\ k \in 1..(n + 1) /\ k \in Nat
      /\ \A k \in 1..n : k # 1 => k - 1 \in 1..n /\ ~(k <= k - 1)
  OBVIOUS
<1>2. PICK f : Walks(es, f, n) /\ Windows(es) = f[n]
  BY WindowsAre, Zenon
<1> HIDE DEF n, fs
<1>3. PICK g : Walks(fs, g, n + 1) /\ Windows(fs) = g[n + 1]
  <2>1. \E g : Walks(fs, g, Len(fs)) /\ Windows(fs) = g[Len(fs)]
    BY <1>1, WindowsAre, Zenon
  <2>2. QED
    BY <1>1, <2>1, Zenon
<1>4. \A k \in 1..n : f[k] = StepOf(es, f, k)
  BY <1>2, Zenon DEF Walks
<1>5. \A k \in 1..(n + 1) : g[k] = StepOf(fs, g, k)
  BY <1>3, Zenon DEF Walks
<1>6. \A k \in 1..n : g[k] = f[k]
  <2> DEFINE T == {k \in 1..n : g[k] # f[k]}
  <2>1. SUFFICES ASSUME T # {} PROVE FALSE
    BY Zenon
  <2>2. PICK k \in T : \A y \in T : k <= y
    <3>1. T \subseteq Nat
      BY <1>1, Zenon
    <3> HIDE DEF T
    <3>2. QED
      BY <2>1, <3>1, Least, Zenon
  <2>3. k \in 1..n /\ g[k] # f[k]
    BY <2>2, Zenon
  <2>4. g[k] = StepOf(fs, g, k) /\ f[k] = StepOf(es, f, k) /\ fs[k] = es[k] /\ es[k].type # "workflow_finished"
    BY <1>1, <1>4, <1>5, <2>3, Zenon
  <2>5. CASE k = 1
    BY <2>3, <2>4, <2>5, Zenon DEF StepOf
  <2>6. CASE k # 1
    <3>1. k - 1 \in 1..n /\ ~(k <= k - 1)
      BY <1>1, <2>3, <2>6, Zenon
    <3>2. g[k - 1] = f[k - 1]
      BY <2>2, <3>1, Zenon
    <3>3. g[k] = Advance(f[k - 1], es[k], k = Len(fs)) /\ f[k] = Advance(f[k - 1], es[k], k = Len(es))
      BY <2>4, <2>6, <3>2, Zenon DEF StepOf
    <3>4. Advance(f[k - 1], es[k], k = Len(fs)) = Advance(f[k - 1], es[k], k = Len(es))
      BY <2>4, AdvanceWithin, Zenon
    <3>5. QED
      BY <2>3, <3>3, <3>4, Zenon
  <2>7. QED
    BY <2>5, <2>6, Zenon
<1>7. g[n + 1] = Advance(g[n], e, (n + 1) = Len(fs))
  BY <1>1, <1>5, Zenon DEF StepOf
<1>8. QED
  BY <1>1, <1>2, <1>3, <1>6, <1>7, Zenon DEF fs

(* What an event does to the open window, by its type. *)
LEMMA AdvanceFields ==
  ASSUME NEW w \in Window, NEW e \in Ev
  PROVE  /\ Advance(w, e, TRUE) \in Window
         /\ Advance(w, e, TRUE).ok <=> w.ok /\ ~Violates(w, e, TRUE)
         /\ Advance(w, e, TRUE).open =
              IF e.type = "step_started" THEN e.step ELSE IF e.type \in StepTerminals THEN NoStep ELSE w.open
         /\ Advance(w, e, TRUE).doors =
              IF e.type = "step_started" THEN 0 ELSE w.doors + (IF e.type = "door" THEN 1 ELSE 0)
         /\ Advance(w, e, TRUE).prev = IF e.type = "door" THEN w.prev ELSE e.type
<1> DEFINE o == w.ok /\ ~Violates(w, e, TRUE)
           p == IF e.type = "step_started" THEN e.step ELSE IF e.type \in StepTerminals THEN NoStep ELSE w.open
           d == IF e.type = "step_started" THEN 0 ELSE w.doors + (IF e.type = "door" THEN 1 ELSE 0)
           q == IF e.type = "door" THEN w.prev ELSE e.type
<1>1. o \in BOOLEAN
  BY Zenon
<1>2. p \in Nat /\ d \in Nat /\ q \in EventTypes
  <2>1. w.open \in Nat /\ w.doors \in Nat /\ w.prev \in EventTypes /\ e.step \in Nat /\ e.type \in EventTypes
        /\ NoStep \in Nat
    BY Zenon DEF Window, Ev, NoStep
  <2>2. 0 \in Nat /\ w.doors + 1 \in Nat /\ w.doors + 0 \in Nat
    BY <2>1
  <2>3. QED
    BY <2>1, <2>2, Zenon
<1> DEFINE v == [ok |-> o, open |-> p, doors |-> d, prev |-> q]
<1>3. Advance(w, e, TRUE) = v
  BY Zenon DEF Advance
<1> HIDE DEF o, p, d, q
<1>4. v \in Window /\ v.ok = o /\ v.open = p /\ v.doors = d /\ v.prev = q
  <2>1. \A a \in BOOLEAN, b \in Nat, c \in Nat, t \in EventTypes :
          [ok |-> a, open |-> b, doors |-> c, prev |-> t] \in Window
    BY DEF Window
  <2>2. v \in Window
    BY <1>1, <1>2, <2>1, Zenon
  <2>3. QED
    BY <2>2, Zenon
<1> HIDE DEF v
<1>5. QED
  BY <1>3, <1>4, Zenon DEF o, p, d, q

LEMMA AdvanceStart ==
  ASSUME NEW w \in Window, NEW e \in Ev, e.type = "step_started", w.open = NoStep
  PROVE  /\ Advance(w, e, TRUE) \in Window /\ (w.ok => Advance(w, e, TRUE).ok)
         /\ Advance(w, e, TRUE).open = e.step /\ Advance(w, e, TRUE).doors = 0
         /\ Advance(w, e, TRUE).ok => w.ok
<1>1. ~Violates(w, e, TRUE)
  BY Zenon DEF Violates, StepTerminals
<1>2. QED
  BY <1>1, AdvanceFields, Zenon

LEMMA AdvanceTerminal ==
  ASSUME NEW w \in Window, NEW e \in Ev, e.type \in StepTerminals
  PROVE  /\ Advance(w, e, TRUE) \in Window
         /\ Advance(w, e, TRUE).ok <=> w.ok /\ w.open = e.step /\ e.doors = w.doors
         /\ Advance(w, e, TRUE).open = NoStep /\ Advance(w, e, TRUE).prev = e.type
<1>1. Violates(w, e, TRUE) <=> w.open # e.step \/ e.doors # w.doors
  BY Zenon DEF Violates, StepTerminals, CountsDiffer
<1>2. e.type # "step_started" /\ e.type # "door"
  BY Zenon DEF StepTerminals
<1>3. /\ Advance(w, e, TRUE) \in Window
      /\ Advance(w, e, TRUE).ok <=> w.ok /\ ~Violates(w, e, TRUE)
  BY AdvanceFields, Zenon
<1>4. Advance(w, e, TRUE).open = NoStep
  BY <1>2, AdvanceFields, Zenon
<1>5. Advance(w, e, TRUE).prev = e.type
  BY <1>2, AdvanceFields, Zenon
<1>6. QED
  BY <1>1, <1>3, <1>4, <1>5, Zenon

LEMMA AdvanceBounce ==
  ASSUME NEW w \in Window, NEW e \in Ev, e.type = "bounced_back", w.open = NoStep, w.prev = "step_failed"
  PROVE  /\ Advance(w, e, TRUE) \in Window /\ (w.ok <=> Advance(w, e, TRUE).ok)
         /\ Advance(w, e, TRUE).open = NoStep /\ Advance(w, e, TRUE).prev = "bounced_back"
<1>1. ~Violates(w, e, TRUE)
  BY Zenon DEF Violates, StepTerminals
<1>2. e.type # "step_started" /\ e.type # "door" /\ e.type \notin StepTerminals
  BY Zenon DEF StepTerminals
<1>3. QED
  BY <1>1, <1>2, AdvanceFields, Zenon

LEMMA AdvanceFinish ==
  ASSUME NEW w \in Window, NEW e \in Ev, e.type = "workflow_finished", w.open = NoStep,
         terminalConsistent(e.status, w.prev)
  PROVE  w.ok <=> Advance(w, e, TRUE).ok
<1>1. ~Violates(w, e, TRUE)
  BY Zenon DEF Violates, StepTerminals
<1>2. QED
  BY <1>1, AdvanceFields, Zenon

LEMMA AdvanceDoor ==
  ASSUME NEW w \in Window, NEW e \in Ev, e.type = "door", w.open # NoStep
  PROVE  /\ Advance(w, e, TRUE) \in Window /\ (w.ok <=> Advance(w, e, TRUE).ok)
         /\ Advance(w, e, TRUE).open = w.open /\ Advance(w, e, TRUE).doors = w.doors + 1
         /\ Advance(w, e, TRUE).prev = w.prev
<1>1. ~Violates(w, e, TRUE)
  BY Zenon DEF Violates, StepTerminals
<1>2. e.type # "step_started" /\ e.type \notin StepTerminals
  BY Zenon DEF StepTerminals
<1>3. QED
  BY <1>1, <1>2, AdvanceFields, Zenon

-----------------------------------------------------------------------------
(* The account of the open step.                                            *)

LEMMA Lengthened ==
  ASSUME Control, Book, NEW e \in Ev, Adds(e), pc # "over", disk.events # <<>>
  PROVE  /\ W' = Advance(W, e, TRUE)
         /\ disk'.events # <<>> /\ disk'.events[1] = disk.events[1]
         /\ disk'.events[Len(disk'.events)] = e
<1>1. disk.events \in Seq(Ev) /\ disk'.events = Append(disk.events, e)
  BY DEF Book, LedgerTypes, Disk, Adds
<1>2. \A k \in DOMAIN disk.events : disk.events[k].type # "workflow_finished"
  BY Zenon DEF Book, Ended
<1>3. Windows(Append(disk.events, e)) = Advance(Windows(disk.events), e, TRUE)
  BY <1>1, <1>2, WindowsAppend, Zenon
<1>4. W' = Advance(W, e, TRUE)
  BY <1>1, <1>3, Zenon DEF W
<1>5. disk'.events # <<>> /\ disk'.events[1] = disk.events[1] /\ disk'.events[Len(disk'.events)] = e
  BY <1>1
<1>6. QED
  BY <1>4, <1>5, Zenon

(* An event Run writes while it walks. *)
LEMMA NoteWalks ==
  ASSUME Control, Book, Walking => Account, NEW e, Note(e), pc \in Running \ {"open"},
         UNCHANGED <<call, admitted>>, disk'.tail = "clean", ~logErr'
  PROVE  /\ Walking /\ Account /\ Adds(e) /\ W' = Advance(W, e, TRUE) /\ Missing' = Missing /\ e \in Ev
         /\ disk'.events # <<>> /\ disk'.events[1] = disk.events[1] /\ disk'.events[Len(disk'.events)] = e
<1>1. e \in Ev /\ e.type # "door" /\ e.call = "none" /\ emit(e)
  BY Zenon DEF Note
<1>2. LedgerTypes /\ Entries /\ logErr \in BOOLEAN /\ admitted \subseteq Calls
  BY Zenon DEF Book, Control, EngineTypes, GatewayTypes
<1>3. ~logErr /\ Confirms(e)
  BY <1>1, <1>2, EmitCases, Zenon
<1>4. Adds(e) /\ disk.tail = "clean"
  BY <1>3, Zenon DEF Confirms
<1>5. Walking /\ Account
  BY <1>3, <1>4, Zenon DEF Walking
<1>6. Missing' = Missing
  BY <1>1, <1>2, <1>4, EntriesNote, Zenon
<1>7. pc # "over" /\ disk.events # <<>>
  BY <1>5, Zenon DEF Running, Account
<1>8. QED
  BY <1>1, <1>4, <1>5, <1>6, <1>7, Lengthened, Zenon

(* A step of Run that writes nothing. *)
LEMMA QuietWalks ==
  ASSUME Walking => Account, pc \in Running \ {"open"}, UNCHANGED <<ledger, admitted>>, disk'.tail = "clean", ~logErr'
  PROVE  /\ Walking /\ Account /\ W' = W /\ Missing' = Missing /\ disk' = disk
<1>1. UNCHANGED <<disk, logErr>>
  BY Zenon DEF ledger
<1>2. QED
  BY <1>1, Zenon DEF Walking, W, Missing

(* The steps of Run inside a step of the workflow that write nothing. *)
LEMMA ServeAccount ==
  ASSUME Control, Control', Walking => Account, Walking',
         GatewayStart \/ Execute \/ StopClose \/ StopWait
  PROVE  Account' /\ Missing' = Missing /\ (W.ok => W'.ok)
<1>1. /\ pc \in InStep /\ pc' \in InStep /\ pc \in Running \ {"open"}
      /\ i' = i /\ wf' = wf /\ fin' = fin /\ UNCHANGED <<ledger, admitted>>
  BY Zenon DEF GatewayStart, Execute, StopClose, StopWait, Goto, InStep, Running, history
<1>2. Walking /\ Account /\ W' = W /\ Missing' = Missing /\ disk' = disk
  BY <1>1, QuietWalks, Zenon DEF Walking
<1>3. Stamp' = Stamp
  <2>1. wf[i].fronted \in BOOLEAN
    <3>1. pc \in AtAStep
      BY <1>1, Zenon DEF InStep, AtAStep
    <3>2. QED
      BY <3>1, Workflow, Zenon DEF Control, Gate
  <2>2. CASE GatewayStart
    BY <1>1, <2>2, Zenon DEF GatewayStart, Goto, Stamp, Serving, Control, Gate
  <2>3. CASE Execute
    BY <1>1, <2>1, <2>3, Zenon DEF Execute, Goto, Stamp, Serving, gateway
  <2>4. CASE StopClose
    BY <1>1, <2>4, Zenon DEF StopClose, Goto, Stamp, Serving, Control, Gate
  <2>5. CASE StopWait
    BY <1>1, <2>5, Zenon DEF StopWait, Goto, Stamp, Serving, gateway
  <2>6. QED
    BY <2>2, <2>3, <2>4, <2>5, Zenon
<1>4. W' \in Window /\ W'.open = i' /\ (W'.ok => W'.doors + Cardinality(Missing') = Stamp')
  BY <1>1, <1>2, <1>3, Zenon DEF Account, Balance
<1>5. Balance'
  BY <1>1, <1>4, Zenon DEF Balance, InStep
<1>6. QED
  BY <1>2, <1>5, Zenon DEF Account

(* Between the steps of the workflow. *)
LEMMA RestAccount ==
  ASSUME Control, Control', Walking => Account, Walking', Between \/ GiveUp
  PROVE  Account' /\ Missing' = Missing /\ (W.ok => W'.ok)
<1>1. /\ pc \in {"top", "failed"} /\ pc \in Running \ {"open"} /\ UNCHANGED <<ledger, admitted>>
  BY Zenon DEF Between, GiveUp, Running, history
<1>2. Walking /\ Account /\ W' = W /\ Missing' = Missing /\ disk' = disk
  BY <1>1, QuietWalks, Zenon DEF Walking
<1>3. W \in Window /\ W.open = NoStep /\ (W.ok => Missing = {})
  BY <1>1, <1>2, Zenon DEF Account, Balance
<1>4. \/ pc' = "begin"
      \/ pc' = "end" /\ terminalConsistent(fin', W.prev)
  <2>1. CASE GiveUp
    <3>1. pc' = "end" /\ fin' \in {"cancelled", "failed"} /\ W.prev = "step_failed"
      BY <1>2, <2>1, Zenon DEF GiveUp, Goto, Account, Balance
    <3>2. QED
      BY <3>1, Zenon DEF terminalConsistent, StepTerminals
  <2>2. CASE Between
    <3>1. W.prev \in {"workflow_started", "step_succeeded", "bounced_back"} /\ (i > N => W.prev = "step_succeeded")
      BY <1>2, <2>2, Zenon DEF Between, Account, Balance
    <3>2. i > N \/ (i <= N /\ ctx) \/ (i <= N /\ ~ctx)
      BY Workflow DEF Control, EngineTypes
    <3>3. \/ i > N /\ pc' = "end" /\ fin' = "succeeded"
          \/ pc' = "end" /\ fin' = "cancelled"
          \/ pc' = "begin"
      BY <2>2, <3>2, Zenon DEF Between, Goto
    <3>4. QED
      BY <3>1, <3>3, Zenon DEF terminalConsistent, StepTerminals
  <2>3. QED
    BY <2>1, <2>2, Zenon
<1>5. Balance'
  BY <1>2, <1>3, <1>4, Zenon DEF Balance, InStep
<1>6. QED
  BY <1>2, <1>5, Zenon DEF Account

LEMMA BeginAccount ==
  ASSUME Control, Control', Book, Opening, Walking', Begin
  PROVE  Account' /\ Missing' = Missing /\ W'.ok
<1> DEFINE e == [Event("workflow_started", NoStep) EXCEPT !.marker = TRUE]
<1>1. Note(e) /\ e.type = "workflow_started" /\ e.marker = TRUE
  BY BeginNote, Zenon
<1> HIDE DEF e
<1>2. e \in Ev /\ emit(e) /\ pc = "open" /\ pc' = "top" /\ disk'.tail = "clean" /\ ~logErr'
      /\ UNCHANGED <<wf, i, call, admitted>>
  BY <1>1, Zenon DEF Note, Begin, Goto, Walking, history
<1>3. LedgerTypes /\ logErr \in BOOLEAN /\ disk.events = <<>> /\ disk.tail = "clean" /\ i = 1 /\ admitted = {}
  BY <1>2, Zenon DEF Book, Ended, Opening, Control, EngineTypes
<1>4. Adds(e)
  <2>1. Confirms(e)
    BY <1>2, <1>3, EmitCases, Zenon
  <2>2. QED
    BY <1>3, <2>1, Zenon DEF Confirms
<1>5. disk'.events = <<e>>
  BY <1>2, <1>3, <1>4 DEF Adds
<1>6. disk'.events # <<>> /\ disk'.events[1] = e
  BY <1>5
<1>7. W' = Start
  BY <1>2, <1>5, WindowsFirst, Zenon DEF W
<1>8. Start \in Window /\ Start.ok /\ Start.open = NoStep /\ Start.prev = "workflow_started"
  BY DEF Start, Window, NoStep, EventTypes
<1>9. Missing = {} /\ Missing' = {}
  BY <1>2, <1>3, Zenon DEF Missing
<1>10. ~(i' > N')
  <2>1. N' = N /\ N \in Nat /\ N # 0
    BY <1>2, Workflow, Zenon DEF N, Control
  <2>2. QED
    BY <1>2, <1>3, <2>1
<1>11. Balance'
  BY <1>2, <1>7, <1>8, <1>9, <1>10, Zenon DEF Balance, InStep
<1>12. QED
  BY <1>1, <1>6, <1>7, <1>8, <1>9, <1>11, Zenon DEF Account

LEMMA StartAccount ==
  ASSUME Control, Control', Book, Walking => Account, Walking', StartStep
  PROVE  Account' /\ Missing' = Missing /\ (W.ok => W'.ok)
<1> DEFINE e == Event("step_started", i)
<1>1. Note(e) /\ e.type = "step_started" /\ e.step = i
  BY StartNote, Zenon
<1> HIDE DEF e
<1>2. /\ pc = "begin" /\ pc \in Running \ {"open"} /\ UNCHANGED <<wf, i, call, admitted>>
      /\ pc' \in {"start", "exec"} /\ (pc' = "exec" => counted' = 0 /\ ~wf[i].fronted)
  BY Zenon DEF StartStep, Goto, Running
<1>3. /\ Account /\ W' = Advance(W, e, TRUE) /\ Missing' = Missing /\ e \in Ev
      /\ disk'.events # <<>> /\ disk'.events[1] = disk.events[1]
  BY <1>1, <1>2, NoteWalks, Zenon DEF Walking
<1>4. W \in Window /\ W.open = NoStep /\ (W.ok => Missing = {})
  BY <1>2, <1>3, Zenon DEF Account, Balance
<1>5. W' \in Window /\ (W.ok <=> W'.ok) /\ W'.open = i /\ W'.doors = 0
  BY <1>1, <1>3, <1>4, AdvanceStart, Zenon
<1>6. Stamp' = 0
  BY <1>2, Zenon DEF Stamp, Serving
<1>7. W'.ok => W'.doors + Cardinality(Missing') = Stamp'
  <2>1. W'.ok => W'.doors = 0 /\ Cardinality(Missing') = 0
    BY <1>3, <1>4, <1>5, FS_EmptySet, Zenon
  <2>2. 0 + 0 = 0
    OBVIOUS
  <2>3. QED
    BY <1>6, <2>1, <2>2, Zenon
<1>8. Balance'
  BY <1>2, <1>5, <1>7, Zenon DEF Balance, InStep
<1>9. QED
  BY <1>3, <1>5, <1>8, Zenon DEF Account

(* A step's terminal: its count tells whether a call is missing. *)
LEMMA TerminalAccount ==
  ASSUME Control, Control', Book, Walking => Account, Walking', NEW ok \in BOOLEAN,
         \/ pc = "start" /\ emit(StepTerminal(FALSE, 0)) /\ ~ok /\ pc' = "end" /\ fin' = "failed"
         \/ pc = "finish" /\ emit(StepTerminal(ok, counted)) /\ ok /\ pc' = "top"
         \/ pc = "finish" /\ emit(StepTerminal(ok, counted)) /\ ~ok /\ pc' = "end" /\ fin' = "failed"
         \/ pc = "finish" /\ emit(StepTerminal(ok, counted)) /\ ~ok /\ pc' = "failed",
         UNCHANGED <<wf, call, admitted>>
  PROVE  Account' /\ Missing' = Missing /\ (W.ok /\ Missing = {} => W'.ok)
<1>1. pc \in {"start", "finish"} /\ pc \in Running \ {"open"} /\ counted \in Nat /\ 0 \in Nat /\ ok \in BOOLEAN
      /\ pc \in AtAStep /\ FALSE \in BOOLEAN
  BY Zenon DEF Running, Control, EngineTypes, AtAStep
<1>2. PICK n \in Nat : n = Stamp /\ emit(StepTerminal(ok, n))
  BY <1>1, Zenon DEF Stamp, Serving
<1> DEFINE e == StepTerminal(ok, n)
<1>3. /\ Note(e) /\ e.step = i /\ e.doors = n /\ e.type \in StepTerminals
      /\ (ok => e.type = "step_succeeded") /\ (~ok => e.type = "step_failed")
  BY <1>2, TerminalNote, Zenon
<1> HIDE DEF e
<1>4. /\ Account /\ W' = Advance(W, e, TRUE) /\ Missing' = Missing /\ e \in Ev
      /\ disk'.events # <<>> /\ disk'.events[1] = disk.events[1]
  BY <1>1, <1>3, NoteWalks, Zenon DEF Walking
<1>5. W \in Window /\ W.open = i /\ (W.ok => W.doors + Cardinality(Missing) = n)
  BY <1>1, <1>2, <1>4, Zenon DEF Account, Balance, InStep
<1>6. W' \in Window /\ W'.open = NoStep /\ W'.prev = e.type /\ (W'.ok <=> W.ok /\ n = W.doors)
  <2>1. /\ Advance(W, e, TRUE) \in Window
        /\ Advance(W, e, TRUE).ok <=> W.ok /\ W.open = e.step /\ e.doors = W.doors
        /\ Advance(W, e, TRUE).open = NoStep /\ Advance(W, e, TRUE).prev = e.type
    BY <1>3, <1>4, <1>5, AdvanceTerminal, Zenon
  <2>2. W' \in Window /\ W'.open = NoStep /\ W'.prev = e.type
    BY <1>4, <2>1, Zenon
  <2>3. W'.ok <=> W.ok /\ n = W.doors
    BY <1>3, <1>4, <1>5, <2>1, Zenon
  <2>4. QED
    BY <2>2, <2>3, Zenon
<1>7. W.ok => (n = W.doors <=> Missing = {})
  <2>1. Missing \in SUBSET Calls
    BY Zenon DEF Missing, Control, GatewayTypes
  <2>2. IsFiniteSet(Missing) /\ Cardinality(Missing) \in Nat /\ (Cardinality(Missing) = 0 <=> Missing = {})
    BY <2>1, FiniteCalls, FS_Subset, FS_CardinalityType, FS_EmptySet, Zenon
  <2>3. W.doors \in Nat
    BY <1>5 DEF Window
  <2>4. W.ok => (n = W.doors <=> Cardinality(Missing) = 0)
    BY <1>5, <2>2, <2>3
  <2>5. QED
    BY <2>2, <2>4, Zenon
<1>8. /\ pc' \in {"top", "end", "failed"}
      /\ pc' = "top" => e.type = "step_succeeded"
      /\ pc' = "failed" => e.type = "step_failed"
      /\ pc' = "end" => e.type = "step_failed" /\ fin' = "failed"
  BY <1>3, Zenon
<1>9. Balance'
  BY <1>4, <1>6, <1>7, <1>8, Zenon DEF Balance, InStep, terminalConsistent
<1>10. QED
  BY <1>4, <1>6, <1>7, <1>9, Zenon DEF Account

LEMMA BounceAccount ==
  ASSUME Control, Control', Book, Walking => Account, Walking', Bounce
  PROVE  Account' /\ Missing' = Missing /\ (W.ok => W'.ok)
<1> DEFINE e == [Event("bounced_back", i) EXCEPT !.target = Target]
<1>1. Note(e) /\ e.type = "bounced_back" /\ Target \in 1..N
  BY BounceNote, Zenon
<1> HIDE DEF e
<1>2. pc = "failed" /\ pc \in Running \ {"open"} /\ UNCHANGED <<wf, call, admitted>> /\ pc' = "top" /\ i' = Target
  BY Zenon DEF Bounce, Goto, Running, history
<1>3. /\ Account /\ W' = Advance(W, e, TRUE) /\ Missing' = Missing /\ e \in Ev
      /\ disk'.events # <<>> /\ disk'.events[1] = disk.events[1]
  BY <1>1, <1>2, NoteWalks, Zenon DEF Walking
<1>4. W \in Window /\ W.open = NoStep /\ (W.ok => Missing = {}) /\ W.prev = "step_failed"
  BY <1>2, <1>3, Zenon DEF Account, Balance
<1>5. W' \in Window /\ (W.ok <=> W'.ok) /\ W'.open = NoStep /\ W'.prev = "bounced_back"
  BY <1>1, <1>3, <1>4, AdvanceBounce, Zenon
<1>6. ~(i' > N')
  <2>1. N' = N /\ N \in Nat
    BY <1>2, Workflow, Zenon DEF N, Control
  <2>2. QED
    BY <1>1, <1>2, <2>1
<1>7. Balance'
  BY <1>2, <1>3, <1>4, <1>5, <1>6, Zenon DEF Balance, InStep
<1>8. QED
  BY <1>3, <1>5, <1>7, Zenon DEF Account

LEMMA EngineAccount ==
  ASSUME Control, Control', Book, Opening, Walking => Account, Walking', Engine
  PROVE  /\ Account' /\ Missing' = Missing
         /\ (pc # "open" => W.ok) /\ (pc \in {"start", "finish"} => Missing = {}) => W'.ok
<1>1. pc' # "over"
  BY Zenon DEF Walking, Running
<1>2. ~(OpenFails \/ Refuse \/ LedgerFailed \/ Finish)
  BY <1>1, Zenon DEF OpenFails, Refuse, LedgerFailed, Finish, Returns
<1>3. CASE GatewayStartFails \/ StepSucceeds \/ StepFailsRun \/ StepFails
  <2>1. pc \in {"start", "finish"} /\ UNCHANGED <<wf, call, admitted>>
    BY <1>3, Zenon DEF GatewayStartFails, StepSucceeds, StepFailsRun, StepFails, history
  <2>2. PICK ok \in BOOLEAN :
          \/ pc = "start" /\ emit(StepTerminal(FALSE, 0)) /\ ~ok /\ pc' = "end" /\ fin' = "failed"
          \/ pc = "finish" /\ emit(StepTerminal(ok, counted)) /\ ok /\ pc' = "top"
          \/ pc = "finish" /\ emit(StepTerminal(ok, counted)) /\ ~ok /\ pc' = "end" /\ fin' = "failed"
          \/ pc = "finish" /\ emit(StepTerminal(ok, counted)) /\ ~ok /\ pc' = "failed"
    <3>1. TRUE \in BOOLEAN /\ FALSE \in BOOLEAN
      BY Zenon
    <3>2. QED
      BY <1>3, <3>1, Zenon DEF GatewayStartFails, StepSucceeds, StepFailsRun, StepFails, Goto
  <2>3. Account' /\ Missing' = Missing /\ (W.ok /\ Missing = {} => W'.ok)
    BY <2>1, <2>2, TerminalAccount, Zenon
  <2>4. pc # "open"
    BY <2>1, Zenon
  <2>5. QED
    BY <2>1, <2>3, <2>4, Zenon
<1>4. CASE Begin
  BY <1>4, BeginAccount, Zenon
<1>5. CASE GatewayStart \/ Execute \/ StopClose \/ StopWait \/ Between \/ GiveUp \/ StartStep \/ Bounce
  <2>1. pc # "open"
    BY <1>5, Zenon DEF GatewayStart, Execute, StopClose, StopWait, Between, GiveUp, StartStep, Bounce
  <2>2. Account' /\ Missing' = Missing /\ (W.ok => W'.ok)
    BY <1>5, ServeAccount, RestAccount, StartAccount, BounceAccount, Zenon
  <2>3. QED
    BY <2>1, <2>2, Zenon
<1>6. QED
  BY <1>2, <1>3, <1>4, <1>5, Zenon DEF Engine

LEMMA FiniteMissing ==
  ASSUME Control
  PROVE  Missing \subseteq Calls /\ IsFiniteSet(Missing) /\ Cardinality(Missing) \in Nat
<1>1. Missing \in SUBSET Calls
  BY Zenon DEF Missing, Control, GatewayTypes
<1>2. QED
  BY <1>1, FiniteCalls, FS_Subset, FS_CardinalityType, Zenon

LEMMA SameAccount ==
  ASSUME Walking => Account, Walking', UNCHANGED <<wf, engine, disk, logErr, admitted, doorCalls>>
  PROVE  Account' /\ W' = W /\ Missing' = Missing
<1>1. Walking /\ Account /\ W' = W /\ Missing' = Missing
  BY Zenon DEF Walking, engine, W, Missing
<1>2. Stamp' = Stamp /\ N' = N
  BY Zenon DEF Stamp, Serving, engine, N
<1>3. Balance'
  BY <1>1, <1>2, Zenon DEF Account, Balance, engine
<1>4. QED
  BY <1>1, <1>3, Zenon DEF Account

(* A door's append: the event takes the place of the missing call. *)
LEMMA AppendAccount ==
  ASSUME Control, Control', Book, Walking => Account, NEW c \in Calls, NEW l, Appends(c, l), Walking'
  PROVE  Account' /\ (W.ok => W'.ok)
<1>1. /\ Keeps \/ Adds(DoorEvent(c))
      /\ DoorEvent(c) \in Ev /\ DoorEvent(c).type = "door"
      /\ disk'.tail = "clean" => disk.tail = "clean"
      /\ i \in 1..N /\ pc \in {"exec", "stop", "wait"} /\ (Serving \/ pc = "wait")
      /\ UNCHANGED <<wf, engine, ctx, gateway, history, logErr>>
  BY AppendCases, Zenon
<1>2. /\ UNCHANGED <<wf, pc, i, counted, fin, doorCalls, admitted, logErr>> /\ Stamp' = Stamp
      /\ pc \in InStep /\ pc # "over"
  BY <1>1, Zenon DEF engine, gateway, history, Stamp, Serving, InStep
<1>3. Walking /\ Account
  <2>1. pc' = pc /\ logErr' = logErr
    BY <1>2, Zenon
  <2>2. pc' \in Running \ {"open"} /\ ~logErr' /\ disk'.tail = "clean"
    BY Zenon DEF Walking
  <2>3. disk.tail = "clean"
    BY <1>1, <2>2, Zenon
  <2>4. pc \in Running \ {"open"} /\ ~logErr
    BY <2>1, <2>2, Zenon
  <2>5. QED
    BY <2>3, <2>4, Zenon DEF Walking
<1>4. W \in Window /\ W.open = i /\ (W.ok => W.doors + Cardinality(Missing) = Stamp) /\ disk.events # <<>>
  BY <1>2, <1>3, Zenon DEF Account, Balance
<1>5. SUFFICES /\ W' \in Window /\ (W'.ok <=> W.ok) /\ W'.open = i
               /\ W'.ok => W'.doors + Cardinality(Missing') = Stamp
               /\ disk'.events # <<>> /\ disk'.events[1] = disk.events[1]
  <2>1. ASSUME W' \in Window, W'.open = i, W'.ok => W'.doors + Cardinality(Missing') = Stamp PROVE Balance'
    BY <1>2, <2>1, Zenon DEF Balance, InStep
  <2>2. QED
    BY <1>3, <2>1, Zenon DEF Account
<1>6. CASE Keeps
  <2>1. W' = W /\ Missing' = Missing /\ disk'.events = disk.events
    BY <1>2, <1>6, Zenon DEF Keeps, W, Missing
  <2>2. QED
    BY <1>4, <2>1, Zenon
<1>7. CASE Adds(DoorEvent(c))
  <2>1. /\ W' = Advance(W, DoorEvent(c), TRUE)
        /\ disk'.events # <<>> /\ disk'.events[1] = disk.events[1]
    BY <1>1, <1>2, <1>4, <1>7, Lengthened, Zenon
  <2>2. W.open # NoStep
    BY <1>1, <1>4, Workflow DEF NoStep, Control
  <2>3. W' \in Window /\ (W.ok <=> W'.ok) /\ W'.open = i /\ W'.doors = W.doors + 1
    BY <1>1, <1>4, <2>1, <2>2, AdvanceDoor, Zenon
  <2>4. Missing' = Missing \ {c} /\ c \in Missing
    BY <1>7, AppendBook, Zenon
  <2>5. Cardinality(Missing') = Cardinality(Missing) - 1 /\ Cardinality(Missing) \in Nat
    BY <2>4, FiniteMissing, FS_RemoveElement, Zenon
  <2>6. W.doors \in Nat
    BY <1>4 DEF Window
  <2>7. W.doors + Cardinality(Missing) = W'.doors + Cardinality(Missing')
    BY <2>3, <2>5, <2>6
  <2>8. QED
    BY <1>4, <2>1, <2>3, <2>7, Zenon
<1>8. QED
  BY <1>1, <1>6, <1>7, Zenon

(* An admission: one call is missing until it is appended. *)
LEMMA SilentMissing ==
  ASSUME Control, Control', Book, Silent
  PROVE  \/ UNCHANGED <<admitted, doorCalls>> /\ Missing' = Missing
         \/ \E c \in Calls : /\ c \notin Missing /\ Missing' = Missing \cup {c} /\ doorCalls' = doorCalls + 1
                             /\ call'[c].at \in Unwritten /\ (Serving \/ pc = "wait")
<1>1. disk' = disk /\ pc' = pc /\ i' = i /\ wf' = wf
  BY Zenon DEF Silent, ledger, engine
<1>2. CASE admitted' = admitted /\ doorCalls' = doorCalls
  BY <1>1, <1>2, Zenon DEF Missing
<1>3. ASSUME doorCalls' = doorCalls + 1, NEW c \in Calls \ admitted, admitted' = admitted \cup {c}
      PROVE  /\ c \notin Missing /\ Missing' = Missing \cup {c} /\ doorCalls' = doorCalls + 1
             /\ call'[c].at \in Unwritten /\ (Serving \/ pc = "wait")
  <2>1. \A k \in DOMAIN disk.events : disk.events[k].call # c
    <3> SUFFICES ASSUME NEW k \in DOMAIN disk.events, disk.events[k].call = c PROVE FALSE
      BY Zenon
    <3>1. disk.events[k].call = "none"
      BY Zenon DEF Book, Entries
    <3>2. QED
      BY <3>1, FiniteCalls, Zenon
  <2>2. c \notin Missing /\ Missing' = Missing \cup {c}
    BY <1>1, <1>3, <2>1, Zenon DEF Missing
  <2>3. call'[c].at \in Unwritten
    BY <1>3, Zenon DEF Silent
  <2>4. In(Held)' # {}
    BY <2>3, Zenon DEF In, Held, Unwritten
  <2>5. Serving' \/ pc' = "wait"
    BY <2>4, Zenon DEF Control, Gate
  <2>6. QED
    BY <1>1, <1>3, <2>2, <2>3, <2>5, Zenon DEF Serving
<1>4. QED
  BY <1>2, <1>3, Zenon DEF Silent

LEMMA SilentAccount ==
  ASSUME Control, Control', Book, Walking => Account, Silent, Walking'
  PROVE  Account' /\ W' = W
<1>1. UNCHANGED <<wf, engine, disk, logErr>> /\ W' = W
  BY Zenon DEF Silent, ledger, W
<1>2. CASE UNCHANGED <<admitted, doorCalls>>
  BY <1>1, <1>2, SameAccount, Zenon
<1>3. ASSUME NEW c \in Calls, c \notin Missing, Missing' = Missing \cup {c}, doorCalls' = doorCalls + 1,
             Serving \/ pc = "wait"
      PROVE  Account'
  <2>1. Walking /\ Account /\ pc' = pc /\ i' = i /\ wf' = wf /\ fin' = fin
    BY <1>1, Zenon DEF Walking, engine
  <2>2. pc \in InStep
    BY <1>3, Zenon DEF Serving, InStep
  <2>3. W \in Window /\ W.open = i /\ (W.ok => W.doors + Cardinality(Missing) = doorCalls)
    BY <1>3, <2>1, <2>2, Zenon DEF Account, Balance, Stamp
  <2>4. Stamp' = doorCalls + 1
    BY <1>3, <2>1, Zenon DEF Stamp, Serving
  <2>5. Cardinality(Missing') = Cardinality(Missing) + 1 /\ Cardinality(Missing) \in Nat
    BY <1>3, FiniteMissing, FS_AddElement, Zenon
  <2>6. W.doors \in Nat
    BY <2>3 DEF Window
  <2>7. W.ok => W.doors + Cardinality(Missing') = Stamp'
    BY <2>3, <2>4, <2>5, <2>6
  <2>8. Balance'
    BY <1>1, <2>1, <2>2, <2>3, <2>7, Zenon DEF Balance, InStep
  <2>9. QED
    BY <1>1, <2>1, <2>8, Zenon DEF Account
<1>4. QED
  BY <1>1, <1>2, <1>3, SilentMissing, Zenon

LEMMA AccountStep ==
  ASSUME Control, Control', Book, Opening, Walking => Account, [Next]_vars
  PROVE  Walking' => Account'
<1> SUFFICES ASSUME Walking' PROVE Account'
  OBVIOUS
<1>1. CASE Engine
  BY <1>1, EngineAccount, Zenon
<1>2. CASE \E c \in Calls : Door(c) \/ \E d \in Doors : Arrive(c, d)
  BY <1>2, DoorSilent, ArriveSilent, SilentAccount, AppendAccount, Zenon
<1>3. CASE Cancel \/ UNCHANGED vars
  <2>1. UNCHANGED <<wf, engine, disk, logErr, admitted, doorCalls>>
    BY <1>3, Zenon DEF Cancel, vars, ledger, gateway, history
  <2>2. QED
    BY <2>1, SameAccount, Zenon
<1>4. CASE Crash
  BY <1>4, Zenon DEF Crash, Walking, Running
<1>5. QED
  BY <1>1, <1>2, <1>3, <1>4, Zenon DEF Next

-----------------------------------------------------------------------------
(* What the ledger adds up to.                                              *)

(* Events that read complete end with what Run writes last. *)
LEMMA CompleteEnds ==
  ASSUME NEW es \in Seq(Ev), Check(es) = "complete"
  PROVE  \E k \in DOMAIN es : es[k].type \in {"workflow_finished", "run_refused"}
<1>1. es # <<>>
  BY Zenon DEF Check
<1>2. 1 \in DOMAIN es /\ Len(es) \in DOMAIN es
  BY <1>1
<1>3. es[1].type = "run_refused" \/ es[Len(es)].type = "workflow_finished"
  BY Zenon DEF Check
<1>4. QED
  BY <1>2, <1>3, Zenon

(* How a ledger that takes Run's last event reads. *)
LEMMA FinishCompletes ==
  ASSUME Control, Book, Walking => Account, Finish
  PROVE  LET e == [Event("workflow_finished", NoStep) EXCEPT !.status = fin]
         IN  /\ Keeps \/ Adds(e)
             /\ Adds(e) => Walking /\ (Complete' <=> W.ok) /\ (W.ok => Missing' = {})
<1> DEFINE e == [Event("workflow_finished", NoStep) EXCEPT !.status = fin]
<1>1. Note(e) /\ e.type = "workflow_finished" /\ e.status = fin
  BY FinishNote, Zenon
<1> HIDE DEF e
<1>2. e \in Ev /\ emit(e) /\ e.type # "door" /\ e.call = "none" /\ pc = "end" /\ UNCHANGED <<call, admitted>>
  BY <1>1, Zenon DEF Note, Finish, history
<1>3. LedgerTypes /\ Entries /\ logErr \in BOOLEAN /\ admitted \subseteq Calls
  BY Zenon DEF Book, Control, EngineTypes, GatewayTypes
<1>4. (Keeps \/ Adds(e)) /\ (logErr => disk' = disk)
  BY <1>2, <1>3, EmitCases, Zenon
<1>5. ASSUME Adds(e) PROVE Walking /\ (Complete' <=> W.ok) /\ (W.ok => Missing' = {})
  <2>1. disk' # disk
    BY <1>2, <1>3, <1>5, Grown, Zenon
  <2>2. Walking /\ Account
    BY <1>2, <1>4, <1>5, <2>1, Zenon DEF Walking, Adds, Running
  <2>3. /\ W \in Window /\ W.open = NoStep /\ (W.ok => Missing = {}) /\ terminalConsistent(fin, W.prev)
        /\ disk.events # <<>> /\ disk.events[1].type = "workflow_started" /\ disk.events[1].marker
    BY <1>2, <2>2, Zenon DEF Account, Balance
  <2>4. pc # "over"
    BY <1>2, Zenon
  <2>5. /\ W' = Advance(W, e, TRUE) /\ disk'.events # <<>> /\ disk'.events[1] = disk.events[1]
        /\ disk'.events[Len(disk'.events)] = e
    BY <1>2, <1>5, <2>3, <2>4, Lengthened, Zenon
  <2>6. W'.ok <=> W.ok
    BY <1>1, <1>2, <2>3, <2>5, AdvanceFinish, Zenon
  <2>7. Complete' <=> Windows(disk'.events).ok
    BY <1>1, <2>3, <2>5, Zenon DEF Complete, Check
  <2>8. Missing' = Missing
    BY <1>2, <1>3, <1>5, EntriesNote, Zenon
  <2>9. QED
    BY <2>2, <2>3, <2>6, <2>7, <2>8, Zenon DEF W
<1>6. QED
  BY <1>4, <1>5, Zenon DEF e

LEMMA RefuseCompletes ==
  ASSUME Control, Book, Opening, Refuse
  PROVE  LET e == Event("run_refused", NoStep)
         IN  /\ Keeps \/ Adds(e)
             /\ Adds(e) => Complete'
             /\ disk.events = <<>> /\ disk.tail = "clean" /\ Missing' = {}
<1> DEFINE e == Event("run_refused", NoStep)
<1>1. Note(e) /\ e.type = "run_refused"
  BY RefuseNote, Zenon
<1> HIDE DEF e
<1>2. e \in Ev /\ emit(e) /\ pc = "open" /\ UNCHANGED <<call, admitted>>
  BY <1>1, Zenon DEF Note, Refuse, history
<1>3. LedgerTypes /\ logErr \in BOOLEAN /\ disk.events = <<>> /\ disk.tail = "clean" /\ admitted = {}
  BY <1>2, Zenon DEF Book, Ended, Opening, Control, EngineTypes
<1>4. Keeps \/ Adds(e)
  BY <1>2, <1>3, EmitCases, Zenon
<1>5. ASSUME Adds(e) PROVE Complete'
  <2>1. disk'.events = <<e>>
    BY <1>2, <1>3, <1>5 DEF Adds
  <2>2. disk'.events # <<>> /\ disk'.events[1] = e /\ Len(disk'.events) = 1
    BY <2>1
  <2>3. QED
    BY <1>1, <2>2, Zenon DEF Complete, Check
<1>6. Missing' = {}
  BY <1>2, <1>3, Zenon DEF Missing
<1>7. QED
  BY <1>3, <1>4, <1>5, <1>6, Zenon DEF e

LEMMA LastSteps ==
  ASSUME Control, Engine, pc' = "over"
  PROVE  OpenFails \/ Refuse \/ LedgerFailed \/ Finish
<1>1. ~Between
  <2>1. i > N \/ (i <= N /\ ctx) \/ (i <= N /\ ~ctx)
    BY Workflow DEF Control, EngineTypes
  <2>2. QED
    BY <2>1, Zenon DEF Between, Goto
<1>2. QED
  BY <1>1, Zenon DEF Engine, Begin, StartStep, GatewayStart, GatewayStartFails, Execute, StopClose, StopWait,
                     StepSucceeds, StepFailsRun, StepFails, GiveUp, Bounce, Goto

(* What Run writes is no call, and without a fault it is written. *)
LEMMA EngineWrites ==
  ASSUME Control, Book, Engine
  PROVE  /\ Missing' = Missing
         /\ faults' = 0 => faults = 0
         /\ faults' = 0 /\ disk.tail = "clean" /\ ~logErr => disk'.tail = "clean" /\ ~logErr'
<1>1. /\ UNCHANGED <<call, admitted>> /\ LedgerTypes /\ Entries /\ logErr \in BOOLEAN /\ admitted \subseteq Calls
      /\ UNCHANGED ledger \/ \E e : Note(e)
  BY EngineKinds, Zenon DEF Book, Control, EngineTypes, GatewayTypes
<1>2. CASE UNCHANGED ledger
  BY <1>1, <1>2, Zenon DEF ledger, Missing
<1>3. ASSUME NEW e, Note(e)
      PROVE  /\ Missing' = Missing
             /\ faults' = 0 => faults = 0
             /\ faults' = 0 /\ disk.tail = "clean" /\ ~logErr => disk'.tail = "clean" /\ ~logErr'
  <2>1. e \in Ev /\ e.type # "door" /\ e.call = "none" /\ emit(e)
    BY <1>3, Zenon DEF Note
  <2>2. /\ faults' = 0 => faults = 0
        /\ Keeps \/ Adds(e)
        /\ ~logErr' => ~logErr /\ Confirms(e)
        /\ faults' = 0 /\ ~logErr => ~logErr'
    BY <1>1, <2>1, EmitCases, Zenon
  <2>3. Missing' = Missing
    <3>1. CASE Keeps
      BY <1>1, <3>1, Zenon DEF Keeps, Missing
    <3>2. CASE Adds(e)
      BY <1>1, <2>1, <3>2, EntriesNote, Zenon
    <3>3. QED
      BY <2>2, <3>1, <3>2, Zenon
  <2>4. QED
    BY <2>2, <2>3, Zenon DEF Confirms
<1>4. QED
  BY <1>1, <1>2, <1>3, Zenon

LEMMA EngineClean ==
  ASSUME Control, Control', Book, Opening, Walking => Account, Clean, Engine, faults' = 0
  PROVE  Clean'
<1>1. /\ Missing' = Missing /\ disk.tail = "clean" /\ ~logErr /\ disk'.tail = "clean" /\ ~logErr'
      /\ Missing \subseteq In(Unwritten) /\ (pc \in Running \ {"open"} => W.ok)
  BY EngineWrites, Zenon DEF Clean
<1>2. /\ UNCHANGED <<call, admitted>> /\ pc \in Running /\ pc' \in (Running \cup {"over"}) \ {"open"}
      /\ logErr \in BOOLEAN /\ LedgerTypes /\ disk' \in Disk
  <2>1. disk' \in Disk
    BY EngineBook, Zenon DEF Book, LedgerTypes
  <2>2. QED
    BY <2>1, EngineKinds, Zenon DEF Control, EngineTypes, Book
<1>3. pc' # "dead" /\ In(Unwritten)' = In(Unwritten)
  BY <1>2, Zenon DEF Running, In
<1>4. ASSUME pc' \in Running \ {"open"} PROVE W'.ok
  <2>1. Walking'
    BY <1>1, <1>4, Zenon DEF Walking
  <2>2. pc \in {"start", "finish"} => Missing = {}
    <3>1. In(Unwritten) \subseteq In(Held)
      BY Zenon DEF In, Unwritten, Held
    <3>2. pc \in {"start", "finish"} => In(Held) = {}
      BY Zenon DEF Control, Gate, Serving
    <3>3. QED
      BY <1>1, <3>1, <3>2, Zenon
  <2>3. pc # "open" => W.ok
    BY <1>1, <1>2, Zenon
  <2>4. QED
    BY <2>1, <2>2, <2>3, EngineAccount, Zenon
<1>5. ASSUME pc' = "over", disk'.events # <<>> PROVE Complete'
  <2>1. CASE OpenFails
    BY <1>5, <2>1, Zenon DEF OpenFails, ledger, Book, Ended
  <2>2. CASE LedgerFailed
    BY <1>1, <2>2, Zenon DEF LedgerFailed
  <2>3. CASE Refuse
    <3> DEFINE e == Event("run_refused", NoStep)
    <3>1. (Keeps \/ Adds(e)) /\ (Adds(e) => Complete') /\ disk.events = <<>>
      BY <2>3, RefuseCompletes, Zenon
    <3> HIDE DEF e
    <3>2. QED
      BY <1>5, <3>1, Zenon DEF Keeps
  <2>4. CASE Finish
    <3> DEFINE e == [Event("workflow_finished", NoStep) EXCEPT !.status = fin]
    <3>1. Adds(e) => (Complete' <=> W.ok)
      BY <2>4, FinishCompletes, Zenon
    <3>2. Note(e)
      BY <2>4, FinishNote, Zenon
    <3> HIDE DEF e
    <3>3. Confirms(e)
      BY <1>1, <1>2, <3>2, EmitCases, Zenon DEF Note
    <3>4. Adds(e)
      BY <1>1, <3>3, Zenon DEF Confirms
    <3>5. W.ok
      BY <1>1, <2>4, Zenon DEF Finish, Running
    <3>6. QED
      BY <3>1, <3>4, <3>5, Zenon
  <2>5. QED
    BY <1>5, <2>1, <2>2, <2>3, <2>4, LastSteps, Zenon
<1>6. QED
  BY <1>1, <1>3, <1>4, <1>5, Zenon DEF Clean

LEMMA DoorClean ==
  ASSUME Control, Control', Book, Walking => Account, Clean, faults' = 0,
         Silent \/ \E c \in Calls : \E l : Appends(c, l)
  PROVE  Clean'
<1>1. CASE Silent
  <2>1. UNCHANGED <<disk, logErr, faults, pc>> /\ W' = W
    BY <1>1, Zenon DEF Silent, ledger, engine, W
  <2>2. In(Unwritten) \subseteq In(Unwritten)'
    BY <1>1, Zenon DEF Silent, In
  <2>3. /\ disk.tail = "clean" /\ ~logErr /\ pc # "dead" /\ Missing \subseteq In(Unwritten)
        /\ pc \in Running \ {"open"} => W.ok
        /\ pc = "over" /\ disk.events # <<>> => Complete
    BY <2>1, Zenon DEF Clean
  <2>4. Missing' \subseteq In(Unwritten)'
    <3>1. CASE Missing' = Missing
      BY <2>2, <2>3, <3>1, Zenon
    <3>2. ASSUME NEW c \in Calls, Missing' = Missing \cup {c}, call'[c].at \in Unwritten
          PROVE  Missing' \subseteq In(Unwritten)'
      <4>1. c \in In(Unwritten)'
        BY <3>2, Zenon DEF In
      <4>2. QED
        BY <2>2, <2>3, <3>2, <4>1, Zenon
    <3>3. QED
      BY <1>1, <3>1, <3>2, SilentMissing, Zenon
  <2>5. Complete' <=> Complete
    BY <2>1, Zenon DEF Complete
  <2>6. QED
    BY <2>1, <2>3, <2>4, <2>5, Zenon DEF Clean
<1>2. ASSUME NEW c \in Calls, NEW l, Appends(c, l) PROVE Clean'
  <2>1. /\ faults = 0 /\ Confirms(DoorEvent(c))
        /\ pc \in {"exec", "stop", "wait"} /\ UNCHANGED <<engine, logErr>>
        /\ call'[c].at = l /\ \A d \in Calls \ {c} : call'[d] = call[d]
    BY <1>2, AppendCases, Zenon
  <2>2. /\ disk.tail = "clean" /\ ~logErr /\ pc # "dead" /\ Missing \subseteq In(Unwritten)
        /\ pc \in Running \ {"open"} => W.ok
    BY <2>1, Zenon DEF Clean
  <2>3. Adds(DoorEvent(c)) /\ disk'.tail = "clean" /\ ~logErr' /\ pc' = pc
    BY <2>1, <2>2, Zenon DEF Confirms, engine
  <2>4. Missing' = Missing \ {c}
    BY <1>2, <2>3, AppendBook, Zenon
  <2>5. Missing' \subseteq In(Unwritten)'
    <3> SUFFICES ASSUME NEW d \in Missing' PROVE d \in In(Unwritten)'
      BY Zenon
    <3>1. d \in In(Unwritten) /\ d # c
      BY <2>2, <2>4, Zenon
    <3>2. d \in Calls /\ call[d].at \in Unwritten
      BY <3>1, Zenon DEF In
    <3>3. call'[d] = call[d]
      BY <2>1, <3>1, <3>2, Zenon
    <3>4. QED
      BY <3>2, <3>3, Zenon DEF In
  <2>6. W'.ok
    <3>1. Walking'
      BY <2>1, <2>3, Zenon DEF Walking, Running
    <3>2. W.ok
      BY <2>1, <2>2, Zenon DEF Running
    <3>3. QED
      BY <1>2, <3>1, <3>2, AppendAccount, Zenon
  <2>7. pc' # "over" /\ pc' # "dead"
    BY <2>1, <2>3, Zenon
  <2>8. QED
    BY <2>3, <2>5, <2>6, <2>7, Zenon DEF Clean
<1>3. QED
  BY <1>1, <1>2, Zenon

LEMMA CleanStep ==
  ASSUME Control, Control', Book, Opening, Walking => Account, Clean, [Next]_vars
  PROVE  Clean'
<1> SUFFICES ASSUME faults' = 0 PROVE Clean'
  BY Zenon DEF Clean
<1>1. CASE Engine
  BY <1>1, EngineClean, Zenon
<1>2. CASE \E c \in Calls : Door(c) \/ \E d \in Doors : Arrive(c, d)
  BY <1>2, DoorSilent, ArriveSilent, DoorClean, Zenon
<1>3. CASE Cancel \/ UNCHANGED vars
  <2>1. UNCHANGED <<disk, logErr, faults, pc, call, admitted>>
    BY <1>3, Zenon DEF Cancel, vars, engine, ledger, history
  <2>2. W' = W /\ Missing' = Missing /\ In(Unwritten)' = In(Unwritten) /\ (Complete' <=> Complete)
    BY <2>1, Zenon DEF W, Missing, In, Complete
  <2>3. QED
    BY <2>1, <2>2, Zenon DEF Clean
<1>4. CASE Crash
  <2>1. faults' = faults + 1 /\ faults \in Nat
    BY <1>4, Zenon DEF Crash, Fault, Book, LedgerTypes
  <2>2. QED
    BY <2>1
<1>5. QED
  BY <1>1, <1>2, <1>3, <1>4, Zenon DEF Next

LEMMA HonestStep ==
  ASSUME Control, Control', Book, Book', Opening, Walking => Account, Honest, [Next]_vars
  PROVE  Honest'
<1> SUFFICES ASSUME Verified', Complete' PROVE Missing' = {}
  BY Zenon DEF Honest
<1>1. pc' = "over"
  <2>1. disk'.events \in Seq(Ev)
    BY DEF Book, LedgerTypes, Disk
  <2>2. \E k \in DOMAIN disk'.events : disk'.events[k].type \in {"workflow_finished", "run_refused"}
    BY <2>1, CompleteEnds, Zenon DEF Complete
  <2>3. QED
    BY <2>2, Zenon DEF Book, Ended
<1>2. Complete => pc = "over"
  <2>1. disk.events \in Seq(Ev)
    BY DEF Book, LedgerTypes, Disk
  <2>2. Complete => \E k \in DOMAIN disk.events : disk.events[k].type \in {"workflow_finished", "run_refused"}
    BY <2>1, CompleteEnds, Zenon DEF Complete
  <2>3. QED
    BY <2>2, Zenon DEF Book, Ended
<1>3. ASSUME disk'.events = disk.events PROVE Complete
  BY <1>3, Zenon DEF Complete
<1>4. CASE Engine
  <2>1. CASE OpenFails \/ LedgerFailed
    <3>1. pc # "over" /\ disk' = disk
      BY <2>1, Zenon DEF OpenFails, LedgerFailed, ledger
    <3>2. QED
      BY <1>2, <1>3, <3>1, Zenon
  <2>2. CASE Refuse
    BY <2>2, RefuseCompletes, Zenon
  <2>3. CASE Finish
    <3> DEFINE e == [Event("workflow_finished", NoStep) EXCEPT !.status = fin]
    <3>1. (Keeps \/ Adds(e)) /\ (Adds(e) => (Complete' <=> W.ok) /\ (W.ok => Missing' = {})) /\ pc # "over"
      BY <2>3, FinishCompletes, Zenon DEF Finish
    <3> HIDE DEF e
    <3>2. QED
      BY <1>2, <1>3, <3>1, Zenon DEF Keeps
  <2>4. QED
    BY <1>1, <1>4, <2>1, <2>2, <2>3, LastSteps, Zenon
<1>5. ASSUME UNCHANGED <<disk, pc>>, Missing' = Missing PROVE Missing' = {}
  BY <1>3, <1>5, Zenon DEF Honest, Verified
<1>6. CASE \E c \in Calls : Door(c) \/ \E d \in Doors : Arrive(c, d)
  <2>1. ASSUME Silent PROVE Missing' = {}
    <3>1. UNCHANGED <<disk, pc>>
      BY <2>1, Zenon DEF Silent, ledger, engine
    <3>2. ~(Serving \/ pc = "wait")
      BY <1>1, <3>1, Zenon DEF Serving
    <3>3. Missing' = Missing
      BY <2>1, <3>2, SilentMissing, Zenon
    <3>4. QED
      BY <1>5, <3>1, <3>3, Zenon
  <2>2. ASSUME NEW c \in Calls, NEW l, Appends(c, l) PROVE FALSE
    <3>1. pc \in {"exec", "stop", "wait"} /\ UNCHANGED engine
      BY <2>2, AppendCases, Zenon
    <3>2. QED
      BY <1>1, <3>1, Zenon DEF engine
  <2>3. QED
    BY <1>6, <2>1, <2>2, DoorSilent, ArriveSilent, Zenon
<1>7. CASE Cancel \/ UNCHANGED vars
  <2>1. UNCHANGED <<disk, pc, admitted>>
    BY <1>7, Zenon DEF Cancel, vars, engine, ledger, history
  <2>2. QED
    BY <1>5, <2>1, Zenon DEF Missing
<1>8. CASE Crash
  BY <1>1, <1>8, Zenon DEF Crash
<1>9. QED
  BY <1>4, <1>6, <1>7, <1>8, Zenon DEF Next

LEMMA InitAccounts ==
  ASSUME Init
  PROVE  Accounts
<1>1. /\ pc = "open" /\ admitted = {} /\ faults = 0
      /\ disk.events = <<>> /\ disk.tail = "clean" /\ ~logErr
  BY DEF Init
<1>2. Missing = {} /\ ~Walking /\ pc \notin Running \ {"open"} /\ pc # "over" /\ pc # "dead"
  BY <1>1, Zenon DEF Missing, Walking
<1>3. QED
  BY <1>1, <1>2, Zenon DEF Accounts, Clean, Honest

(* While Run walks, the open window and the missing calls make up the      *)
(* count its terminal will carry.                                          *)
THEOREM LedgerInvariance == Spec => []Accounts
<1>1. Init => Accounts
  BY InitAccounts, Zenon
<1>2. Control /\ Control' /\ Book /\ Book' /\ Opening /\ Accounts /\ [Next]_vars => Accounts'
  <2> SUFFICES ASSUME Control, Control', Book, Book', Opening, Accounts, [Next]_vars PROVE Accounts'
    OBVIOUS
  <2>1. Opening /\ (Walking => Account) /\ Clean /\ Honest
    BY Zenon DEF Accounts
  <2>2. (Walking' => Account') /\ Clean' /\ Honest'
    BY <2>1, AccountStep, CleanStep, HonestStep, Zenon
  <2>3. QED
    BY <2>2, Zenon DEF Accounts
<1>3. QED
  BY <1>1, <1>2, ControlInvariance, BookInvariance, PTL DEF Spec

(* A run whose every write succeeded and that was not killed leaves a      *)
(* ledger that verifies and reads complete, whatever its doors were doing  *)
(* when a step ended (Stop's wait and the count it stamps).                *)
THEOREM CleanRunsAreComplete == Spec => []CleanRunIsComplete
<1>1. Accounts => CleanRunIsComplete
  BY Zenon DEF Accounts, Clean, CleanRunIsComplete, Verified, Complete
<1>2. QED
  BY <1>1, LedgerInvariance, PTL

(* A ledger that verifies and reads complete has every admitted call once  *)
(* and no other, whichever writes failed (the completeness check's         *)
(* count against the door events).                                         *)
THEOREM CompleteLedgersAreHonest == Spec => []CompleteIsHonest
<1>1. Control /\ Book /\ Accounts => CompleteIsHonest
  <2> SUFFICES ASSUME Control, Book, Accounts, Verified, Complete, NEW c \in Calls
               PROVE  Cardinality(Recorded(c)) = IF c \in admitted THEN 1 ELSE 0
    BY Zenon DEF CompleteIsHonest, Complete
  <2>1. Missing = {}
    BY Zenon DEF Accounts, Honest
  <2>2. CASE c \in admitted
    <3>1. PICK k \in DOMAIN disk.events : disk.events[k].call = c
      BY <2>1, <2>2, Zenon DEF Missing
    <3>2. disk.events[k].type = "door"
      BY <2>2, <3>1, Zenon DEF Book, Entries
    <3>3. \A l \in DOMAIN disk.events : disk.events[l].call = c => l = k
      BY <3>1, <3>2, Zenon DEF Book, Entries
    <3>4. Recorded(c) = {k}
      BY <3>1, <3>3, Zenon DEF Recorded
    <3>5. QED
      BY <2>2, <3>4, FS_Singleton, Zenon
  <2>3. CASE c \notin admitted
    <3>1. ASSUME NEW k \in DOMAIN disk.events, disk.events[k].call = c PROVE FALSE
      <4>1. disk.events[k].call = "none"
        BY <2>3, <3>1, Zenon DEF Book, Entries
      <4>2. QED
        BY <3>1, <4>1, FiniteCalls, Zenon
    <3>2. Recorded(c) = {}
      BY <3>1, Zenon DEF Recorded
    <3>3. QED
      BY <2>3, <3>2, FS_EmptySet, Zenon
  <2>4. QED
    BY <2>2, <2>3, Zenon
<1>2. QED
  BY <1>1, ControlInvariance, BookInvariance, LedgerInvariance, PTL

-----------------------------------------------------------------------------
(* What Run returns.                                                        *)

LEMMA ReturnedStep ==
  ASSUME Control, Book, Book', Returned, [Next]_vars
  PROVE  Returned'
<1> SUFFICES ASSUME pc' = "over", Verified', disk'.events # <<>>, ~result'.err
             PROVE  Matches(disk.events[Len(disk.events)])'
  BY Zenon DEF Returned
<1>1. LedgerTypes /\ logErr \in BOOLEAN
  BY Zenon DEF Book, Control, EngineTypes
<1>2. ASSUME UNCHANGED <<disk, pc, result>> PROVE Matches(disk.events[Len(disk.events)])'
  BY <1>2, Zenon DEF Returned, Verified, Matches
<1>3. ASSUME NEW e \in Ev, Adds(e) PROVE disk'.events[Len(disk'.events)] = e
  <2>1. Len(disk'.events) = Len(disk.events) + 1 /\ disk'.events[Len(disk.events) + 1] = e
    BY <1>1, <1>3, Grown, Zenon
  <2>2. QED
    BY <2>1, Zenon
<1>4. CASE Engine
  <2>1. CASE OpenFails
    BY <2>1, Zenon DEF OpenFails, ledger, Book, Ended
  <2>2. CASE LedgerFailed
    <3>1. result' = [status |-> "failed", err |-> TRUE]
      BY <2>2, Zenon DEF LedgerFailed, Returns
    <3>2. QED
      BY <3>1
  <2>3. CASE Refuse
    <3> DEFINE e == Event("run_refused", NoStep)
    <3>1. Note(e) /\ e.type = "run_refused"
      BY <2>3, RefuseNote, Zenon
    <3> HIDE DEF e
    <3>2. result' = [status |-> "refused", err |-> logErr'] /\ disk.tail = "clean"
      BY <2>3, Zenon DEF Refuse, Returns, Book, Ended
    <3>3. result'.status = "refused" /\ ~logErr'
      BY <3>2
    <3>4. e \in Ev /\ Adds(e)
      <4>1. e \in Ev /\ emit(e)
        BY <3>1, Zenon DEF Note
      <4>2. Confirms(e)
        BY <1>1, <3>3, <4>1, EmitCases, Zenon
      <4>3. QED
        BY <3>2, <4>1, <4>2, Zenon DEF Confirms
    <3>5. QED
      BY <1>3, <3>1, <3>3, <3>4, Zenon DEF Matches
  <2>4. CASE Finish
    <3> DEFINE e == [Event("workflow_finished", NoStep) EXCEPT !.status = fin]
    <3>1. Note(e) /\ e.type = "workflow_finished" /\ e.status = fin
      BY <2>4, FinishNote, Zenon
    <3> HIDE DEF e
    <3>2. result' = [status |-> IF logErr' THEN "failed" ELSE fin, err |-> logErr']
      BY <2>4, Zenon DEF Finish, Returns
    <3>3. ~logErr' /\ result'.status = fin
      BY <3>2
    <3>4. e \in Ev /\ Adds(e)
      <4>1. e \in Ev /\ emit(e)
        BY <3>1, Zenon DEF Note
      <4>2. Confirms(e)
        BY <1>1, <3>3, <4>1, EmitCases, Zenon
      <4>3. QED
        BY <4>1, <4>2, Zenon DEF Confirms, Verified
    <3>5. QED
      BY <1>3, <3>1, <3>3, <3>4, Zenon DEF Matches
  <2>5. QED
    BY <1>4, <2>1, <2>2, <2>3, <2>4, LastSteps, Zenon
<1>5. CASE \E c \in Calls : Door(c) \/ \E d \in Doors : Arrive(c, d)
  <2>1. ASSUME Silent PROVE UNCHANGED <<disk, pc, result>>
    BY <2>1, Zenon DEF Silent, ledger, engine
  <2>2. ASSUME NEW c \in Calls, NEW l, Appends(c, l) PROVE FALSE
    <3>1. pc \in {"exec", "stop", "wait"} /\ UNCHANGED engine
      BY <2>2, AppendCases, Zenon
    <3>2. QED
      BY <3>1, Zenon DEF engine
  <2>3. QED
    BY <1>2, <1>5, <2>1, <2>2, DoorSilent, ArriveSilent, Zenon
<1>6. CASE Cancel \/ UNCHANGED vars
  BY <1>2, <1>6, Zenon DEF Cancel, vars, engine, ledger
<1>7. CASE Crash
  BY <1>7, Zenon DEF Crash
<1>8. QED
  BY <1>4, <1>5, <1>6, <1>7, Zenon DEF Next

(* The status Run returns without a ledger error is the one its verified   *)
(* ledger ends with; a run is cancelled only if its context was, and a     *)
(* cancelled run starts at most one more step (Run's logErr and its check  *)
(* of the context).                                                        *)
THEOREM ResultsAreRecorded == Spec => []ResultIsRecorded
<1>1. Init => Returned
  BY Zenon DEF Init, Returned
<1>2. Control /\ Book /\ Book' /\ Returned /\ [Next]_vars => Returned'
  BY ReturnedStep, Zenon
<1>3. Control /\ Returned => ResultIsRecorded
  <2> SUFFICES ASSUME Control, Returned PROVE ResultIsRecorded
    OBVIOUS
  <2>1. late \in 0..1 /\ (fin = "cancelled" => ctx)
    BY Zenon DEF Control, Cancels
  <2>2. late <= 1
    BY <2>1
  <2>3. QED
    BY <2>1, <2>2, Zenon DEF Returned, ResultIsRecorded, Matches
<1>4. QED
  BY <1>1, <1>2, <1>3, ControlInvariance, BookInvariance, PTL DEF Spec

=============================================================================
