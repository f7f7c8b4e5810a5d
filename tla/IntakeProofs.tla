----------------------------- MODULE IntakeProofs -----------------------------
(***************************************************************************)
(* The calls of module Intake as a durable workflow makes them, recovered  *)
(* at any moment: a call has one result, a debounce hands its input to one *)
(* workflow, and the workflow it returns took the input.                   *)
(*                                                                         *)
(* The checkpoints of a call are a path: each says whether the call ended  *)
(* with it, and if not which operation comes next.  A recovered call walks *)
(* the path from its beginning, so that it comes to the first operation    *)
(* without a checkpoint as the call before it did.                         *)
(***************************************************************************)
EXTENDS Intake, FiniteSetTheorems, TLAPS

\* The provers tried, in turn, on a leaf that names none.  Zenon comes first: its
\* translation is deterministic, that to SMT now and then runs out of time.
USE ZenonT(5), SMT, Zenon, Z3, SMTT(6), Z3T(6)

-----------------------------------------------------------------------------
(* The invariant.                                                          *)

\* A checkpoint that ends its call, and what the call then returns.
Final(c, x) == x[1] \in {"handle", "raise"} \/ (x = Dup /\ Call[c] = "start")

Result(x) == IF x[1] = "handle" THEN x ELSE Dup

\* The operation with function ID f enqueues; the others bounce.
Insertion(c, f) == Call[c] # "debounce" \/ (f > FirstId[c] /\ log[c][f - 1] = Word("enqueue"))

\* The checkpoints an operation may have.
Entry(c, f, x) ==
  IF Insertion(c, f) THEN x[1] = "handle" \/ (x = Dup /\ Call[c] # "singleton")
  ELSE x[1] = "handle" \/ x \in {Word("enqueue"), Word("retry"), Word("raise")}

\* The checkpoints have no gaps, and only the last ends the call.
LogInv(c) ==
  /\ \A f \in DOMAIN log[c] : FirstId[c] <= f /\ Entry(c, f, log[c][f])
  /\ \A f \in DOMAIN log[c], h \in Nat : FirstId[c] <= h /\ h <= f => h \in DOMAIN log[c]
  /\ \A f, g \in DOMAIN log[c] : Final(c, log[c][f]) => g <= f

\* The call is at an operation the checkpoints lead to, which has none itself when
\* the call is in the middle of it.
PlaceInv(c) ==
  LET fn == call[c].fn
      pc == call[c].pc
  IN /\ FirstId[c] <= fn
     /\ \A h \in Nat : FirstId[c] <= h /\ h < fn => h \in DOMAIN log[c] /\ ~Final(c, log[c][h])
     /\ pc \in {"holder", "refused", "record", "lookup", "attach"} => fn \notin DOMAIN log[c]
     /\ pc \in {"bounce", "holder"} => ~Insertion(c, fn)
     /\ pc \in {"insert", "refused", "record", "lookup", "attach"} => Insertion(c, fn)
     /\ pc \in {"lookup", "attach"} => Call[c] = "singleton"
     /\ pc = "refused" => Call[c] # "singleton" /\ Id(c) \notin DOMAIN rows
     /\ pc = "record" => Id(c) \in DOMAIN rows

\* What was returned is what the last checkpoint says.
ReturnInv(c) ==
  \A x \in returned[c] : \E f \in DOMAIN log[c] : Final(c, log[c][f]) /\ x = Result(log[c][f])

\* The input went to the workflow of the last checkpoint, or to the row of the next
\* operation, an enqueue.
TookInv(c) ==
  Call[c] = "debounce" =>
    \/ took[c] = {}
    \/ \E f \in DOMAIN log[c], w \in Ids : log[c][f] = Handle(w) /\ took[c] = {w}
    \/ \E f \in Nat :
         /\ took[c] = {<<c, f>>} /\ <<c, f>> \in DOMAIN rows
         /\ f \notin DOMAIN log[c] /\ f - 1 \in DOMAIN log[c] /\ Insertion(c, f)

\* A row was inserted by the call of its ID.
RowsInv == \A c \in Callers, f \in Nat : <<c, f>> \in DOMAIN rows => <<c, f>> \in took[c]

\* Only a debounce bounces.
BounceInv == \A c \in Callers : call[c].pc \in {"bounce", "holder"} => Call[c] = "debounce"

\* A client's call has no checkpoints.
ClientInv(c) ==
  /\ DOMAIN log[c] = {}
  /\ call[c].pc \notin {"refused", "record", "attach"}
  /\ call[c].pc = "lookup" => Call[c] = "singleton"

WorkflowInv(c) == LogInv(c) /\ PlaceInv(c) /\ ReturnInv(c) /\ TookInv(c)

\* The workflow a debounce was told of took its input.
HandleInv(c) ==
  Call[c] = "debounce" =>
    /\ \A f \in DOMAIN log[c] : log[c][f][1] = "handle" => log[c][f][2] \in took[c]
    /\ \A r \in returned[c] : r = Dup \/ r[2] \in took[c]

\* The workflow calls whose every result is recorded: the catch block of
\* internalWorkflow records no duplication error at function ID 0, where only a plain
\* enqueue can meet it.
Sound == {c \in InWorkflow : Call[c] = "start" => FirstId[c] # 0}

Inv ==
  /\ TypeOK /\ RowsInv /\ BounceInv
  /\ \A c \in Sound : WorkflowInv(c)
  /\ \A c \in Callers \ InWorkflow : ClientInv(c)
  /\ \A c \in Callers : HandleInv(c)

-----------------------------------------------------------------------------
(* What the actions do.                                                    *)

\* A step of the call c, and a step of no call.
By(c) == CallStep(c) \/ BounceAckLost(c) \/ InsertAckLost(c) \/ Crash(c)

Idle == UNCHANGED <<log, call, returned, took>> /\ DOMAIN rows' = DOMAIN rows

Others(c) ==
  \A d \in Callers \ {c} :
    log'[d] = log[d] /\ call'[d] = call[d] /\ returned'[d] = returned[d] /\ took'[d] = took[d]

\* Where the input of a call goes: nowhere new, into a row that is there, into a row
\* of its own.
Kept == DOMAIN rows' = DOMAIN rows /\ took' = took

Absorbs(c, w) ==
  /\ w \in DOMAIN rows /\ DOMAIN rows' = DOMAIN rows
  /\ took' = [took EXCEPT ![c] = @ \cup {w}]

Enters(c) ==
  /\ Id(c) \notin DOMAIN rows /\ DOMAIN rows' = DOMAIN rows \cup {Id(c)}
  /\ took' = [took EXCEPT ![c] = @ \cup {Id(c)}]

\* The call ends with the checkpoint x, or goes on with the operation x leads to.
Continues(c, x) ==
  \/ Final(c, x) /\ Return(c, Result(x))
  \/ ~Final(c, x) /\ GotoNext(c, IF x = Word("enqueue") THEN "insert" ELSE "bounce")

\* The operation ends with the checkpoint x, written now or before, and the call ends
\* or goes on as x says.
Follows(c, x) ==
  /\ Entry(c, call[c].fn, x)
  /\ \/ call[c].fn \in DOMAIN log[c] /\ x = log[c][call[c].fn] /\ log' = log
     \/ call[c].fn \notin DOMAIN log[c] /\ Checkpoint(c, x)
  /\ Continues(c, x)

\* The call moves on within an operation that has no checkpoint.
Inner(c) ==
  /\ call[c].fn \notin DOMAIN log[c] /\ UNCHANGED <<log, returned>>
  /\ call'[c].fn = call[c].fn
  /\ \/ call[c].pc = "bounce" /\ call'[c].pc = "holder"
     \/ /\ call[c].pc \in {"insert", "lookup"}
        /\ \/ call'[c].pc = "insert"
           \/ call'[c].pc = "record" /\ Id(c) \in DOMAIN rows'
           \/ call'[c].pc = "refused" /\ Call[c] # "singleton" /\ Id(c) \notin DOMAIN rows'
           \/ call'[c].pc \in {"lookup", "attach"} /\ Call[c] = "singleton"

Restarts(c) ==
  /\ UNCHANGED <<log, returned>>
  /\ call'[c].pc = Start(c) /\ call'[c].fn = FirstId[c]

\* An operation that ends without taking the input: what it says of the input is
\* what has become of it.
Reports(c, x) ==
  /\ Follows(c, x) /\ Kept
  /\ Call[c] = "debounce" =>
       /\ x[1] = "handle" => x[2] \in took[c]
       /\ call[c].fn \notin DOMAIN log[c] /\ Insertion(c, call[c].fn) /\ Id(c) \in DOMAIN rows =>
            x = Handle(Id(c))

Coalesces(c, w) ==
  /\ call[c].pc = "bounce" /\ call[c].fn \notin DOMAIN log[c]
  /\ Follows(c, Handle(w)) /\ Absorbs(c, w)

Creates(c) == call[c].pc = "insert" /\ Inner(c) /\ Enters(c)

WorkflowStep(c) ==
  \/ \E x : Reports(c, x)
  \/ \E w : Coalesces(c, w)
  \/ Inner(c) /\ Kept
  \/ Creates(c)
  \/ Restarts(c) /\ Kept

\* A step of no call, or of one.
LEMMA StepOfOne ==
  ASSUME [Next]_vars
  PROVE  Idle \/ \E c \in Callers : By(c)
<1>1. CASE \E c \in Callers : CallStep(c) \/ BounceAckLost(c) \/ InsertAckLost(c) \/ Crash(c)
  BY <1>1 DEF By
<1>2. ASSUME NEW w \in DOMAIN rows, Complete(w) \/ CancelRow(w) \/ SetWorkflowDelay(w)
      PROVE  Idle
  <2>1. UNCHANGED <<log, call, returned, took>>
    BY <1>2 DEF Complete, CancelRow, SetWorkflowDelay
  <2>2. DOMAIN rows' = DOMAIN rows
    BY <1>2 DEF Complete, CancelRow, SetWorkflowDelay
  <2>3. QED
    BY <2>1, <2>2 DEF Idle
<1>3. CASE TransitionDelayed
  BY <1>3 DEF TransitionDelayed, Idle
<1>4. CASE Tick \/ UNCHANGED vars
  BY <1>4 DEF Tick, vars, Idle
<1>5. QED
  BY <1>1, <1>2, <1>3, <1>4 DEF Next

\* A bounce changes no row's ID, and an insert adds the caller's.
LEMMA InputSteps ==
  ASSUME NEW c \in Callers, By(c)
  PROVE  Kept \/ (\E w : Absorbs(c, w)) \/ Enters(c)
<1>1. CASE Bounce(c) \/ BounceAckLost(c)
  <2>1. PICK w \in Bounceable(c) :
          /\ rows' = [rows EXCEPT ![w].delay = Extended(w), ![w].input = c]
          /\ took' = [took EXCEPT ![c] = @ \cup {w}]
    BY <1>1 DEF Bounce, BounceAckLost
  <2>2. w \in DOMAIN rows /\ DOMAIN rows' = DOMAIN rows
    BY <2>1 DEF Bounceable, Holders
  <2>3. QED
    BY <2>1, <2>2 DEF Absorbs
<1>2. CASE Insert(c) \/ InsertAckLost(c)
  BY <1>2 DEF Insert, InsertAckLost, Kept, Enters
<1>3. CASE ReplayBounce(c) \/ BounceMiss(c) \/ Holder(c)
  BY <1>3 DEF ReplayBounce, BounceMiss, Holder, Kept
<1>4. CASE ReplayInsert(c) \/ InsertDuplicate(c) \/ RecordDuplicate(c) \/ RecordChild(c)
  BY <1>4 DEF ReplayInsert, InsertDuplicate, RecordDuplicate, RecordChild, Kept
<1>5. CASE Singleton(c) \/ Crash(c)
  BY <1>5 DEF Singleton, Lookup, RecordExisting, Crash, Kept
<1>6. QED
  BY <1>1, <1>2, <1>3, <1>4, <1>5 DEF By, CallStep, Debounce, Enqueue

\* A row is inserted together with the note that it holds the caller's input.
LEMMA RowsNext ==
  ASSUME Inv, [Next]_vars
  PROVE  RowsInv'
<1>1. CASE Idle
  BY <1>1 DEF Idle, RowsInv, Inv
<1>2. ASSUME NEW c \in Callers, By(c)
      PROVE  RowsInv'
  <2>1. CASE Kept
    BY <2>1 DEF Kept, RowsInv, Inv
  <2>2. ASSUME NEW w, Absorbs(c, w)
        PROVE  RowsInv'
    BY <2>2 DEF Absorbs, RowsInv, Inv, TypeOK
  <2>3. CASE Enters(c)
    BY <2>3 DEF Enters, RowsInv, Inv, TypeOK, Id
  <2>4. QED
    BY <1>2, <2>1, <2>2, <2>3, InputSteps
<1>3. QED
  BY <1>1, <1>2, StepOfOne

\* What a step of a call does to the call's own state.
Own(c) ==
  /\ \E k \in CallType :
       call' = [call EXCEPT ![c] = k] /\ (k.pc \in {"bounce", "holder"} => Call[c] = "debounce")
  /\ returned' = returned \/ \E x : returned' = [returned EXCEPT ![c] = @ \cup {x}]
  /\ log' = log \/ \E x : Checkpoint(c, x)

\* The three ways a call moves.
LEMMA Moves ==
  ASSUME TypeOK, NEW c \in Callers
  PROVE  /\ \A x : Return(c, x) =>
              /\ \E k \in CallType : k.pc = "done" /\ call' = [call EXCEPT ![c] = k]
              /\ \E y : returned' = [returned EXCEPT ![c] = @ \cup {y}]
         /\ \A pc \in {"bounce", "holder", "insert", "refused", "record", "lookup"} :
              Goto(c, pc) \/ GotoNext(c, pc) =>
                /\ \E k \in CallType : k.pc = pc /\ call' = [call EXCEPT ![c] = k]
                /\ returned' = returned
<1>1. call \in [Callers -> CallType]
  BY DEF TypeOK
<1>2. PICK k \in CallType : k = call[c]
  BY <1>1
<1>3. NextFn(c) \in Nat
  BY <1>2 DEF NextFn, CallType
<1>4. ASSUME NEW x, Return(c, x)
      PROVE  /\ \E h \in CallType : h.pc = "done" /\ call' = [call EXCEPT ![c] = h]
             /\ \E y : returned' = [returned EXCEPT ![c] = @ \cup {y}]
  <2> DEFINE h == [k EXCEPT !.pc = "done", !.existing = Null]
  <2>1. h \in CallType /\ h.pc = "done"
    BY DEF CallType
  <2>2. call' = [call EXCEPT ![c] = h]
    BY <1>1, <1>2, <1>4 DEF Return
  <2>3. returned' = [returned EXCEPT ![c] = @ \cup {x}]
    BY <1>4 DEF Return
  <2> QED
    BY <2>1, <2>2, <2>3
<1>5. ASSUME NEW pc \in {"bounce", "holder", "insert", "refused", "record", "lookup"}, Goto(c, pc)
      PROVE  /\ \E h \in CallType : h.pc = pc /\ call' = [call EXCEPT ![c] = h]
             /\ returned' = returned
  <2> DEFINE h == [k EXCEPT !.pc = pc]
  <2>1. h \in CallType /\ h.pc = pc
    BY DEF CallType
  <2>2. call' = [call EXCEPT ![c] = h] /\ returned' = returned
    BY <1>1, <1>2, <1>5 DEF Goto
  <2> QED
    BY <2>1, <2>2
<1>6. ASSUME NEW pc \in {"bounce", "holder", "insert", "refused", "record", "lookup"}, GotoNext(c, pc)
      PROVE  /\ \E h \in CallType : h.pc = pc /\ call' = [call EXCEPT ![c] = h]
             /\ returned' = returned
  <2> DEFINE h == [k EXCEPT !.pc = pc, !.fn = NextFn(c)]
  <2>1. h \in CallType /\ h.pc = pc
    BY <1>3 DEF CallType
  <2>2. call' = [call EXCEPT ![c] = h] /\ returned' = returned
    BY <1>1, <1>2, <1>6 DEF GotoNext
  <2> QED
    BY <2>1, <2>2
<1> QED
  BY <1>4, <1>5, <1>6

\* A bounce's checkpoint is one of its answers.
LEMMA Answers ==
  ASSUME Inv, NEW c \in Callers, call[c].pc = "bounce", Recorded(c)
  PROVE  /\ c \in Sound /\ Call[c] = "debounce" /\ ~Insertion(c, call[c].fn)
         /\ Entry(c, call[c].fn, log[c][call[c].fn])
         /\ log[c][call[c].fn][1] \in {"enqueue", "retry", "raise", "handle"}
<1>1. c \in InWorkflow /\ Call[c] = "debounce" /\ call[c].fn \in DOMAIN log[c]
  BY DEF Inv, BounceInv, Recorded
<1>2. c \in Sound
  BY <1>1 DEF Sound
<1>3. LogInv(c) /\ PlaceInv(c)
  BY <1>2 DEF Inv, WorkflowInv
<1>4. ~Insertion(c, call[c].fn)
  BY <1>3 DEF PlaceInv
<1>5. Entry(c, call[c].fn, log[c][call[c].fn])
  BY <1>1, <1>3 DEF LogInv
<1>6. log[c][call[c].fn][1] \in {"enqueue", "retry", "raise", "handle"}
  BY <1>4, <1>5 DEF Entry, Word
<1> QED
  BY <1>1, <1>2, <1>4, <1>5, <1>6

\* A step of a call changes no other.
LEMMA OwnSteps ==
  ASSUME Inv, NEW c \in Callers, By(c)
  PROVE  Own(c)
<1> DEFINE Control ==
      /\ \E k \in CallType :
           call' = [call EXCEPT ![c] = k] /\ (k.pc \in {"bounce", "holder"} => Call[c] = "debounce")
      /\ returned' = returned \/ \E x : returned' = [returned EXCEPT ![c] = @ \cup {x}]
<1>0. TypeOK
  BY DEF Inv
<1>1. ASSUME NEW x, Return(c, x)
      PROVE  Control
  <2>1. PICK k \in CallType : k.pc = "done" /\ call' = [call EXCEPT ![c] = k]
    BY <1>0, <1>1, Moves
  <2>2. \E y : returned' = [returned EXCEPT ![c] = @ \cup {y}]
    BY <1>0, <1>1, Moves
  <2>3. k.pc \notin {"bounce", "holder"}
    BY <2>1
  <2> QED
    BY <2>1, <2>2, <2>3
<1>2. ASSUME NEW pc \in {"bounce", "holder", "insert", "refused", "record", "lookup"},
             pc \in {"bounce", "holder"} => Call[c] = "debounce",
             Goto(c, pc) \/ GotoNext(c, pc)
      PROVE  Control
  <2>1. PICK k \in CallType : k.pc = pc /\ call' = [call EXCEPT ![c] = k]
    BY <1>0, <1>2, Moves
  <2>2. returned' = returned
    BY <1>0, <1>2, Moves
  <2> QED
    BY <1>2, <2>1, <2>2
<1>3. ASSUME NEW x, Classify(c, x), Call[c] = "debounce",
             x[1] \in {"enqueue", "retry", "raise", "handle"}
      PROVE  Control
  <2>1. GotoNext(c, "insert") \/ GotoNext(c, "bounce") \/ Return(c, Dup) \/ Return(c, x)
    BY <1>3 DEF Classify
  <2> QED
    BY <1>1, <1>2, <1>3, <2>1
<1>4. ASSUME Duplicate(c)
      PROVE  Control
  <2>1. Call[c] \in {"debounce", "singleton", "start"}
    BY IntakeAssumption
  <2>2. (Call[c] = "debounce" /\ GotoNext(c, "bounce")) \/ Goto(c, "lookup") \/ Return(c, Dup)
    BY <1>4, <2>1 DEF Duplicate
  <2> QED
    BY <1>1, <1>2, <2>2
<1>5. ASSUME call' = call, returned' = returned
      PROVE  Control
  <2>1. PICK k \in CallType : k = call[c]
    BY <1>0 DEF TypeOK
  <2>2. call' = [call EXCEPT ![c] = k]
    BY <1>0, <1>5, <2>1 DEF TypeOK
  <2> QED
    BY <1>5, <2>1, <2>2 DEF Inv, BounceInv
<1>16. log' = log \/ \E x : Checkpoint(c, x)
  <2>1. CASE Debounce(c)
    BY <2>1 DEF Debounce, ReplayBounce, Bounce, BounceMiss, Holder
  <2>2. CASE Enqueue(c)
    BY <2>2 DEF Enqueue, ReplayInsert, Insert, InsertDuplicate, RecordDuplicate, RecordChild
  <2>3. CASE Singleton(c)
    BY <2>3 DEF Singleton, Lookup, RecordExisting
  <2>4. CASE BounceAckLost(c) \/ InsertAckLost(c) \/ Crash(c)
    BY <2>4 DEF BounceAckLost, InsertAckLost, Crash
  <2> QED
    BY <2>1, <2>2, <2>3, <2>4 DEF By, CallStep
<1> HIDE DEF Control
<1> SUFFICES Control
  BY <1>16 DEF Own, Control
<1>6. CASE ReplayBounce(c)
  BY <1>3, <1>6, Answers DEF ReplayBounce
<1>7. CASE Bounce(c) \/ RecordChild(c) \/ RecordExisting(c)
  BY <1>1, <1>7 DEF Bounce, RecordChild, RecordExisting
<1>8. CASE BounceMiss(c)
  BY <1>2, <1>8 DEF BounceMiss, Inv, BounceInv
<1>9. CASE Holder(c)
  <2>1. PICK x : Classify(c, x) /\ x[1] \in {"enqueue", "retry", "raise", "handle"}
    BY <1>9 DEF Holder, Word
  <2> QED
    BY <1>3, <1>9, <2>1 DEF Holder, Inv, BounceInv
<1>10. CASE ReplayInsert(c)
  BY <1>1, <1>4, <1>10 DEF ReplayInsert
<1>11. CASE Insert(c)
  <2>1. Goto(c, "record") \/ \E x : Return(c, x)
    BY <1>11 DEF Insert, Inserted
  <2> QED
    BY <1>1, <1>2, <2>1
<1>12. CASE InsertDuplicate(c) \/ RecordDuplicate(c)
  <2>1. Goto(c, "refused") \/ Duplicate(c)
    BY <1>12 DEF InsertDuplicate, RecordDuplicate
  <2> QED
    BY <1>2, <1>4, <2>1
<1>13. CASE Lookup(c)
  <2>1. CASE Holders = {}
    BY <1>2, <1>13, <2>1 DEF Lookup
  <2>2. CASE Holders # {}
    <3>1. PICK w \in Holders :
            IF c \in InWorkflow
            THEN /\ call' = [call EXCEPT ![c].pc = "attach", ![c].existing = w]
                 /\ UNCHANGED returned
            ELSE Return(c, Handle(w))
      BY <1>13, <2>2 DEF Lookup
    <3>2. CASE c \notin InWorkflow
      BY <1>1, <3>1, <3>2
    <3>3. CASE c \in InWorkflow
      <4>1. PICK h \in CallType : h = call[c]
        BY <1>0 DEF TypeOK
      <4> DEFINE k == [h EXCEPT !.pc = "attach", !.existing = w]
      <4>2. w \in Ids
        BY <1>0 DEF TypeOK, Holders
      <4>3. k \in CallType /\ k.pc = "attach"
        BY <4>2 DEF CallType
      <4>4. call' = [call EXCEPT ![c] = k] /\ returned' = returned
        BY <1>0, <3>1, <3>3, <4>1 DEF TypeOK
      <4> HIDE DEF k
      <4>5. k.pc \notin {"bounce", "holder"}
        BY <4>3
      <4> QED
        BY <4>3, <4>4, <4>5 DEF Control
    <3> QED
      BY <3>2, <3>3
  <2> QED
    BY <2>1, <2>2
<1>14. CASE BounceAckLost(c) \/ InsertAckLost(c)
  BY <1>5, <1>14 DEF BounceAckLost, InsertAckLost
<1>15. CASE Crash(c)
  <2>1. CASE c \in InWorkflow
    <3> DEFINE k == [pc |-> Start(c), fn |-> FirstId[c], existing |-> Null]
    <3>1. k \in CallType /\ (k.pc \in {"bounce", "holder"} => Call[c] = "debounce")
      BY IntakeAssumption DEF CallType, Start
    <3>2. call' = [call EXCEPT ![c] = k] /\ returned' = returned
      BY <1>15, <2>1 DEF Crash
    <3> HIDE DEF k
    <3> QED
      BY <3>1, <3>2 DEF Control
  <2>2. CASE c \notin InWorkflow
    <3>1. PICK h \in CallType : h = call[c]
      BY <1>0 DEF TypeOK
    <3> DEFINE k == [h EXCEPT !.pc = "dead"]
    <3>2. k \in CallType /\ k.pc \notin {"bounce", "holder"}
      BY DEF CallType
    <3>3. call' = [call EXCEPT ![c] = k] /\ returned' = returned
      BY <1>0, <1>15, <2>2, <3>1 DEF Crash, TypeOK
    <3> HIDE DEF k
    <3> QED
      BY <3>2, <3>3 DEF Control
  <2> QED
    BY <2>1, <2>2
<1> QED
  BY <1>6, <1>7, <1>8, <1>9, <1>10, <1>11, <1>12, <1>13, <1>14, <1>15
  DEF By, CallStep, Debounce, Enqueue, Singleton

\* Types are preserved.
LEMMA TypeNext ==
  ASSUME Inv, [Next]_vars
  PROVE  TypeOK' /\ BounceInv'
<1>0. TypeOK /\ BounceInv
  BY DEF Inv
<1>1. now' \in Nat /\ faults' \in Nat
  <2>1. now' = now \/ now' = now + 1
    BY DEF Next, vars, CallStep, Debounce, ReplayBounce, Bounce, BounceMiss, Holder, Enqueue,
           ReplayInsert, Insert, InsertDuplicate, RecordDuplicate, RecordChild, Singleton, Lookup,
           RecordExisting, BounceAckLost, InsertAckLost, Crash, Complete, CancelRow,
           SetWorkflowDelay, TransitionDelayed, Tick
  <2>2. faults' = faults \/ faults' = faults + 1
    BY DEF Next, vars, CallStep, Debounce, ReplayBounce, Bounce, BounceMiss, Holder, Enqueue,
           ReplayInsert, Insert, InsertDuplicate, RecordDuplicate, RecordChild, Singleton, Lookup,
           RecordExisting, BounceAckLost, InsertAckLost, Crash, Complete, CancelRow,
           SetWorkflowDelay, TransitionDelayed, Tick
  <2> QED
    BY <1>0, <2>1, <2>2 DEF TypeOK
<1>2. CASE Idle
  BY <1>0, <1>1, <1>2 DEF Idle, TypeOK, BounceInv
<1>3. ASSUME NEW c \in Callers, By(c)
      PROVE  TypeOK' /\ BounceInv'
  <2>1. Own(c)
    BY <1>3, OwnSteps
  <2>2. Id(c) \in Ids
    BY <1>0 DEF TypeOK, CallType, Id, Ids
  <2>3. DOMAIN rows' \subseteq Ids /\ took' \in [Callers -> SUBSET Ids]
    <3>1. CASE Kept
      BY <1>0, <3>1 DEF Kept, TypeOK
    <3>2. ASSUME NEW w, Absorbs(c, w)
          PROVE  DOMAIN rows' \subseteq Ids /\ took' \in [Callers -> SUBSET Ids]
      BY <1>0, <3>2 DEF Absorbs, TypeOK
    <3>3. CASE Enters(c)
      BY <1>0, <2>2, <3>3 DEF Enters, TypeOK
    <3> QED
      BY <1>3, <3>1, <3>2, <3>3, InputSteps
  <2>4. call' \in [Callers -> CallType] /\ BounceInv'
    <3>1. PICK k \in CallType :
            call' = [call EXCEPT ![c] = k] /\ (k.pc \in {"bounce", "holder"} => Call[c] = "debounce")
      BY <2>1 DEF Own
    <3> QED
      BY <1>0, <3>1 DEF TypeOK, BounceInv
  <2>5. DOMAIN returned' = Callers
    BY <1>0, <2>1 DEF Own, TypeOK
  <2>6. DOMAIN log' = Callers /\ \A d \in Callers : DOMAIN log'[d] \subseteq Nat
    <3>1. CASE log' = log
      BY <1>0, <3>1 DEF TypeOK
    <3>2. ASSUME NEW x, Checkpoint(c, x)
          PROVE  DOMAIN log' = Callers /\ \A d \in Callers : DOMAIN log'[d] \subseteq Nat
      <4>1. call[c].fn \in Nat
        BY <1>0 DEF TypeOK, CallType
      <4> QED
        BY <1>0, <3>2, <4>1 DEF TypeOK, Checkpoint
    <3> QED
      BY <2>1, <3>1, <3>2 DEF Own
  <2> QED
    BY <1>1, <2>3, <2>4, <2>5, <2>6 DEF TypeOK
<1> QED
  BY <1>2, <1>3, StepOfOne

\* A step of a call changes nothing of another.
LEMMA OthersKept ==
  ASSUME Inv, NEW c \in Callers, By(c)
  PROVE  Others(c)
<1>0. TypeOK
  BY DEF Inv
<1>1. Own(c)
  BY OwnSteps
<1>2. \A d \in Callers \ {c} : took'[d] = took[d]
  BY <1>0, InputSteps DEF Kept, Absorbs, Enters, TypeOK
<1>3. \A d \in Callers \ {c} : call'[d] = call[d]
  BY <1>0, <1>1 DEF Own, TypeOK
<1>4. \A d \in Callers \ {c} : returned'[d] = returned[d]
  BY <1>0, <1>1 DEF Own, TypeOK
<1>5. \A d \in Callers \ {c} : log'[d] = log[d]
  BY <1>0, <1>1 DEF Own, TypeOK, Checkpoint
<1> QED
  BY <1>2, <1>3, <1>4, <1>5 DEF Others

\* Where a call is after it moved.
LEMMA Places ==
  ASSUME TypeOK, NEW c \in Callers, NEW pc
  PROVE  /\ Goto(c, pc) => call'[c].pc = pc /\ call'[c].fn = call[c].fn /\ returned' = returned
         /\ GotoNext(c, pc) => call'[c].pc = pc /\ call'[c].fn = NextFn(c) /\ returned' = returned
         /\ \A x : Return(c, x) => call'[c].pc = "done" /\ call'[c].fn = call[c].fn
  BY DEF TypeOK, CallType, Goto, GotoNext, Return

\* A bounce's answer leads where its checkpoint says.
LEMMA AnswerContinues ==
  ASSUME NEW c \in Callers, NEW x, Call[c] = "debounce", Classify(c, x),
         x[1] = "handle" \/ x \in {Word("enqueue"), Word("retry"), Word("raise")}
  PROVE  Continues(c, x)
<1>1. CASE x[1] = "handle"
  <2>1. Return(c, x)
    BY <1>1 DEF Classify
  <2>2. Final(c, x) /\ Result(x) = x
    BY <1>1 DEF Final, Result
  <2> QED
    BY <2>1, <2>2 DEF Continues
<1>2. CASE x = Word("enqueue")
  <2>1. x[1] = "enqueue" /\ x # Dup
    BY <1>2 DEF Word, Dup
  <2>2. GotoNext(c, "insert")
    BY <2>1 DEF Classify
  <2> QED
    BY <1>2, <2>1, <2>2 DEF Continues, Final
<1>3. CASE x = Word("retry")
  <2>1. x[1] = "retry" /\ x # Dup /\ x # Word("enqueue")
    BY <1>3 DEF Word, Dup
  <2>2. GotoNext(c, "bounce")
    BY <2>1 DEF Classify
  <2> QED
    BY <2>1, <2>2 DEF Continues, Final
<1>4. CASE x = Word("raise")
  <2>1. x[1] = "raise"
    BY <1>4 DEF Word
  <2>2. Return(c, Dup)
    BY <2>1 DEF Classify
  <2>3. Final(c, x) /\ Result(x) = Dup
    BY <2>1 DEF Final, Result
  <2> QED
    BY <2>2, <2>3 DEF Continues
<1> QED
  BY <1>1, <1>2, <1>3, <1>4

\* So does an enqueue's.
LEMMA InsertContinues ==
  ASSUME NEW c \in Callers, NEW x, x[1] = "handle" \/ (x = Dup /\ Call[c] # "singleton"),
         IF x = Dup THEN Duplicate(c) ELSE Return(c, x)
  PROVE  Continues(c, x)
<1>0. Dup[1] = "dup" /\ Dup # Word("enqueue")
  BY DEF Dup, Word
<1>1. CASE x[1] = "handle"
  <2>1. Return(c, x)
    BY <1>0, <1>1
  <2>2. Final(c, x) /\ Result(x) = x
    BY <1>1 DEF Final, Result
  <2> QED
    BY <2>1, <2>2 DEF Continues
<1>2. CASE x = Dup /\ Call[c] = "debounce"
  <2>1. GotoNext(c, "bounce")
    BY <1>2 DEF Duplicate
  <2>2. ~Final(c, x) /\ x # Word("enqueue")
    BY <1>0, <1>2 DEF Final
  <2> QED
    BY <2>1, <2>2 DEF Continues
<1>3. CASE x = Dup /\ Call[c] = "start"
  <2>1. Return(c, Dup)
    BY <1>3 DEF Duplicate
  <2>2. Final(c, x) /\ Result(x) = Dup
    BY <1>0, <1>3 DEF Final, Result
  <2> QED
    BY <2>1, <2>2 DEF Continues
<1> QED
  BY <1>1, <1>2, <1>3, IntakeAssumption

\* Every step of a workflow's call is of one of five kinds.
LEMMA WorkflowSteps ==
  ASSUME Inv, NEW c \in Sound, By(c)
  PROVE  WorkflowStep(c)
<1>0. /\ c \in InWorkflow /\ c \in Callers /\ TypeOK /\ LogInv(c) /\ PlaceInv(c) /\ HandleInv(c)
      /\ Recorded(c) <=> call[c].fn \in DOMAIN log[c]
  BY IntakeAssumption DEF Inv, Sound, WorkflowInv, Recorded
<1>1. CASE ReplayBounce(c)
  <2> DEFINE x == log[c][call[c].fn]
  <2>1. /\ call[c].pc = "bounce" /\ Recorded(c) /\ Classify(c, x)
        /\ rows' = rows /\ log' = log /\ took' = took
    BY <1>1 DEF ReplayBounce
  <2>2. Call[c] = "debounce" /\ ~Insertion(c, call[c].fn) /\ Entry(c, call[c].fn, x)
    BY <1>0, <2>1, Answers
  <2>3. x[1] = "handle" \/ x \in {Word("enqueue"), Word("retry"), Word("raise")}
    BY <2>2 DEF Entry
  <2>4. x[1] = "handle" => x[2] \in took[c]
    BY <1>0, <2>1, <2>2 DEF HandleInv
  <2> HIDE DEF x
  <2>5. Continues(c, x)
    BY <1>0, <2>1, <2>2, <2>3, AnswerContinues
  <2>6. Follows(c, x)
    BY <1>0, <2>1, <2>2, <2>5 DEF Follows, x
  <2>7. Reports(c, x)
    BY <1>0, <2>1, <2>4, <2>6 DEF Reports, Kept
  <2> QED
    BY <2>7 DEF WorkflowStep
<1>2. CASE Bounce(c)
  <2>1. PICK w \in Bounceable(c) :
          /\ rows' = [rows EXCEPT ![w].delay = Extended(w), ![w].input = c]
          /\ took' = [took EXCEPT ![c] = @ \cup {w}]
          /\ Checkpoint(c, Handle(w))
          /\ Return(c, Handle(w))
    BY <1>2 DEF Bounce
  <2>2. call[c].pc = "bounce" /\ call[c].fn \notin DOMAIN log[c]
    BY <1>0, <1>2 DEF Bounce
  <2>3. Absorbs(c, w)
    BY <2>1 DEF Absorbs, Bounceable, Holders
  <2>4. Handle(w)[1] = "handle"
    BY DEF Handle
  <2>5. Entry(c, call[c].fn, Handle(w)) /\ Final(c, Handle(w)) /\ Result(Handle(w)) = Handle(w)
    BY <2>4 DEF Entry, Final, Result
  <2>6. Follows(c, Handle(w))
    BY <2>1, <2>2, <2>5 DEF Follows, Continues
  <2>7. Coalesces(c, w)
    BY <2>2, <2>3, <2>6 DEF Coalesces
  <2> QED
    BY <2>7 DEF WorkflowStep
<1>3. CASE BounceMiss(c)
  <2>1. /\ call[c].pc = "bounce" /\ call[c].fn \notin DOMAIN log[c] /\ Goto(c, "holder")
        /\ rows' = rows /\ log' = log /\ took' = took
    BY <1>0, <1>3 DEF BounceMiss
  <2>2. call'[c].pc = "holder" /\ call'[c].fn = call[c].fn /\ returned' = returned
    BY <1>0, <2>1, Places
  <2>3. Inner(c) /\ Kept
    BY <2>1, <2>2 DEF Inner, Kept
  <2> QED
    BY <2>3 DEF WorkflowStep
<1>4. CASE Holder(c)
  <2>1. PICK x \in {Word("enqueue"), Word("retry"), Word("raise")} :
          Checkpoint(c, x) /\ Classify(c, x)
    BY <1>4 DEF Holder
  <2>2. call[c].pc = "holder" /\ rows' = rows /\ took' = took
    BY <1>4 DEF Holder
  <2>3. call[c].fn \notin DOMAIN log[c] /\ ~Insertion(c, call[c].fn) /\ Call[c] = "debounce"
    BY <1>0, <2>2 DEF PlaceInv, Insertion
  <2>4. Continues(c, x)
    BY <1>0, <2>1, <2>3, AnswerContinues
  <2>5. Entry(c, call[c].fn, x) /\ x[1] # "handle"
    BY <2>1, <2>3 DEF Entry, Word
  <2>6. Follows(c, x)
    BY <2>1, <2>3, <2>4, <2>5 DEF Follows
  <2>7. Reports(c, x)
    BY <2>2, <2>3, <2>5, <2>6 DEF Reports, Kept
  <2> QED
    BY <2>7 DEF WorkflowStep
<1>5. CASE ReplayInsert(c)
  <2> DEFINE x == log[c][call[c].fn]
  <2>1. /\ call[c].pc = "insert" /\ Recorded(c)
        /\ IF x = Dup THEN Duplicate(c) ELSE Return(c, x)
        /\ rows' = rows /\ log' = log /\ took' = took
    BY <1>5 DEF ReplayInsert
  <2>2. Insertion(c, call[c].fn) /\ Entry(c, call[c].fn, x)
    BY <1>0, <2>1 DEF PlaceInv, LogInv
  <2>3. Call[c] = "debounce" /\ x[1] = "handle" => x[2] \in took[c]
    BY <1>0, <2>1 DEF HandleInv
  <2> HIDE DEF x
  <2>4. x[1] = "handle" \/ (x = Dup /\ Call[c] # "singleton")
    BY <2>2 DEF Entry
  <2>5. Continues(c, x)
    BY <1>0, <2>1, <2>4, InsertContinues
  <2>6. Follows(c, x)
    BY <1>0, <2>1, <2>2, <2>5 DEF Follows, x
  <2>7. Reports(c, x)
    BY <1>0, <2>1, <2>3, <2>6 DEF Reports, Kept
  <2> QED
    BY <2>7 DEF WorkflowStep
<1>6. CASE Insert(c)
  <2>1. /\ call[c].pc = "insert" /\ call[c].fn \notin DOMAIN log[c] /\ Goto(c, "record")
        /\ log' = log
    BY <1>0, <1>6 DEF Insert, Inserted
  <2>2. call'[c].pc = "record" /\ call'[c].fn = call[c].fn /\ returned' = returned
    BY <1>0, <2>1, Places
  <2>3. Id(c) \in DOMAIN rows' /\ (Kept \/ Enters(c))
    BY <1>6 DEF Insert, Kept, Enters
  <2>4. Inner(c)
    BY <2>1, <2>2, <2>3 DEF Inner
  <2> QED
    BY <2>1, <2>3, <2>4 DEF WorkflowStep, Creates
<1>7. CASE InsertDuplicate(c)
  <2>1. /\ call[c].pc = "insert" /\ call[c].fn \notin DOMAIN log[c] /\ Id(c) \notin DOMAIN rows
        /\ rows' = rows /\ log' = log /\ took' = took
    BY <1>0, <1>7 DEF InsertDuplicate
  <2>2. CASE Call[c] = "singleton"
    <3>1. Goto(c, "lookup")
      BY <1>7, <2>2 DEF InsertDuplicate, Duplicate
    <3>2. call'[c].pc = "lookup" /\ call'[c].fn = call[c].fn /\ returned' = returned
      BY <1>0, <3>1, Places
    <3>3. Inner(c) /\ Kept
      BY <2>1, <2>2, <3>2 DEF Inner, Kept
    <3> QED
      BY <3>3 DEF WorkflowStep
  <2>3. CASE Call[c] # "singleton"
    <3>1. Goto(c, "refused")
      BY <1>0, <1>7, <2>3 DEF InsertDuplicate
    <3>2. call'[c].pc = "refused" /\ call'[c].fn = call[c].fn /\ returned' = returned
      BY <1>0, <3>1, Places
    <3>3. Inner(c) /\ Kept
      BY <2>1, <2>3, <3>2 DEF Inner, Kept
    <3> QED
      BY <3>3 DEF WorkflowStep
  <2> QED
    BY <2>2, <2>3
<1>8. CASE RecordDuplicate(c)
  <2>1. call[c].pc = "refused" /\ Duplicate(c) /\ rows' = rows /\ took' = took
    BY <1>8 DEF RecordDuplicate
  <2>2. /\ call[c].fn \notin DOMAIN log[c] /\ Insertion(c, call[c].fn)
        /\ Call[c] # "singleton" /\ Id(c) \notin DOMAIN rows /\ FirstId[c] <= call[c].fn
    BY <1>0, <2>1 DEF PlaceInv
  <2>3. call[c].fn # 0
    <3>1. FirstId[c] \in Nat /\ call[c].fn \in Nat /\ Call[c] \in {"debounce", "singleton", "start"}
      BY <1>0, IntakeAssumption DEF TypeOK, CallType
    <3>2. CASE Call[c] = "debounce"
      BY <2>2, <3>1, <3>2 DEF Insertion
    <3>3. CASE Call[c] = "start"
      BY <2>2, <3>1, <3>3 DEF Sound
    <3> QED
      BY <2>2, <3>1, <3>2, <3>3
  <2>4. Checkpoint(c, Dup)
    BY <1>8, <2>3 DEF RecordDuplicate
  <2>5. Continues(c, Dup)
    BY <1>0, <2>1, <2>2, InsertContinues
  <2>6. Entry(c, call[c].fn, Dup)
    BY <2>2 DEF Entry
  <2>7. Follows(c, Dup)
    BY <2>2, <2>4, <2>5, <2>6 DEF Follows
  <2>8. Dup[1] # "handle"
    BY DEF Dup, Word
  <2>9. Reports(c, Dup)
    BY <2>1, <2>2, <2>7, <2>8 DEF Reports, Kept
  <2> QED
    BY <2>9 DEF WorkflowStep
<1>9. ASSUME NEW w, Checkpoint(c, Handle(w)), Return(c, Handle(w)), rows' = rows, took' = took,
             call[c].fn \notin DOMAIN log[c], Insertion(c, call[c].fn),
             Call[c] = "debounce" => w = Id(c) /\ w \in took[c]
      PROVE  WorkflowStep(c)
  <2>1. Handle(w)[1] = "handle" /\ Handle(w)[2] = w
    BY DEF Handle
  <2>2. Entry(c, call[c].fn, Handle(w)) /\ Final(c, Handle(w)) /\ Result(Handle(w)) = Handle(w)
    BY <2>1 DEF Entry, Final, Result
  <2>3. Follows(c, Handle(w))
    BY <1>9, <2>2 DEF Follows, Continues
  <2>4. Reports(c, Handle(w))
    BY <1>9, <2>1, <2>3 DEF Reports, Kept
  <2> QED
    BY <2>4 DEF WorkflowStep
<1>10. CASE RecordChild(c)
  <2>1. /\ call[c].pc = "record" /\ Checkpoint(c, Handle(Id(c))) /\ Return(c, Handle(Id(c)))
        /\ rows' = rows /\ took' = took
    BY <1>10 DEF RecordChild
  <2>2. call[c].fn \notin DOMAIN log[c] /\ Insertion(c, call[c].fn) /\ Id(c) \in DOMAIN rows
    BY <1>0, <2>1 DEF PlaceInv
  <2>3. call[c].fn \in Nat
    BY <1>0 DEF TypeOK, CallType
  <2>4. Id(c) \in took[c]
    BY <1>0, <2>2, <2>3 DEF Inv, RowsInv, Id
  <2> QED
    BY <1>9, <2>1, <2>2, <2>4
<1>11. CASE RecordExisting(c)
  <2>1. /\ call[c].pc = "attach" /\ rows' = rows /\ took' = took
        /\ Checkpoint(c, Handle(call[c].existing)) /\ Return(c, Handle(call[c].existing))
    BY <1>11 DEF RecordExisting
  <2>2. /\ call[c].fn \notin DOMAIN log[c] /\ Insertion(c, call[c].fn)
        /\ Call[c] = "singleton"
    BY <1>0, <2>1 DEF PlaceInv
  <2> QED
    BY <1>9, <2>1, <2>2
<1>12. CASE Lookup(c)
  <2>1. /\ call[c].pc = "lookup" /\ rows' = rows /\ log' = log /\ took' = took
    BY <1>12 DEF Lookup
  <2>2. call[c].fn \notin DOMAIN log[c] /\ Call[c] = "singleton"
    BY <1>0, <2>1 DEF PlaceInv
  <2>3. call'[c].pc \in {"insert", "attach"} /\ call'[c].fn = call[c].fn /\ returned' = returned
    <3>1. CASE Holders = {}
      BY <1>0, <1>12, <3>1, Places DEF Lookup
    <3>2. CASE Holders # {}
      <4>1. PICK w \in Holders :
              call' = [call EXCEPT ![c].pc = "attach", ![c].existing = w] /\ returned' = returned
        BY <1>0, <1>12, <3>2 DEF Lookup
      <4> QED
        BY <1>0, <4>1 DEF TypeOK, CallType
    <3> QED
      BY <3>1, <3>2
  <2>4. Inner(c) /\ Kept
    BY <2>1, <2>2, <2>3 DEF Inner, Kept
  <2> QED
    BY <2>4 DEF WorkflowStep
<1>13. CASE InsertAckLost(c)
  <2>1. /\ call[c].pc = "insert" /\ call[c].fn \notin DOMAIN log[c]
        /\ log' = log /\ call' = call /\ returned' = returned
    BY <1>0, <1>13 DEF InsertAckLost
  <2>2. Enters(c)
    BY <1>13 DEF InsertAckLost, Enters
  <2>3. Inner(c)
    BY <2>1 DEF Inner
  <2> QED
    BY <2>1, <2>2, <2>3 DEF WorkflowStep, Creates
<1>14. CASE Crash(c)
  <2>1. /\ call' = [call EXCEPT ![c] = [pc |-> Start(c), fn |-> FirstId[c], existing |-> Null]]
        /\ rows' = rows /\ log' = log /\ returned' = returned /\ took' = took
    BY <1>0, <1>14 DEF Crash
  <2>2. Restarts(c) /\ Kept
    BY <1>0, <2>1 DEF Restarts, Kept, TypeOK
  <2> QED
    BY <2>2 DEF WorkflowStep
<1>15. ~BounceAckLost(c)
  BY <1>0 DEF BounceAckLost
<1> QED
  BY <1>1, <1>2, <1>3, <1>4, <1>5, <1>6, <1>7, <1>8, <1>10, <1>11, <1>12, <1>13, <1>14, <1>15
  DEF By, CallStep, Debounce, Enqueue, Singleton

-----------------------------------------------------------------------------
(* The path of a workflow's call.                                          *)

\* What a state without a checkpoint for the current operation says of the path: it
\* ends before the operation, and no checkpoint ended the call.
LEMMA Frontier ==
  ASSUME TypeOK, NEW c \in Callers, LogInv(c), PlaceInv(c), call[c].fn \notin DOMAIN log[c]
  PROVE  /\ \A f \in DOMAIN log[c] : f < call[c].fn /\ ~Final(c, log[c][f])
         /\ \A f \in Nat : f \notin DOMAIN log[c] /\ f - 1 \in DOMAIN log[c] => f = call[c].fn
<1> PICK fn \in Nat : fn = call[c].fn
  BY DEF TypeOK, CallType
<1> PICK first \in Nat : first = FirstId[c]
  BY IntakeAssumption
<1>1. DOMAIN log[c] \subseteq Nat
  BY DEF TypeOK
<1>2. /\ first <= fn
      /\ \A h \in Nat : first <= h /\ h < fn => h \in DOMAIN log[c] /\ ~Final(c, log[c][h])
  BY DEF PlaceInv
<1>3. /\ \A f \in DOMAIN log[c] : first <= f
      /\ \A f \in DOMAIN log[c], h \in Nat : first <= h /\ h <= f => h \in DOMAIN log[c]
  BY DEF LogInv
<1>4. \A f \in DOMAIN log[c] : f < fn
  BY <1>1, <1>2, <1>3
<1>5. \A f \in DOMAIN log[c] : ~Final(c, log[c][f])
  BY <1>1, <1>2, <1>3, <1>4
<1>6. ASSUME NEW f \in Nat, f \notin DOMAIN log[c], f - 1 \in DOMAIN log[c]
      PROVE  f = fn
  <2>1. f - 1 < fn /\ first <= f - 1 /\ f - 1 \in Nat
    BY <1>1, <1>3, <1>4, <1>6
  <2>2. ~(f < fn)
    BY <1>2, <1>6, <2>1
  <2> QED
    BY <2>1, <2>2
<1> QED
  BY <1>4, <1>5, <1>6

\* The checkpoints of a call after an operation ended with x.
LEMMA LogGrows ==
  ASSUME TypeOK, NEW c \in Sound, NEW x, Follows(c, x)
  PROVE  /\ DOMAIN log'[c] = DOMAIN log[c] \cup {call[c].fn}
         /\ log'[c][call[c].fn] = x
         /\ \A f \in DOMAIN log[c] : log'[c][f] = log[c][f]
<1>0. c \in InWorkflow /\ c \in Callers
  BY IntakeAssumption DEF Sound
<1>1. CASE call[c].fn \in DOMAIN log[c] /\ x = log[c][call[c].fn] /\ log' = log
  BY <1>1
<1>2. CASE call[c].fn \notin DOMAIN log[c] /\ Checkpoint(c, x)
  BY <1>0, <1>2 DEF Checkpoint, TypeOK
<1> QED
  BY <1>1, <1>2 DEF Follows

\* Which operations enqueue does not change under the checkpoints that follow.
LEMMA InsertionKept ==
  ASSUME TypeOK, NEW c \in Sound, NEW x, Follows(c, x), LogInv(c), PlaceInv(c),
         NEW f \in Nat, f <= call[c].fn \/ f \in DOMAIN log[c]
  PROVE  Insertion(c, f)' <=> Insertion(c, f)
<1>0. c \in InWorkflow /\ c \in Callers
  BY IntakeAssumption DEF Sound
<1>1. PICK fn \in Nat : fn = call[c].fn
  BY <1>0 DEF TypeOK, CallType
<1>2. PICK first \in Nat : first = FirstId[c]
  BY <1>0, IntakeAssumption
<1>3. CASE f <= first \/ Call[c] # "debounce"
  BY <1>2, <1>3 DEF Insertion
<1>4. CASE f > first
  <2>1. f - 1 \in Nat /\ first <= f - 1
    BY <1>4
  <2>2. f - 1 \in DOMAIN log[c]
    <3>1. CASE f \in DOMAIN log[c]
      BY <1>2, <2>1, <3>1 DEF LogInv
    <3>2. CASE f <= call[c].fn
      BY <1>1, <1>2, <2>1, <3>2 DEF PlaceInv
    <3> QED
      BY <3>1, <3>2
  <2>3. log'[c][f - 1] = log[c][f - 1]
    BY <2>2, LogGrows
  <2> QED
    BY <2>3 DEF Insertion
<1> QED
  BY <1>3, <1>4

\* A checkpoint continues the path.
LEMMA LogFollows ==
  ASSUME TypeOK, NEW c \in Sound, NEW x, Follows(c, x), LogInv(c), PlaceInv(c)
  PROVE  LogInv(c)'
<1>0. c \in InWorkflow /\ c \in Callers
  BY IntakeAssumption DEF Sound
<1>1. PICK fn \in Nat : fn = call[c].fn
  BY <1>0 DEF TypeOK, CallType
<1>2. PICK first \in Nat : first = FirstId[c]
  BY <1>0, IntakeAssumption
<1>3. /\ DOMAIN log'[c] = DOMAIN log[c] \cup {fn} /\ log'[c][fn] = x
      /\ \A f \in DOMAIN log[c] : log'[c][f] = log[c][f]
  BY <1>1, LogGrows
<1>4. first <= fn /\ \A h \in Nat : first <= h /\ h < fn => h \in DOMAIN log[c] /\ ~Final(c, log[c][h])
  BY <1>1, <1>2 DEF PlaceInv
<1>5. DOMAIN log[c] \subseteq Nat
  BY <1>0 DEF TypeOK
<1>6. \A f \in DOMAIN log'[c] : first <= f /\ Entry(c, f, log[c][f])'
  <2> SUFFICES ASSUME NEW f \in DOMAIN log'[c]
               PROVE  first <= f /\ Entry(c, f, log[c][f])'
    OBVIOUS
  <2>1. f \in Nat /\ (f <= call[c].fn \/ f \in DOMAIN log[c])
    BY <1>1, <1>3, <1>5
  <2>2. Insertion(c, f)' <=> Insertion(c, f)
    BY <2>1, InsertionKept
  <2>3. first <= f /\ Entry(c, f, log'[c][f])
    <3>1. CASE f = fn
      BY <1>1, <1>3, <1>4, <3>1 DEF Follows
    <3>2. CASE f \in DOMAIN log[c]
      BY <1>2, <1>3, <3>2 DEF LogInv
    <3> QED
      BY <1>3, <3>1, <3>2
  <2>4. PICK y : y = log'[c][f]
    OBVIOUS
  <2>5. Entry(c, f, y)'
    BY <2>2, <2>3, <2>4 DEF Entry
  <2> QED
    BY <2>3, <2>4, <2>5
<1>7. \A f \in DOMAIN log'[c], h \in Nat : first <= h /\ h <= f => h \in DOMAIN log'[c]
  BY <1>2, <1>3, <1>4 DEF LogInv
<1>8. \A f, g \in DOMAIN log'[c] : Final(c, log'[c][f]) => g <= f
  <2>1. CASE fn \in DOMAIN log[c]
    BY <1>1, <1>3, <2>1 DEF LogInv
  <2>2. CASE fn \notin DOMAIN log[c]
    <3>1. \A f \in DOMAIN log[c] : f < fn /\ ~Final(c, log[c][f])
      BY <1>0, <1>1, <2>2, Frontier
    <3> QED
      BY <1>3, <1>5, <3>1
  <2> QED
    BY <2>1, <2>2
<1>9. \A f, g \in DOMAIN log'[c] : Final(c, log[c][f])' => g <= f
  BY <1>8 DEF Final
<1> QED
  BY <1>2, <1>6, <1>7, <1>9 DEF LogInv

\* The call is where the path leads.
LEMMA PlaceFollows ==
  ASSUME TypeOK, NEW c \in Sound, NEW x, Follows(c, x), LogInv(c), PlaceInv(c)
  PROVE  PlaceInv(c)'
<1>0. c \in InWorkflow /\ c \in Callers
  BY IntakeAssumption DEF Sound
<1>1. PICK fn \in Nat : fn = call[c].fn
  BY <1>0 DEF TypeOK, CallType
<1>2. PICK first \in Nat : first = FirstId[c]
  BY <1>0, IntakeAssumption
<1>3. /\ DOMAIN log'[c] = DOMAIN log[c] \cup {fn} /\ log'[c][fn] = x
      /\ \A f \in DOMAIN log[c] : log'[c][f] = log[c][f]
  BY <1>1, LogGrows
<1>4. first <= fn /\ \A h \in Nat : first <= h /\ h < fn => h \in DOMAIN log[c] /\ ~Final(c, log[c][h])
  BY <1>1, <1>2 DEF PlaceInv
<1>5. \A h \in Nat : first <= h /\ h < fn => h \in DOMAIN log'[c] /\ ~Final(c, log'[c][h])
  BY <1>3, <1>4
<1>6. CASE Final(c, x) /\ Return(c, Result(x))
  <2>1. call'[c].pc = "done" /\ call'[c].fn = fn
    BY <1>0, <1>1, <1>6, Places
  <2>2. \A h \in Nat : first <= h /\ h < fn => h \in DOMAIN log'[c] /\ ~Final(c, log[c][h])'
    BY <1>5 DEF Final
  <2> QED
    BY <1>2, <1>4, <2>1, <2>2 DEF PlaceInv
<1>7. CASE ~Final(c, x) /\ GotoNext(c, IF x = Word("enqueue") THEN "insert" ELSE "bounce")
  <2>1. PICK pc : pc = IF x = Word("enqueue") THEN "insert" ELSE "bounce"
    OBVIOUS
  <2>2. call'[c].pc = pc /\ call'[c].fn = fn + 1
    BY <1>0, <1>1, <1>7, <2>1, Places DEF NextFn
  <2>3. Call[c] = "debounce"
    <3>1. x = Dup \/ ~Insertion(c, call[c].fn)
      BY <1>7 DEF Follows, Entry, Final
    <3>2. CASE x = Dup /\ Insertion(c, call[c].fn)
      <4>1. Dup[1] = "dup"
        BY DEF Dup, Word
      <4>2. Call[c] # "singleton" /\ Call[c] # "start"
        BY <1>7, <3>2, <4>1 DEF Follows, Entry, Final
      <4> QED
        BY <1>0, <4>2, IntakeAssumption
    <3>3. CASE ~Insertion(c, call[c].fn)
      BY <3>3 DEF Insertion
    <3> QED
      BY <3>1, <3>2, <3>3
  <2>4. Insertion(c, fn + 1)' <=> x = Word("enqueue")
    <3>1. (fn + 1) - 1 = fn /\ fn + 1 > first
      BY <1>4
    <3> QED
      BY <1>2, <1>3, <2>3, <3>1 DEF Insertion, Word
  <2>5. \A h \in Nat : first <= h /\ h < fn + 1 => h \in DOMAIN log'[c] /\ ~Final(c, log'[c][h])
    <3> SUFFICES ASSUME NEW h \in Nat, first <= h, h < fn + 1
                 PROVE  h \in DOMAIN log'[c] /\ ~Final(c, log'[c][h])
      OBVIOUS
    <3>1. h = fn \/ h < fn
      OBVIOUS
    <3> QED
      BY <1>3, <1>5, <1>7, <3>1
  <2>6. \A h \in Nat : first <= h /\ h < fn + 1 => h \in DOMAIN log'[c] /\ ~Final(c, log[c][h])'
    BY <2>5 DEF Final
  <2>7. first <= fn + 1
    BY <1>4
  <2>8. /\ pc = "insert" => Insertion(c, fn + 1)'
        /\ pc = "bounce" => ~Insertion(c, fn + 1)'
        /\ pc \in {"insert", "bounce"}
    BY <2>1, <2>4
  <2>9. PICK n : n = fn + 1
    OBVIOUS
  <2> QED
    BY <1>2, <2>2, <2>6, <2>7, <2>8, <2>9 DEF PlaceInv
<1> QED
  BY <1>6, <1>7 DEF Follows, Continues

\* A call returns what its last checkpoint says.
LEMMA ReturnFollows ==
  ASSUME TypeOK, NEW c \in Sound, NEW x, Follows(c, x), ReturnInv(c)
  PROVE  ReturnInv(c)'
<1>0. c \in InWorkflow /\ c \in Callers
  BY IntakeAssumption DEF Sound
<1>1. PICK fn : fn = call[c].fn
  OBVIOUS
<1>2. /\ DOMAIN log'[c] = DOMAIN log[c] \cup {fn} /\ log'[c][fn] = x
      /\ \A f \in DOMAIN log[c] : log'[c][f] = log[c][f]
  BY <1>1, LogGrows
<1>3. \A y \in returned[c] : \E f \in DOMAIN log'[c] : Final(c, log'[c][f]) /\ y = Result(log'[c][f])
  BY <1>2 DEF ReturnInv
<1>4. \A y \in returned'[c] : \E f \in DOMAIN log'[c] : Final(c, log'[c][f]) /\ y = Result(log'[c][f])
  <2>1. CASE Final(c, x) /\ Return(c, Result(x))
    <3>1. returned'[c] = returned[c] \cup {Result(x)}
      BY <1>0, <2>1 DEF Return, TypeOK
    <3> QED
      BY <1>2, <1>3, <2>1, <3>1
  <2>2. CASE ~Final(c, x)
    <3>1. returned' = returned
      BY <2>2 DEF Follows, Continues, GotoNext
    <3> QED
      BY <1>3, <3>1
  <2> QED
    BY <2>1, <2>2 DEF Follows, Continues
<1> QED
  BY <1>4 DEF ReturnInv, Final, Result

\* The state of a call within an operation.
LEMMA InnerSteps ==
  ASSUME TypeOK, NEW c \in Sound, Inner(c), WorkflowInv(c)
  PROVE  LogInv(c)' /\ PlaceInv(c)' /\ ReturnInv(c)'
<1>1. log' = log /\ returned' = returned /\ call'[c].fn = call[c].fn /\ call[c].fn \notin DOMAIN log[c]
  BY DEF Inner
<1>2. \A f : Insertion(c, f)' <=> Insertion(c, f)
  BY <1>1 DEF Insertion
<1>3. \A f, y : (Entry(c, f, y)' <=> Entry(c, f, y)) /\ (Final(c, y)' <=> Final(c, y))
  BY <1>2 DEF Entry, Final
<1>4. LogInv(c)'
  BY <1>1, <1>3 DEF WorkflowInv, LogInv
<1>5. ReturnInv(c)'
  BY <1>1 DEF WorkflowInv, ReturnInv, Final, Result
<1>6. PICK fn : fn = call[c].fn
  OBVIOUS
<1>7. /\ FirstId[c] <= fn
      /\ \A h \in Nat : FirstId[c] <= h /\ h < fn => h \in DOMAIN log'[c] /\ ~Final(c, log[c][h])'
      /\ fn \notin DOMAIN log'[c]
  BY <1>1, <1>3, <1>6 DEF WorkflowInv, PlaceInv
<1>8. Id(c)' = Id(c)
  BY <1>1 DEF Id
<1>9. CASE call[c].pc = "bounce" /\ call'[c].pc = "holder"
  <2>1. ~Insertion(c, fn)'
    BY <1>2, <1>6, <1>9 DEF WorkflowInv, PlaceInv
  <2>2. PlaceInv(c)'
    BY <1>1, <1>6, <1>7, <1>9, <2>1 DEF PlaceInv
  <2> QED
    BY <1>4, <1>5, <2>2
<1>10. CASE call[c].pc \in {"insert", "lookup"}
  <2>1. Insertion(c, fn)'
    BY <1>2, <1>6, <1>10 DEF WorkflowInv, PlaceInv
  <2>2. \/ call'[c].pc = "insert"
        \/ call'[c].pc = "record" /\ Id(c)' \in DOMAIN rows'
        \/ call'[c].pc = "refused" /\ Call[c] # "singleton" /\ Id(c)' \notin DOMAIN rows'
        \/ call'[c].pc \in {"lookup", "attach"} /\ Call[c] = "singleton"
    BY <1>8, <1>10 DEF Inner
  <2>3. PlaceInv(c)'
    BY <1>1, <1>6, <1>7, <2>1, <2>2 DEF PlaceInv
  <2> QED
    BY <1>4, <1>5, <2>3
<1> QED
  BY <1>9, <1>10 DEF Inner

\* A recovered call starts at the beginning of its path.
LEMMA RestartSteps ==
  ASSUME TypeOK, NEW c \in Sound, Restarts(c), Kept, WorkflowInv(c)
  PROVE  WorkflowInv(c)'
<1>0. FirstId[c] \in Nat /\ Call[c] \in {"debounce", "singleton", "start"}
  BY IntakeAssumption DEF Sound
<1>1. /\ log' = log /\ returned' = returned /\ took' = took /\ DOMAIN rows' = DOMAIN rows
      /\ call'[c].pc = Start(c) /\ call'[c].fn = FirstId[c]
  BY DEF Restarts, Kept
<1>2. \A f : Insertion(c, f)' <=> Insertion(c, f)
  BY <1>1 DEF Insertion
<1>3. \A f, y : (Entry(c, f, y)' <=> Entry(c, f, y)) /\ (Final(c, y)' <=> Final(c, y))
  BY <1>2 DEF Entry, Final
<1>4. LogInv(c)'
  BY <1>1, <1>3 DEF WorkflowInv, LogInv
<1>5. ReturnInv(c)'
  BY <1>1 DEF WorkflowInv, ReturnInv, Final, Result
<1>6. TookInv(c)'
  BY <1>1, <1>2 DEF WorkflowInv, TookInv
<1>7. PlaceInv(c)'
  <2>1. PICK first \in Nat : first = FirstId[c]
    BY <1>0
  <2>2. CASE Call[c] = "debounce"
    <3>1. call'[c].pc = "bounce" /\ ~Insertion(c, first)'
      BY <1>1, <2>1, <2>2 DEF Start, Insertion
    <3> QED
      BY <1>1, <2>1, <3>1 DEF PlaceInv
  <2>3. CASE Call[c] # "debounce"
    <3>1. call'[c].pc = "insert" /\ Insertion(c, first)'
      BY <1>1, <2>1, <2>3 DEF Start, Insertion
    <3> QED
      BY <1>1, <2>1, <3>1 DEF PlaceInv
  <2> QED
    BY <2>2, <2>3
<1> QED
  BY <1>4, <1>5, <1>6, <1>7 DEF WorkflowInv

\* Another's step does not touch the call, nor the rows with its IDs.
LEMMA WorkflowFrame ==
  ASSUME TypeOK, NEW c \in Sound, WorkflowInv(c),
         log'[c] = log[c], call'[c] = call[c], returned'[c] = returned[c], took'[c] = took[c],
         \A f : <<c, f>> \in DOMAIN rows' <=> <<c, f>> \in DOMAIN rows
  PROVE  WorkflowInv(c)'
<1>1. \A f : Insertion(c, f)' <=> Insertion(c, f)
  BY DEF Insertion
<1>2. \A f, y : (Entry(c, f, y)' <=> Entry(c, f, y)) /\ (Final(c, y)' <=> Final(c, y))
  BY <1>1 DEF Entry, Final
<1>3. LogInv(c)'
  BY <1>2 DEF WorkflowInv, LogInv
<1>4. ReturnInv(c)'
  BY DEF WorkflowInv, ReturnInv, Final, Result
<1>5. TookInv(c)'
  BY <1>1 DEF WorkflowInv, TookInv
<1>6. Id(c)' = Id(c) /\ (Id(c) \in DOMAIN rows' <=> Id(c) \in DOMAIN rows)
  BY DEF Id
<1>7. PICK fn, pc : fn = call[c].fn /\ pc = call[c].pc
  OBVIOUS
<1>8. (Insertion(c, fn)' <=> Insertion(c, fn)) /\ call'[c].fn = fn /\ call'[c].pc = pc
  BY <1>1, <1>7
<1>9. \A h \in Nat : FirstId[c] <= h /\ h < fn => h \in DOMAIN log'[c] /\ ~Final(c, log[c][h])'
  BY <1>2, <1>7 DEF WorkflowInv, PlaceInv
<1>10. PlaceInv(c)'
  BY <1>6, <1>7, <1>8, <1>9 DEF WorkflowInv, PlaceInv
<1> QED
  BY <1>3, <1>4, <1>5, <1>10 DEF WorkflowInv

\* The input of a debounce is where the path says, if an operation ends without
\* taking it.
LEMMA TookReports ==
  ASSUME TypeOK, NEW c \in Sound, NEW x, Reports(c, x), WorkflowInv(c)
  PROVE  TookInv(c)'
<1> SUFFICES ASSUME Call[c] = "debounce"
             PROVE  TookInv(c)'
  BY DEF TookInv
<1>0. /\ c \in InWorkflow /\ c \in Callers /\ LogInv(c) /\ PlaceInv(c) /\ TookInv(c)
      /\ Follows(c, x) /\ took' = took /\ DOMAIN rows' = DOMAIN rows
  BY IntakeAssumption DEF Sound, WorkflowInv, Reports, Kept
<1>1. PICK fn \in Nat : fn = call[c].fn
  BY <1>0 DEF TypeOK, CallType
<1>2. /\ DOMAIN log'[c] = DOMAIN log[c] \cup {fn} /\ log'[c][fn] = x
      /\ \A f \in DOMAIN log[c] : log'[c][f] = log[c][f]
  BY <1>0, <1>1, LogGrows
<1>3. CASE took[c] = {}
  BY <1>0, <1>3 DEF TookInv
<1>4. ASSUME NEW f \in DOMAIN log[c], NEW w \in Ids, log[c][f] = Handle(w), took[c] = {w}
      PROVE  TookInv(c)'
  <2>1. f \in DOMAIN log'[c] /\ log'[c][f] = Handle(w) /\ took'[c] = {w}
    BY <1>0, <1>2, <1>4
  <2> QED
    BY <2>1 DEF TookInv, Handle, Ids
<1>5. ASSUME NEW f \in Nat, took[c] = {<<c, f>>}, <<c, f>> \in DOMAIN rows,
             f \notin DOMAIN log[c], f - 1 \in DOMAIN log[c], Insertion(c, f)
      PROVE  TookInv(c)'
  <2>1. CASE fn \in DOMAIN log[c]
    <3>1. log' = log
      BY <1>0, <1>1, <2>1 DEF Follows
    <3>2. Insertion(c, f)'
      BY <1>5, <3>1 DEF Insertion
    <3> QED
      BY <1>0, <1>5, <3>1, <3>2 DEF TookInv
  <2>2. CASE fn \notin DOMAIN log[c]
    <3>1. f = fn
      BY <1>0, <1>1, <1>5, <2>2, Frontier
    <3>2. x = Handle(<<c, f>>)
      BY <1>0, <1>1, <1>5, <2>2, <3>1 DEF Reports, Id
    <3>3. <<c, f>> \in Ids /\ f \in DOMAIN log'[c] /\ log'[c][f] = Handle(<<c, f>>)
      BY <1>0, <1>2, <3>1, <3>2 DEF Ids
    <3>4. took'[c] = {<<c, f>>}
      BY <1>0, <1>5
    <3>5. PICK w \in Ids : w = <<c, f>>
      BY <3>3
    <3> QED
      BY <3>3, <3>4, <3>5 DEF TookInv, Handle, Ids
  <2> QED
    BY <2>1, <2>2
<1> QED
  BY <1>0, <1>3, <1>4, <1>5 DEF TookInv

\* A call that has no checkpoint yet for a bounce, or no row yet for an enqueue, has
\* given its input to no workflow.
LEMMA TookNothing ==
  ASSUME TypeOK, NEW c \in Sound, WorkflowInv(c), Call[c] = "debounce",
         call[c].fn \notin DOMAIN log[c],
         ~Insertion(c, call[c].fn) \/ Id(c) \notin DOMAIN rows
  PROVE  took[c] = {}
<1>0. c \in Callers /\ LogInv(c) /\ PlaceInv(c) /\ TookInv(c)
  BY IntakeAssumption DEF Sound, WorkflowInv
<1>1. /\ \A f \in DOMAIN log[c] : ~Final(c, log[c][f])
      /\ \A f \in Nat : f \notin DOMAIN log[c] /\ f - 1 \in DOMAIN log[c] => f = call[c].fn
  BY <1>0, Frontier
<1>2. \A f \in DOMAIN log[c], w \in Ids : log[c][f] # Handle(w)
  BY <1>1 DEF Final, Handle
<1>3. ~\E f \in Nat :
         /\ took[c] = {<<c, f>>} /\ <<c, f>> \in DOMAIN rows
         /\ f \notin DOMAIN log[c] /\ f - 1 \in DOMAIN log[c] /\ Insertion(c, f)
  BY <1>1 DEF Id
<1> QED
  BY <1>0, <1>2, <1>3 DEF TookInv

\* A debounce gives its input to a row once, by a bounce or by an enqueue.
LEMMA TookNext ==
  ASSUME TypeOK, NEW c \in Sound, WorkflowInv(c), WorkflowStep(c)
  PROVE  TookInv(c)'
<1> SUFFICES ASSUME Call[c] = "debounce"
             PROVE  TookInv(c)'
  BY DEF TookInv
<1>0. c \in InWorkflow /\ c \in Callers /\ LogInv(c) /\ PlaceInv(c) /\ TookInv(c)
  BY IntakeAssumption DEF Sound, WorkflowInv
<1>1. ASSUME NEW x, Reports(c, x)
      PROVE  TookInv(c)'
  BY <1>1, TookReports
<1>2. ASSUME NEW w, Coalesces(c, w)
      PROVE  TookInv(c)'
  <2>1. /\ call[c].pc = "bounce" /\ call[c].fn \notin DOMAIN log[c] /\ Follows(c, Handle(w))
        /\ w \in DOMAIN rows /\ took' = [took EXCEPT ![c] = @ \cup {w}]
    BY <1>2 DEF Coalesces, Absorbs
  <2>2. took[c] = {}
    BY <1>0, <2>1, TookNothing DEF PlaceInv
  <2>3. took'[c] = {w} /\ w \in Ids
    BY <1>0, <2>1, <2>2 DEF TypeOK
  <2>4. PICK f : f = call[c].fn
    OBVIOUS
  <2>5. f \in DOMAIN log'[c] /\ log'[c][f] = Handle(w)
    BY <2>1, <2>4, LogGrows
  <2> QED
    BY <2>3, <2>5 DEF TookInv, Handle, Ids
<1>3. CASE Inner(c) /\ Kept
  <2>1. log' = log /\ took' = took /\ DOMAIN rows' = DOMAIN rows
    BY <1>3 DEF Inner, Kept
  <2>2. \A f : Insertion(c, f)' <=> Insertion(c, f)
    BY <2>1 DEF Insertion
  <2> QED
    BY <1>0, <2>1, <2>2 DEF TookInv
<1>4. CASE Creates(c)
  <2>1. /\ call[c].pc = "insert" /\ call[c].fn \notin DOMAIN log[c] /\ log' = log
        /\ Id(c) \notin DOMAIN rows /\ DOMAIN rows' = DOMAIN rows \cup {Id(c)}
        /\ took' = [took EXCEPT ![c] = @ \cup {Id(c)}]
    BY <1>4 DEF Creates, Inner, Enters
  <2>2. took[c] = {}
    BY <2>1, TookNothing
  <2>3. PICK f \in Nat : f = call[c].fn
    BY <1>0 DEF TypeOK, CallType
  <2>4. took'[c] = {<<c, f>>} /\ <<c, f>> \in DOMAIN rows'
    BY <1>0, <2>1, <2>2, <2>3 DEF TypeOK, Id
  <2>5. Insertion(c, f)
    BY <1>0, <2>1, <2>3 DEF PlaceInv
  <2>6. f - 1 \in DOMAIN log[c]
    <3>1. FirstId[c] \in Nat /\ f > FirstId[c]
      BY <1>0, <2>5, IntakeAssumption DEF Insertion
    <3>2. f - 1 \in Nat /\ FirstId[c] <= f - 1 /\ f - 1 < f
      BY <3>1
    <3> QED
      BY <1>0, <2>3, <3>2 DEF PlaceInv
  <2>7. Insertion(c, f)' /\ f \notin DOMAIN log'[c] /\ f - 1 \in DOMAIN log'[c]
    BY <2>1, <2>3, <2>5, <2>6 DEF Insertion
  <2> QED
    BY <2>4, <2>7 DEF TookInv
<1>5. CASE Restarts(c) /\ Kept
  BY <1>5, RestartSteps DEF WorkflowInv
<1> QED
  BY <1>1, <1>2, <1>3, <1>4, <1>5 DEF WorkflowStep

\* Every step keeps the path of every workflow's call.
LEMMA WorkflowNext ==
  ASSUME Inv, [Next]_vars, NEW c \in Sound
  PROVE  WorkflowInv(c)'
<1>0. c \in Callers /\ TypeOK /\ WorkflowInv(c)
  BY IntakeAssumption DEF Sound, Inv
<1>1. CASE Idle
  BY <1>0, <1>1, WorkflowFrame DEF Idle
<1>2. ASSUME NEW d \in Callers, By(d), d # c
      PROVE  WorkflowInv(c)'
  <2>1. log'[c] = log[c] /\ call'[c] = call[c] /\ returned'[c] = returned[c] /\ took'[c] = took[c]
    BY <1>0, <1>2, OthersKept DEF Others
  <2>2. \A f : <<c, f>> \in DOMAIN rows' <=> <<c, f>> \in DOMAIN rows
    <3>1. DOMAIN rows' = DOMAIN rows \/ DOMAIN rows' = DOMAIN rows \cup {<<d, call[d].fn>>}
      BY <1>2, InputSteps DEF Kept, Absorbs, Enters, Id
    <3> QED
      BY <1>2, <3>1
  <2> QED
    BY <1>0, <2>1, <2>2, WorkflowFrame
<1>3. CASE By(c)
  <2>1. WorkflowStep(c)
    BY <1>3, WorkflowSteps
  <2>2. TookInv(c)'
    BY <1>0, <2>1, TookNext
  <2>3. ASSUME NEW x, Follows(c, x)
        PROVE  LogInv(c)' /\ PlaceInv(c)' /\ ReturnInv(c)'
    BY <1>0, <2>3, LogFollows, PlaceFollows, ReturnFollows DEF WorkflowInv
  <2>4. ASSUME Inner(c)
        PROVE  LogInv(c)' /\ PlaceInv(c)' /\ ReturnInv(c)'
    BY <1>0, <2>4, InnerSteps
  <2>5. ASSUME Restarts(c), Kept
        PROVE  LogInv(c)' /\ PlaceInv(c)' /\ ReturnInv(c)'
    BY <1>0, <2>5, RestartSteps DEF WorkflowInv
  <2>6. (\E x : Follows(c, x)) \/ Inner(c) \/ (Restarts(c) /\ Kept)
    BY <2>1 DEF WorkflowStep, Reports, Coalesces, Creates
  <2> QED
    BY <2>2, <2>3, <2>4, <2>5, <2>6 DEF WorkflowInv
<1> QED
  BY <1>1, <1>2, <1>3, StepOfOne

-----------------------------------------------------------------------------
(* The workflows a debounce is told of.                                    *)

\* A step of a client's call, which has no checkpoints and returns a workflow that
\* has the input, if it is a debounce.
ClientStep(c) ==
  /\ log' = log
  /\ call'[c].pc \notin {"refused", "record", "attach"}
  /\ call'[c].pc = "lookup" => Call[c] = "singleton"
  /\ \/ returned' = returned
     \/ returned' = [returned EXCEPT ![c] = @ \cup {Dup}]
     \/ \E w : /\ returned' = [returned EXCEPT ![c] = @ \cup {Handle(w)}]
               /\ Call[c] = "debounce" => w \in took'[c]

LEMMA ClientSteps ==
  ASSUME Inv, NEW c \in Callers \ InWorkflow, By(c)
  PROVE  ClientStep(c)
<1>0. TypeOK /\ ClientInv(c) /\ c \in Callers /\ ~Recorded(c)
  BY DEF Inv, Recorded
<1>1. \A x : Checkpoint(c, x) => log' = log
  BY DEF Checkpoint
<1>2. ASSUME NEW pc \in {"bounce", "holder", "insert"}, Goto(c, pc) \/ GotoNext(c, pc), log' = log
      PROVE  ClientStep(c)
  <2>1. call'[c].pc = pc /\ returned' = returned
    BY <1>0, <1>2, Places
  <2> QED
    BY <1>2, <2>1 DEF ClientStep
<1>3. ASSUME Return(c, Dup), log' = log
      PROVE  ClientStep(c)
  <2>1. call'[c].pc = "done"
    BY <1>0, <1>3, Places
  <2> QED
    BY <1>3, <2>1 DEF ClientStep, Return
<1>4. ASSUME NEW w, Return(c, Handle(w)), log' = log, Call[c] = "debounce" => w \in took'[c]
      PROVE  ClientStep(c)
  <2>1. call'[c].pc = "done"
    BY <1>0, <1>4, Places
  <2> QED
    BY <1>4, <2>1 DEF ClientStep, Return
<1>5. ASSUME Duplicate(c), log' = log
      PROVE  ClientStep(c)
  <2>1. Call[c] \in {"debounce", "singleton", "start"}
    BY IntakeAssumption
  <2>2. CASE Call[c] = "singleton"
    <3>1. Goto(c, "lookup")
      BY <1>5, <2>2 DEF Duplicate
    <3>2. call'[c].pc = "lookup" /\ returned' = returned
      BY <1>0, <3>1, Places
    <3> QED
      BY <1>5, <2>2, <3>2 DEF ClientStep
  <2>3. CASE Call[c] # "singleton"
    <3>1. GotoNext(c, "bounce") \/ Return(c, Dup)
      BY <1>5, <2>1, <2>3 DEF Duplicate
    <3> QED
      BY <1>2, <1>3, <1>5, <3>1
  <2> QED
    BY <2>2, <2>3
<1>6. CASE Bounce(c)
  <2>1. PICK w \in Bounceable(c) :
          took' = [took EXCEPT ![c] = @ \cup {w}] /\ Checkpoint(c, Handle(w)) /\ Return(c, Handle(w))
    BY <1>6 DEF Bounce
  <2>2. w \in took'[c]
    BY <1>0, <2>1 DEF TypeOK
  <2> QED
    BY <1>1, <1>4, <2>1, <2>2
<1>7. CASE BounceMiss(c)
  BY <1>2, <1>7 DEF BounceMiss
<1>8. CASE Holder(c)
  <2>1. PICK x \in {Word("enqueue"), Word("retry"), Word("raise")} :
          Checkpoint(c, x) /\ Classify(c, x)
    BY <1>8 DEF Holder
  <2>2. x[1] \in {"enqueue", "retry", "raise"}
    BY <2>1 DEF Word
  <2>3. GotoNext(c, "insert") \/ GotoNext(c, "bounce") \/ Return(c, Dup)
    BY <2>1, <2>2 DEF Classify
  <2> QED
    BY <1>1, <1>2, <1>3, <2>1, <2>3
<1>9. CASE Insert(c)
  <2>1. Return(c, Handle(Id(c))) /\ log' = log
    BY <1>9 DEF Insert, Inserted
  <2>2. call[c].fn \in Nat
    BY <1>0 DEF TypeOK, CallType
  <2>3. Id(c) \in took'[c]
    <3>1. CASE Id(c) \in DOMAIN rows
      <4>1. took' = took
        BY <1>9, <3>1 DEF Insert
      <4> QED
        BY <1>0, <2>2, <3>1, <4>1 DEF Inv, RowsInv, Id
    <3>2. CASE Id(c) \notin DOMAIN rows
      BY <1>0, <1>9, <3>2 DEF Insert, TypeOK
    <3> QED
      BY <3>1, <3>2
  <2> QED
    BY <1>4, <2>1, <2>3
<1>10. CASE InsertDuplicate(c)
  BY <1>5, <1>10 DEF InsertDuplicate
<1>11. CASE Lookup(c)
  <2>1. Call[c] # "debounce" /\ log' = log
    BY <1>0, <1>11 DEF Lookup, ClientInv
  <2>2. Goto(c, "insert") \/ \E w : Return(c, Handle(w))
    BY <1>11 DEF Lookup
  <2> QED
    BY <1>2, <1>4, <2>1, <2>2
<1>12. CASE BounceAckLost(c) \/ InsertAckLost(c)
  <2>1. log' = log /\ call' = call /\ returned' = returned
    BY <1>12 DEF BounceAckLost, InsertAckLost
  <2> QED
    BY <1>0, <2>1 DEF ClientStep, ClientInv
<1>13. CASE Crash(c)
  <2>1. call' = [call EXCEPT ![c].pc = "dead"] /\ log' = log /\ returned' = returned
    BY <1>13 DEF Crash
  <2>2. call'[c].pc = "dead"
    BY <1>0, <2>1 DEF TypeOK, CallType
  <2> QED
    BY <2>1, <2>2 DEF ClientStep
<1>14. ~ReplayBounce(c) /\ ~ReplayInsert(c)
  BY <1>0 DEF ReplayBounce, ReplayInsert
<1>15. ~RecordDuplicate(c) /\ ~RecordChild(c) /\ ~RecordExisting(c)
  BY <1>0 DEF RecordDuplicate, RecordChild, RecordExisting, ClientInv
<1> QED
  BY <1>6, <1>7, <1>8, <1>9, <1>10, <1>11, <1>12, <1>13, <1>14, <1>15
  DEF By, CallStep, Debounce, Enqueue, Singleton

\* A client's call never has checkpoints.
LEMMA ClientNext ==
  ASSUME Inv, [Next]_vars, NEW c \in Callers \ InWorkflow
  PROVE  ClientInv(c)'
<1>0. ClientInv(c)
  BY DEF Inv
<1>1. CASE Idle
  BY <1>0, <1>1 DEF Idle, ClientInv
<1>2. ASSUME NEW d \in Callers, By(d), d # c
      PROVE  ClientInv(c)'
  <2>1. log'[c] = log[c] /\ call'[c] = call[c]
    BY <1>2, OthersKept DEF Others
  <2> QED
    BY <1>0, <2>1 DEF ClientInv
<1>3. CASE By(c)
  <2>1. ClientStep(c)
    BY <1>3, ClientSteps
  <2> QED
    BY <1>0, <2>1 DEF ClientInv, ClientStep
<1> QED
  BY <1>1, <1>2, <1>3, StepOfOne

\* What a row held is not forgotten, and what a debounce is told is where its input
\* went.
LEMMA HandleNext ==
  ASSUME Inv, [Next]_vars, NEW c \in Callers
  PROVE  HandleInv(c)'
<1> SUFFICES ASSUME Call[c] = "debounce"
             PROVE  HandleInv(c)'
  BY DEF HandleInv
<1>0. /\ TypeOK
      /\ \A f \in DOMAIN log[c] : log[c][f][1] = "handle" => log[c][f][2] \in took[c]
      /\ \A r \in returned[c] : r = Dup \/ r[2] \in took[c]
  BY DEF Inv, HandleInv
<1>1. ASSUME log'[c] = log[c], returned'[c] = returned[c], took[c] \subseteq took'[c]
      PROVE  HandleInv(c)'
  BY <1>0, <1>1 DEF HandleInv, Dup, Word
<1>2. CASE Idle
  BY <1>1, <1>2 DEF Idle
<1>3. ASSUME NEW d \in Callers, By(d), d # c
      PROVE  HandleInv(c)'
  BY <1>1, <1>3, OthersKept DEF Others
<1>4. CASE By(c)
  <2>0. took[c] \subseteq took'[c]
    BY <1>0, <1>4, InputSteps DEF Kept, Absorbs, Enters, TypeOK
  <2>1. CASE c \notin InWorkflow
    <3>1. log' = log
      BY <1>4, <2>1, ClientSteps DEF ClientStep
    <3>2. \A r \in returned'[c] : r \in returned[c] \/ r = Dup \/ r[2] \in took'[c]
      <4>1. \/ returned' = returned
            \/ returned' = [returned EXCEPT ![c] = @ \cup {Dup}]
            \/ \E w : /\ returned' = [returned EXCEPT ![c] = @ \cup {Handle(w)}]
                      /\ w \in took'[c]
        BY <1>4, <2>1, ClientSteps DEF ClientStep
      <4>2. \A w : Handle(w)[2] = w
        BY DEF Handle
      <4> QED
        BY <1>0, <4>1, <4>2 DEF TypeOK
    <3> QED
      BY <1>0, <2>0, <3>1, <3>2 DEF HandleInv, Dup, Word
  <2>2. CASE c \in InWorkflow
    <3>0. c \in Sound
      BY <2>2 DEF Sound
    <3>1. WorkflowStep(c)
      BY <1>4, <3>0, WorkflowSteps
    <3>2. ASSUME NEW x, Follows(c, x), x[1] = "handle" => x[2] \in took'[c]
          PROVE  HandleInv(c)'
      <4>1. \A f \in DOMAIN log'[c] : log'[c][f] = x \/ (f \in DOMAIN log[c] /\ log'[c][f] = log[c][f])
        BY <1>0, <3>0, <3>2, LogGrows
      <4>2. \A r \in returned'[c] : r \in returned[c] \/ r = Result(x)
        BY <1>0, <3>2 DEF Follows, Continues, Return, GotoNext, TypeOK
      <4>3. Result(x) = Dup \/ Result(x)[2] \in took'[c]
        BY <3>2 DEF Result
      <4>4. \A f \in DOMAIN log'[c] : log'[c][f][1] = "handle" => log'[c][f][2] \in took'[c]
        BY <1>0, <2>0, <3>2, <4>1
      <4>5. \A r \in returned'[c] : r = Dup \/ r[2] \in took'[c]
        BY <1>0, <2>0, <4>2, <4>3
      <4> QED
        BY <4>4, <4>5 DEF HandleInv, Dup, Word
    <3>3. ASSUME NEW x, Reports(c, x)
          PROVE  HandleInv(c)'
      BY <3>2, <3>3 DEF Reports, Kept
    <3>4. ASSUME NEW w, Coalesces(c, w)
          PROVE  HandleInv(c)'
      <4>1. w \in took'[c] /\ Handle(w)[2] = w /\ Follows(c, Handle(w))
        BY <1>0, <3>4 DEF Coalesces, Absorbs, TypeOK, Handle
      <4> QED
        BY <3>2, <4>1
    <3>5. CASE Inner(c) \/ Restarts(c)
      BY <1>1, <2>0, <3>5 DEF Inner, Restarts
    <3> QED
      BY <3>1, <3>3, <3>4, <3>5 DEF WorkflowStep, Creates
  <2> QED
    BY <2>1, <2>2
<1> QED
  BY <1>2, <1>3, <1>4, StepOfOne

-----------------------------------------------------------------------------
(* The theorems.                                                           *)

LEMMA AtMostOne ==
  ASSUME NEW S, S = {} \/ \E x : S = {x}
  PROVE  Cardinality(S) <= 1
<1>1. CASE S = {}
  <2>1. Cardinality(S) = 0
    BY <1>1, FS_EmptySet
  <2> QED
    BY <2>1
<1>2. ASSUME NEW x, S = {x}
      PROVE  Cardinality(S) <= 1
  <2>1. Cardinality(S) = 1
    BY <1>2, FS_Singleton
  <2> QED
    BY <2>1
<1> QED
  BY <1>1, <1>2

LEMMA InvInit ==
  ASSUME Init
  PROVE  Inv
<1>0. /\ rows = [w \in {} |-> Null] /\ log = [c \in Callers |-> [f \in {} |-> Null]]
      /\ returned = [c \in Callers |-> {}] /\ took = [c \in Callers |-> {}] /\ now = 0 /\ faults = 0
  BY DEF Init
<1>1. PICK present \in Present :
        call = [c \in Callers |->
                  [pc |-> IF c \in present THEN Start(c) ELSE "absent",
                   fn |-> FirstId[c], existing |-> Null]]
  BY DEF Init
<1>2. ASSUME NEW c \in Callers
      PROVE  /\ call[c].pc \in {"absent", Start(c)} /\ call[c].fn = FirstId[c]
             /\ call[c] \in CallType
  <2>1. FirstId[c] \in Nat /\ Start(c) \in {"bounce", "insert"}
    BY IntakeAssumption DEF Start
  <2> QED
    BY <1>1, <2>1 DEF CallType
<1>3. TypeOK
  <2>1. call \in [Callers -> CallType]
    BY <1>1, <1>2
  <2> QED
    BY <1>0, <2>1 DEF TypeOK
<1>4. RowsInv
  BY <1>0 DEF RowsInv
<1>5. BounceInv
  BY <1>2 DEF BounceInv, Start
<1>6. ASSUME NEW c \in Sound
      PROVE  WorkflowInv(c)
  <2>0. c \in Callers /\ FirstId[c] \in Nat
    BY IntakeAssumption DEF Sound
  <2>1. DOMAIN log[c] = {} /\ returned[c] = {} /\ took[c] = {}
    BY <1>0, <2>0
  <2>2. LogInv(c) /\ ReturnInv(c) /\ TookInv(c)
    BY <2>1 DEF LogInv, ReturnInv, TookInv
  <2>3. call[c].fn = FirstId[c] /\ call[c].pc \in {"absent", Start(c)}
    BY <1>2, <2>0
  <2>4. PlaceInv(c)
    <3>1. call[c].pc \in {"absent", "bounce", "insert"}
      BY <2>3 DEF Start
    <3>2. call[c].pc = "bounce" => Call[c] = "debounce"
      BY <2>3 DEF Start
    <3>3. call[c].pc = "insert" => Call[c] # "debounce"
      BY <2>3 DEF Start
    <3>4. ~(FirstId[c] > FirstId[c]) /\ FirstId[c] <= FirstId[c]
      BY <2>0
    <3>5. \A h \in Nat : ~(FirstId[c] <= h /\ h < FirstId[c])
      BY <2>0
    <3>6. call[c].pc = "bounce" => ~Insertion(c, FirstId[c])
      BY <3>2, <3>4 DEF Insertion
    <3>7. call[c].pc = "insert" => Insertion(c, FirstId[c])
      BY <3>3 DEF Insertion
    <3> QED
      BY <2>3, <3>1, <3>4, <3>5, <3>6, <3>7 DEF PlaceInv
  <2> QED
    BY <2>2, <2>4 DEF WorkflowInv
<1>7. ASSUME NEW c \in Callers \ InWorkflow
      PROVE  ClientInv(c)
  BY <1>0, <1>2 DEF ClientInv, Start
<1>8. ASSUME NEW c \in Callers
      PROVE  HandleInv(c)
  BY <1>0 DEF HandleInv
<1> QED
  BY <1>3, <1>4, <1>5, <1>6, <1>7, <1>8 DEF Inv

LEMMA InvNext ==
  ASSUME Inv, [Next]_vars
  PROVE  Inv'
<1>1. TypeOK' /\ BounceInv' /\ RowsInv'
  BY TypeNext, RowsNext
<1>2. \A c \in Sound : WorkflowInv(c)'
  BY WorkflowNext
<1>3. \A c \in Callers \ InWorkflow : ClientInv(c)'
  BY ClientNext
<1>4. \A c \in Callers : HandleInv(c)'
  BY HandleNext
<1> QED
  BY <1>1, <1>2, <1>3, <1>4 DEF Inv, Sound

LEMMA InvAlways == Spec => []Inv
<1>1. Init => Inv
  BY InvInit
<1>2. Inv /\ [Next]_vars => Inv'
  BY InvNext
<1> QED
  BY <1>1, <1>2, PTL DEF Spec

\* However often a workflow is recovered, wherever its process stopped, a debounce, a
\* start and a return-existing start of it have one result: the same child, the same
\* coalesced workflow or the same duplication error.  The assumption leaves out the one
\* call for which the code records nothing: a plain start with function ID 0, whose
\* error the catch block of internalWorkflow does not record.
THEOREM OneResult ==
  ASSUME \A c \in InWorkflow : Call[c] = "start" => FirstId[c] # 0
  PROVE  Spec => []ReplayAgrees
<1>1. Inv => ReplayAgrees
  <2> SUFFICES ASSUME Inv, NEW c \in InWorkflow
               PROVE  Cardinality(returned[c]) <= 1
    BY DEF ReplayAgrees
  <2>1. LogInv(c) /\ ReturnInv(c)
    BY DEF Inv, Sound, WorkflowInv
  <2>2. DOMAIN log[c] \subseteq Nat
    BY IntakeAssumption DEF Inv, TypeOK
  <2>3. ASSUME NEW x \in returned[c], NEW y \in returned[c]
        PROVE  x = y
    <3>1. PICK f \in DOMAIN log[c] : Final(c, log[c][f]) /\ x = Result(log[c][f])
      BY <2>1 DEF ReturnInv
    <3>2. PICK g \in DOMAIN log[c] : Final(c, log[c][g]) /\ y = Result(log[c][g])
      BY <2>1 DEF ReturnInv
    <3>3. f = g
      BY <2>1, <2>2, <3>1, <3>2 DEF LogInv
    <3> QED
      BY <3>1, <3>2, <3>3
  <2>4. returned[c] = {} \/ \E x : returned[c] = {x}
    BY <2>3
  <2> QED
    BY <2>4, AtMostOne
<1> QED
  BY <1>1, InvAlways, PTL

\* A workflow's debounce hands its input to one workflow, wherever its process stops
\* and whatever becomes of the rows it meets.
THEOREM InputGoesToOne == Spec => []AbsorbedOnce
<1>1. Inv => AbsorbedOnce
  <2> SUFFICES ASSUME Inv, NEW c \in InWorkflow, Call[c] = "debounce"
               PROVE  Cardinality(took[c]) <= 1
    BY DEF AbsorbedOnce
  <2>1. TookInv(c)
    BY DEF Inv, Sound, WorkflowInv
  <2>2. took[c] = {} \/ \E w : took[c] = {w}
    BY <2>1 DEF TookInv
  <2> QED
    BY <2>2, AtMostOne
<1> QED
  BY <1>1, InvAlways, PTL

\* The workflow a debounce returned did take the call's input, for a workflow's
\* debounce and for a client's, whose answers may be lost and asked for again.
THEOREM ToldWhoTook == Spec => []HandleTookInput
<1>1. Inv => HandleTookInput
  BY DEF Inv, HandleInv, HandleTookInput
<1> QED
  BY <1>1, InvAlways, PTL

=============================================================================
