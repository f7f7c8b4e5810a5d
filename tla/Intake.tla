------------------------------- MODULE Intake -------------------------------
(***************************************************************************)
(* How a workflow gets onto a queue when its deduplication ID is           *)
(* contended.  Every call below wants the same (queue, deduplication ID):  *)
(* a debounce (Debouncer, DebouncerClient), a `return-existing' enqueue    *)
(* (#invokeSingletonWorkflow, #initSingletonWorkflow) or a plain enqueue   *)
(* (startWorkflow, DBOSClient.enqueue), from a client or as operations of  *)
(* a durable workflow that checkpoints them and may be recovered.  Rows    *)
(* leave DELAYED when the queue runner finds their delay expired, and give *)
(* the deduplication ID back when they run or are cancelled.               *)
(*                                                                         *)
(* One variable, rows, is the part of dbos.workflow_status the calls read; *)
(* log is the caller's operation_outputs.  A workflow ID is the caller and *)
(* the function ID of the call, which is how a child's ID is made; a       *)
(* client's random ID is <<c, 0>>, one call inserting at most one row.     *)
(***************************************************************************)
EXTENDS Naturals, FiniteSets

CONSTANTS
  Callers,          \* the calls
  Call,             \* what each is: "debounce", "singleton" or "start"
  InWorkflow,       \* the calls made by a durable workflow
  FirstId,          \* the function ID a workflow's call starts at
  Workflow,         \* the name and class of the workflow each call is for
  Present,          \* the sets of calls that may meet
  Period,           \* the debounce period, and the delay of a plain enqueue
  DebounceTimeout,  \* debounceTimeoutMs
  MaxTime,          \* bound on the clock
  MaxFaults,        \* bound on crashes, lost answers and operator actions
  Null

ASSUME IntakeAssumption ==
  /\ Call \in [Callers -> {"debounce", "singleton", "start"}]
  /\ InWorkflow \subseteq Callers
  /\ FirstId \in [Callers -> Nat]
  /\ Period \in Nat \ {0} /\ DebounceTimeout \in Nat

VARIABLES
  rows,      \* workflow_status: ID -> status, key, debounced, delay, deadline, input
  log,       \* the calling workflow's checkpoints: function ID -> result
  call,      \* each call's control: pc, function ID, the holder it looked up
  returned,  \* every result a call has ever returned to its program
  took,      \* the rows that ever held a call's input
  now,
  faults

vars == <<rows, log, call, returned, took, now, faults>>

-----------------------------------------------------------------------------

\* What a call returns, and what a checkpoint holds: a workflow or a word.
Handle(w) == <<"handle", w>>
Word(word) == <<word, Null>>
Dup == Word("dup")

Active == {"DELAYED", "ENQUEUED", "PENDING"}

Smaller(a, b) == IF a < b THEN a ELSE b

\* workflowUUID: the pinned or random ID of a client, <parent>-<function ID> of a child.
Id(c) == <<c, call[c].fn>>

\* The row that has the deduplication ID; the unique index admits one.
Holders == {w \in DOMAIN rows : rows[w].key}

\* A debounced row of the workflow the call is for.
Same(c, w) == rows[w].debounced /\ Workflow[rows[w].input] = Workflow[c]

\* The row debounceDelayedWorkflow may extend.
Bounceable(c) == {w \in Holders : Same(c, w) /\ rows[w].status = "DELAYED"}

\* The new delay of a debounced row, capped at its debounce deadline.
Extended(w) == Smaller(now + Period, rows[w].deadline)

\* The row internalWorkflow and #buildEnqueueStatus build: only a debounced
\* one has a deadline and is capped by it.
NewRow(c) ==
  LET debounced == Call[c] = "debounce"
      deadline  == IF debounced THEN now + DebounceTimeout ELSE now + Period
  IN [status |-> "DELAYED", key |-> TRUE, debounced |-> debounced,
      delay |-> Smaller(now + Period, deadline), deadline |-> deadline, input |-> c]

\* A call's result becomes visible to its program.
Return(c, result) ==
  /\ call' = [call EXCEPT ![c].pc = "done", ![c].existing = Null]
  /\ returned' = [returned EXCEPT ![c] = @ \cup {result}]

Goto(c, pc) == call' = [call EXCEPT ![c].pc = pc] /\ UNCHANGED returned

\* Continue with the next operation of the workflow; a client has no function IDs.
NextFn(c) == IF c \in InWorkflow THEN call[c].fn + 1 ELSE call[c].fn

GotoNext(c, pc) ==
  /\ call' = [call EXCEPT ![c].pc = pc, ![c].fn = NextFn(c)]
  /\ UNCHANGED returned

Recorded(c) == c \in InWorkflow /\ call[c].fn \in DOMAIN log[c]

\* The checkpoint of the call's current operation.
Checkpoint(c, result) ==
  log' = IF c \in InWorkflow
         THEN [log EXCEPT ![c] = [f \in DOMAIN @ \cup {call[c].fn} |->
                                    IF f = call[c].fn THEN result ELSE @[f]]]
         ELSE log

Start(c) == IF Call[c] = "debounce" THEN "bounce" ELSE "insert"

-----------------------------------------------------------------------------
(* Debounce *)

\* What the caller does with a bounce's answer: a handle, "enqueue", "raise" or "retry".
Classify(c, answer) ==
  CASE answer[1] = "enqueue" -> GotoNext(c, "insert")
    [] answer[1] = "retry"   -> GotoNext(c, "bounce")
    [] answer[1] = "raise"   -> Return(c, Dup)
    [] answer[1] = "handle"  -> Return(c, answer)

\* The bounce was checkpointed before a crash: its answer is replayed.
ReplayBounce(c) ==
  /\ call[c].pc = "bounce" /\ Recorded(c)
  /\ Classify(c, log[c][call[c].fn])
  /\ UNCHANGED <<rows, log, took, now, faults>>

\* The checkpoint left to a transaction of its own.
BounceUnrecorded(c) ==
  /\ call[c].pc = "bounce" /\ ~Recorded(c)
  /\ \E w \in Bounceable(c) :
       /\ rows' = [rows EXCEPT ![w].delay = Extended(w), ![w].input = c]
       /\ took' = [took EXCEPT ![c] = @ \cup {w}]
       /\ Return(c, Handle(w))
  /\ UNCHANGED <<log, now, faults>>

\* The UPDATE of #debounceDelayedWorkflowInternal finds a row: in a workflow
\* the same transaction writes the checkpoint.
Bounce(c) ==
  /\ call[c].pc = "bounce" /\ ~Recorded(c)
  /\ \E w \in Bounceable(c) :
       /\ rows' = [rows EXCEPT ![w].delay = Extended(w), ![w].input = c]
       /\ took' = [took EXCEPT ![c] = @ \cup {w}]
       /\ Checkpoint(c, Handle(w))
       /\ Return(c, Handle(w))
  /\ UNCHANGED <<now, faults>>

\* The UPDATE finds none; the SELECT that follows has a later snapshot.
BounceMiss(c) ==
  /\ call[c].pc = "bounce" /\ ~Recorded(c)
  /\ Bounceable(c) = {}
  /\ Goto(c, "holder")
  /\ UNCHANGED <<rows, log, took, now, faults>>

\* A debounced holder is returned although the UPDATE missed it.
HolderReturned(c) ==
  /\ call[c].pc = "holder"
  /\ LET answer == IF Holders = {} THEN Word("enqueue") ELSE Handle(CHOOSE w \in Holders : TRUE)
     IN Checkpoint(c, answer) /\ Classify(c, answer)
  /\ UNCHANGED <<rows, took, now, faults>>

\* classifyBounce: a holder that was not debounced, or is another workflow
\* under the same key, is an error.
Holder(c) ==
  /\ call[c].pc = "holder"
  /\ LET answer == Word(IF Holders = {} THEN "enqueue"
                        ELSE IF \E w \in Holders : Same(c, w) THEN "retry" ELSE "raise")
     IN Checkpoint(c, answer) /\ Classify(c, answer)
  /\ UNCHANGED <<rows, took, now, faults>>

\* A standalone bounce commits, its answer is lost and @dbRetry runs it again.
BounceAckLost(c) ==
  /\ call[c].pc = "bounce" /\ c \notin InWorkflow
  /\ faults < MaxFaults
  /\ \E w \in Bounceable(c) :
       /\ rows' = [rows EXCEPT ![w].delay = Extended(w), ![w].input = c]
       /\ took' = [took EXCEPT ![c] = @ \cup {w}]
  /\ faults' = faults + 1
  /\ UNCHANGED <<log, call, returned, now>>

-----------------------------------------------------------------------------
(* Enqueue *)

\* A duplicate: a client's plain enqueue reports it, a debounce bounces again,
\* a return-existing call looks the holder up.
Duplicate(c) ==
  CASE Call[c] = "debounce"  -> GotoNext(c, "bounce")
    [] Call[c] = "singleton" -> Goto(c, "lookup")
    [] Call[c] = "start"     -> Return(c, Dup)

\* The start was checkpointed before a crash: its error or its child is replayed.
ReplayInsert(c) ==
  /\ call[c].pc = "insert" /\ Recorded(c)
  /\ LET result == log[c][call[c].fn]
     IN IF result = Dup THEN Duplicate(c) ELSE Return(c, result)
  /\ UNCHANGED <<rows, log, took, now, faults>>

Inserted(c) == IF c \in InWorkflow THEN Goto(c, "record") ELSE Return(c, Handle(Id(c)))

\* initWorkflowStatus: the row is new, or it is the call's own, already there.
Insert(c) ==
  /\ call[c].pc = "insert" /\ ~Recorded(c)
  /\ IF Id(c) \in DOMAIN rows
     THEN UNCHANGED <<rows, took>>
     ELSE /\ Holders = {}
          /\ rows' = [w \in DOMAIN rows \cup {Id(c)} |-> IF w = Id(c) THEN NewRow(c) ELSE rows[w]]
          /\ took' = [took EXCEPT ![c] = @ \cup {Id(c)}]
  /\ Inserted(c)
  /\ UNCHANGED <<log, now, faults>>

\* The unique index refuses the row; a workflow first records the error,
\* which a return-existing call leaves to its own loop.
InsertDuplicate(c) ==
  /\ call[c].pc = "insert" /\ ~Recorded(c)
  /\ Id(c) \notin DOMAIN rows /\ Holders # {}
  /\ IF c \in InWorkflow /\ Call[c] # "singleton" THEN Goto(c, "refused") ELSE Duplicate(c)
  /\ UNCHANGED <<rows, log, took, now, faults>>

RecordDuplicateNever(c) ==
  /\ call[c].pc = "refused"
  /\ Duplicate(c)
  /\ UNCHANGED <<rows, log, took, now, faults>>

\* The catch block of internalWorkflow tests callerFunctionID for truth, so
\* function ID 0 records nothing.
RecordDuplicate(c) ==
  /\ call[c].pc = "refused"
  /\ IF call[c].fn = 0 THEN UNCHANGED log ELSE Checkpoint(c, Dup)
  /\ Duplicate(c)
  /\ UNCHANGED <<rows, took, now, faults>>

\* The row commits, its answer is lost and @dbRetry inserts it again.
InsertAckLost(c) ==
  /\ call[c].pc = "insert" /\ ~Recorded(c)
  /\ Id(c) \notin DOMAIN rows /\ Holders = {}
  /\ faults < MaxFaults
  /\ rows' = [w \in DOMAIN rows \cup {Id(c)} |-> IF w = Id(c) THEN NewRow(c) ELSE rows[w]]
  /\ took' = [took EXCEPT ![c] = @ \cup {Id(c)}]
  /\ faults' = faults + 1
  /\ UNCHANGED <<log, call, returned, now>>

\* The parent-to-child mapping, a transaction after the child's row.
RecordChild(c) ==
  /\ call[c].pc = "record"
  /\ Checkpoint(c, Handle(Id(c)))
  /\ Return(c, Handle(Id(c)))
  /\ UNCHANGED <<rows, took, now, faults>>

\* getDeduplicatedWorkflow, in the loop of a return-existing call: a holder
\* gone since the INSERT sends the loop round again.
Lookup(c) ==
  /\ call[c].pc = "lookup"
  /\ IF Holders = {} THEN Goto(c, "insert")
     ELSE \E w \in Holders :
            IF c \in InWorkflow
            THEN /\ call' = [call EXCEPT ![c].pc = "attach", ![c].existing = w]
                 /\ UNCHANGED returned
            ELSE Return(c, Handle(w))
  /\ UNCHANGED <<rows, log, took, now, faults>>

\* The workflow checkpoints the holder as the child of this call.
RecordExisting(c) ==
  /\ call[c].pc = "attach"
  /\ Checkpoint(c, Handle(call[c].existing))
  /\ Return(c, Handle(call[c].existing))
  /\ UNCHANGED <<rows, took, now, faults>>

-----------------------------------------------------------------------------
(* The queue's side of a row's life *)

\* transitionDelayedWorkflows: every due row, and a debounced one gives its key back.
TransitionDelayed ==
  LET due == {w \in DOMAIN rows : rows[w].status = "DELAYED" /\ rows[w].delay <= now}
  IN /\ due # {}
     /\ rows' = [w \in DOMAIN rows |->
                   IF w \in due THEN [rows[w] EXCEPT !.status = "ENQUEUED",
                                                     !.key = @ /\ ~rows[w].debounced]
                   ELSE rows[w]]
     /\ UNCHANGED <<log, call, returned, took, now, faults>>

\* The row is dequeued, runs and completes; the outcome resets its key.
Complete(w) ==
  /\ rows[w].status = "ENQUEUED"
  /\ rows' = [rows EXCEPT ![w].status = "SUCCESS", ![w].key = FALSE]
  /\ UNCHANGED <<log, call, returned, took, now, faults>>

\* cancelWorkflows, of a row not yet terminal.
CancelRow(w) ==
  /\ rows[w].status \in Active /\ faults < MaxFaults
  /\ rows' = [rows EXCEPT ![w].status = "CANCELLED", ![w].key = FALSE]
  /\ faults' = faults + 1
  /\ UNCHANGED <<log, call, returned, took, now>>

\* setWorkflowDelay: an operator's new delay, which the debounce deadline does not cap.
SetWorkflowDelay(w) ==
  /\ rows[w].status = "DELAYED" /\ faults < MaxFaults
  /\ rows' = [rows EXCEPT ![w].delay = now + DebounceTimeout + Period]
  /\ faults' = faults + 1
  /\ UNCHANGED <<log, call, returned, took, now>>

\* The caller's process stops: a client's call is lost, a workflow starts
\* over from its checkpoints, also after the call had returned.
Crash(c) ==
  /\ faults < MaxFaults
  /\ call[c].pc \notin {"absent", "dead"}
  /\ IF c \in InWorkflow
     THEN call' = [call EXCEPT ![c] = [pc |-> Start(c), fn |-> FirstId[c], existing |-> Null]]
     ELSE call[c].pc # "done" /\ call' = [call EXCEPT ![c].pc = "dead"]
  /\ faults' = faults + 1
  /\ UNCHANGED <<rows, log, returned, took, now>>

Tick ==
  /\ now < MaxTime
  /\ now' = now + 1
  /\ UNCHANGED <<rows, log, call, returned, took, faults>>

-----------------------------------------------------------------------------

Init ==
  /\ rows = [w \in {} |-> Null]
  /\ log = [c \in Callers |-> [f \in {} |-> Null]]
  /\ \E present \in Present :
       call = [c \in Callers |->
                 [pc |-> IF c \in present THEN Start(c) ELSE "absent",
                  fn |-> FirstId[c], existing |-> Null]]
  /\ returned = [c \in Callers |-> {}]
  /\ took = [c \in Callers |-> {}]
  /\ now = 0
  /\ faults = 0

\* Debouncer.debounce and DebouncerClient.debounce.
Debounce(c) == ReplayBounce(c) \/ Bounce(c) \/ BounceMiss(c) \/ Holder(c)

\* internalWorkflow and enqueue, up to the row and its checkpoint.
Enqueue(c) == ReplayInsert(c) \/ Insert(c) \/ InsertDuplicate(c) \/ RecordDuplicate(c) \/ RecordChild(c)

\* The return-existing loops.
Singleton(c) == Lookup(c) \/ RecordExisting(c)

CallStep(c) == Debounce(c) \/ Enqueue(c) \/ Singleton(c)

Next ==
  \/ \E c \in Callers : CallStep(c) \/ BounceAckLost(c) \/ InsertAckLost(c) \/ Crash(c)
  \/ \E w \in DOMAIN rows : Complete(w) \/ CancelRow(w) \/ SetWorkflowDelay(w)
  \/ TransitionDelayed
  \/ Tick

Spec == Init /\ [][Next]_vars

-----------------------------------------------------------------------------

Ids == Callers \X Nat

CallType ==
  [pc : {"absent", "bounce", "holder", "insert", "refused", "record", "lookup", "attach", "done", "dead"},
   fn : Nat, existing : Ids \cup {Null}]

\* The shapes of the rows, the checkpoints, the calls under way and the history.
TypeOK ==
  /\ DOMAIN rows \subseteq Ids
  /\ DOMAIN log = Callers /\ \A c \in Callers : DOMAIN log[c] \subseteq Nat
  /\ call \in [Callers -> CallType]
  /\ DOMAIN returned = Callers /\ took \in [Callers -> SUBSET Ids]
  /\ now \in Nat /\ faults \in Nat

\* A workflow sees one outcome of a call however often it is recovered: the
\* same child, the same coalesced workflow or the same duplication error.
ReplayAgrees == \A c \in InWorkflow : Cardinality(returned[c]) <= 1

\* A workflow's debounce hands its input to one workflow only.  The bounce and
\* its checkpoint commit together (runTransactionalStep), so that a recovery
\* never bounces again what has already been let go to run.
AbsorbedOnce ==
  \A c \in InWorkflow : Call[c] = "debounce" => Cardinality(took[c]) <= 1

\* The workflow a debounce returned did take the call's input: no call is told
\* it was coalesced into a row that had already left DELAYED.
HandleTookInput ==
  \A c \in Callers : Call[c] = "debounce" => \A r \in returned[c] \ {Dup} : r[2] \in took[c]

=============================================================================
