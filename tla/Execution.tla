------------------------------ MODULE Execution ------------------------------
(***************************************************************************)
(* Durable execution of workflows: the rows of workflow_status and         *)
(* operation_outputs in the system database (src/src/system_database.ts),  *)
(* and the executors that claim, run, checkpoint and finish workflows      *)
(* (src/src/dbos-executor.ts).  Executors crash and restart, acknowledg-   *)
(* ments of commits get lost, workflows are cancelled, resumed, timed out  *)
(* and recovered while runs of them are still in progress.                 *)
(*                                                                         *)
(* A workflow function is deterministic: it is the sequence of its steps,  *)
(* and it fails at the first step whose result is an error.  What a step   *)
(* returns is not: every execution of it may return another value.         *)
(***************************************************************************)
EXTENDS Naturals

CONSTANTS
    Executors,    \* processes, by executor ID
    Workflows,    \* workflow IDs
    Runs,         \* slots for invocations of a workflow function, reused
    NumSteps,     \* steps of the workflow function
    Values,       \* what a step can return or throw
    StepErrors,   \* the results that are errors, not caught by the workflow
    Timed,        \* workflows that have a timeout
    Unreadable,   \* workflows whose recorded input may fail to deserialize
    MaxRetries,   \* maxRecoveryAttempts
    SameMs,       \* may two executors finish a step in the same millisecond?
    SweepLive,    \* may recovery be asked for an executor that is alive?
    MaxCrashes, MaxCancels, MaxResumes, MaxSweeps, \* bounds on events
    MaxLostAcks, MaxLostClaims,
    Null

Steps == 1 .. NumSteps

ASSUME ConstantsAssumption ==
    /\ NumSteps \in Nat \ {0}
    /\ StepErrors \subseteq Values
    /\ Timed \subseteq Workflows /\ Unreadable \subseteq Workflows
    /\ MaxRetries \in Nat \ {0}
    /\ SameMs \in BOOLEAN /\ SweepLive \in BOOLEAN
    /\ MaxCrashes \in Nat /\ MaxCancels \in Nat /\ MaxResumes \in Nat
    /\ MaxSweeps \in Nat /\ MaxLostAcks \in Nat /\ MaxLostClaims \in Nat
    /\ Null \notin Executors \cup Workflows \cup Runs \cup Values

VARIABLES
    workflow_status,   \* the row of each workflow
    operation_outputs, \* checkpointed result of each step, Null if there is none
    recorder,          \* which run wrote the checkpoint: its completed_at stamp
    up,                \* executors that are alive
    runningMap,        \* runningWorkflowMap of each executor
    run,               \* invocations in progress
    env                \* how many bounded events have happened

vars == <<workflow_status, operation_outputs, recorder, up, runningMap, run, env>>

-----------------------------------------------------------------------------
(* Rows of workflow_status.  queued stands for queue_name IS NOT NULL,     *)
(* deadline for workflow_deadline_epoch_ms IS NOT NULL, outcome for the    *)
(* output and error columns.  undispatched is history, not a column: no    *)
(* invocation came of the last claim of the workflow.                      *)

NoResults == [i \in Steps |-> Null]

NoRow == [status |-> "NONE", executor_id |-> Null, recovery_attempts |-> 0,
          queued |-> FALSE, deadline |-> FALSE, outcome |-> NoResults, undispatched |-> FALSE]

InsertedRow(w, e, st) ==
    [status |-> st, executor_id |-> e,
     recovery_attempts |-> IF st = "ENQUEUED" THEN 0 ELSE 1,
     queued |-> st = "ENQUEUED",
     deadline |-> st = "PENDING" /\ w \in Timed,
     outcome |-> NoResults, undispatched |-> FALSE]

UpsertedRow(row, e, excluded, inc) ==
    [row EXCEPT !.recovery_attempts =
                    IF row.status = "ENQUEUED" THEN @ ELSE @ + inc,
                !.executor_id = IF excluded = "ENQUEUED" THEN @ ELSE e]

ExhaustedRow(row) ==
    IF row.status = "PENDING"
    THEN [row EXCEPT !.status = "MAX_RECOVERY_ATTEMPTS_EXCEEDED"]
    ELSE row

ClaimedRow(row, w, e) ==
    [row EXCEPT !.status = "PENDING", !.executor_id = e,
                !.deadline = @ \/ w \in Timed, !.undispatched = FALSE]

\* Nobody is going to run what was claimed.
UndispatchedRow(row) == [row EXCEPT !.undispatched = TRUE]

\* Mutant: the status predicate of the UPDATE is missing.
CancelledRowAlways(row) ==
    [row EXCEPT !.status = "CANCELLED", !.queued = FALSE]

CancelledRow(row) ==
    IF row.status \in {"NONE", "SUCCESS", "ERROR"}
    THEN row
    ELSE [row EXCEPT !.status = "CANCELLED", !.queued = FALSE]

ResumedRow(row) ==
    IF row.status \in {"NONE", "SUCCESS", "ERROR"}
    THEN row
    ELSE [row EXCEPT !.status = "ENQUEUED", !.queued = TRUE,
                     !.recovery_attempts = 0, !.deadline = FALSE]

Failed(res) == \E i \in Steps : res[i] \in StepErrors

\* Mutant: an outcome overwrites CANCELLED.
FinishedRowAlways(row, res) ==
    [row EXCEPT !.status = IF Failed(res) THEN "ERROR" ELSE "SUCCESS",
                !.outcome = res]

FinishedRow(row, res) ==
    IF row.status = "CANCELLED"
    THEN row
    ELSE [row EXCEPT !.status = IF Failed(res) THEN "ERROR" ELSE "SUCCESS",
                     !.outcome = res]

\* recordWorkflowError of an input that cannot be deserialized: no step has a say.
RejectedRow(row) ==
    IF row.status = "CANCELLED" THEN row ELSE [row EXCEPT !.status = "ERROR"]

\* Mutant: the executor ID predicate is missing.
ReenqueuedAny(rows, e) ==
    [w \in Workflows |->
        IF rows[w].status = "PENDING"
        THEN [rows[w] EXCEPT !.status = "ENQUEUED", !.queued = TRUE]
        ELSE rows[w]]

Reenqueued(rows, e) ==
    [w \in Workflows |->
        IF rows[w].status = "PENDING" /\ rows[w].executor_id = e
        THEN [rows[w] EXCEPT !.status = "ENQUEUED", !.queued = TRUE]
        ELSE rows[w]]

-----------------------------------------------------------------------------
(* Invocations.  pc says where the invocation is:                          *)
(*   init      the insert of a new row was sent, its acknowledgment lost   *)
(*   claimed   dequeued, executeWorkflowId has not read the row yet        *)
(*   loaded    executeWorkflowId has read the row                          *)
(*   check     about to look up the checkpoint of the current step         *)
(*   exec      the step function is running                                *)
(*   record    about to insert the step's checkpoint                       *)
(*   marker    checkpoint won, about to claim the executor_id marker       *)
(*   return    the workflow function has returned or thrown                *)
(*   conflict  another run won a step: waiting for the workflow's result   *)
(*   unwind    cancelled, the promise is not settled yet                   *)
(*   outcome   about to record the workflow's outcome                      *)

Body == {"check", "exec", "record", "marker", "return"}
Registered == Body \cup {"conflict", "unwind"}
PCs == Registered \cup {"free", "init", "claimed", "loaded", "outcome"}

FreeRun == [pc |-> "free", exec |-> Null, wf |-> Null, step |-> 1,
            res |-> NoResults, val |-> Null, timer |-> "off", queued |-> FALSE]

NewRun(e, w, pc) == [FreeRun EXCEPT !.pc = pc, !.exec = e, !.wf = w]

\* Mutant: the check for a running invocation is missing.
DispatchUnguarded(r, e, w, deadline) ==
    /\ run' = [run EXCEPT ![r] =
           [NewRun(e, w, "check") EXCEPT !.timer = IF deadline THEN "armed" ELSE "off"]]
    /\ runningMap' = [runningMap EXCEPT ![e] = @ \cup {w}]

Dispatch(r, e, w, deadline) ==
    IF w \in runningMap[e]
    THEN /\ run' = [run EXCEPT ![r] = FreeRun]
         /\ UNCHANGED runningMap
    ELSE /\ run' = [run EXCEPT ![r] =
                [NewRun(e, w, "check") EXCEPT !.timer = IF deadline THEN "armed" ELSE "off"]]
         /\ runningMap' = [runningMap EXCEPT ![e] = @ \cup {w}]

ReleaseRunningWorkflow(r) ==
    runningMap' = [runningMap EXCEPT ![run[r].exec] = @ \ {run[r].wf}]

EventKinds == {"crashes", "cancels", "resumes", "sweeps", "lostAcks", "lostClaims"}

Event(kind, bound) ==
    /\ env[kind] < bound
    /\ env' = [env EXCEPT ![kind] = @ + 1]

\* Mutant: off by one.
ExhaustedOneLate(row) == row.recovery_attempts > MaxRetries + 2

Exhausted(row) == row.recovery_attempts > MaxRetries + 1

-----------------------------------------------------------------------------
(* Creating workflows.  A start or an enqueue of an ID that has a row      *)
(* already is rolled back (owner_xid differs): it changes nothing.         *)

StartWorkflow(e, w, r) ==
    /\ up[e] /\ run[r].pc = "free" /\ workflow_status[w].status = "NONE"
    /\ workflow_status' = [workflow_status EXCEPT ![w] = InsertedRow(w, e, "PENDING")]
    /\ Dispatch(r, e, w, w \in Timed)
    /\ UNCHANGED <<operation_outputs, recorder, up, env>>

\* The insert committed but the connection broke: dbRetry runs it again.
StartWorkflowAckLost(e, w, r) ==
    /\ up[e] /\ run[r].pc = "free" /\ workflow_status[w].status = "NONE"
    /\ Event("lostAcks", MaxLostAcks)
    /\ workflow_status' = [workflow_status EXCEPT ![w] = InsertedRow(w, e, "PENDING")]
    /\ run' = [run EXCEPT ![r] = NewRun(e, w, "init")]
    /\ UNCHANGED <<operation_outputs, recorder, up, runningMap>>

EnqueueWorkflow(e, w) ==
    /\ up[e] /\ workflow_status[w].status = "NONE"
    /\ workflow_status' = [workflow_status EXCEPT ![w] = InsertedRow(w, e, "ENQUEUED")]
    /\ UNCHANGED <<operation_outputs, recorder, up, runningMap, run, env>>

-----------------------------------------------------------------------------
(* Dequeue and dispatch.  Flow control is the subject of module Dequeue.   *)

FindAndMarkStartable(e, w, r) ==
    /\ up[e] /\ run[r].pc = "free" /\ workflow_status[w].status = "ENQUEUED"
    /\ workflow_status' = [workflow_status EXCEPT ![w] = ClaimedRow(@, w, e)]
    /\ run' = [run EXCEPT ![r] = NewRun(e, w, "claimed")]
    /\ UNCHANGED <<operation_outputs, recorder, up, runningMap, env>>

\* The claim committed, the acknowledgment was lost: the poll fails and is logged.
FindAndMarkAckLost(e, w) ==
    /\ up[e] /\ workflow_status[w].status = "ENQUEUED"
    /\ Event("lostClaims", MaxLostClaims)
    /\ workflow_status' = [workflow_status EXCEPT ![w] = UndispatchedRow(ClaimedRow(@, w, e))]
    /\ UNCHANGED <<operation_outputs, recorder, up, runningMap, run>>

ExecuteWorkflowId(r) ==
    /\ run[r].pc = "claimed"
    /\ run' = [run EXCEPT ![r].pc = "loaded",
                          ![r].queued = workflow_status[run[r].wf].queued]
    /\ UNCHANGED <<workflow_status, operation_outputs, recorder, up, runningMap, env>>

\* executeWorkflowId throws (the read fails, the row or its input is missing, the
\* function is not registered): the dispatch loop logs it, and the row stays as it is.
DispatchFails(r) ==
    /\ run[r].pc = "claimed"
    /\ Event("lostClaims", MaxLostClaims)
    /\ workflow_status' = [workflow_status EXCEPT ![run[r].wf] = UndispatchedRow(@)]
    /\ run' = [run EXCEPT ![r] = FreeRun]
    /\ UNCHANGED <<operation_outputs, recorder, up, runningMap>>

\* "record the error on the workflow so it transitions to ERROR".
RejectInput(r) ==
    /\ run[r].pc = "claimed" /\ run[r].wf \in Unreadable
    /\ workflow_status' = [workflow_status EXCEPT ![run[r].wf] = RejectedRow(@)]
    /\ run' = [run EXCEPT ![r] = FreeRun]
    /\ UNCHANGED <<operation_outputs, recorder, up, runningMap, env>>

\* The row initWorkflowStatus leaves behind for a retried start or a dequeued run.
InitializedRow(r) ==
    LET row == workflow_status[run[r].wf]
        new == IF run[r].pc = "init"
               THEN UpsertedRow(row, run[r].exec, "PENDING", 0)
               ELSE UpsertedRow(row, run[r].exec,
                                IF run[r].queued THEN "ENQUEUED" ELSE "PENDING", 1)
    IN  IF Exhausted(new) THEN ExhaustedRow(new) ELSE new

\* Mutant: a start whose acknowledgment was lost is not tried again.
InitWorkflowStatusOnce(r) ==
    /\ run[r].pc = "loaded"
    /\ ~Exhausted(InitializedRow(r))
    /\ workflow_status' = [workflow_status EXCEPT ![run[r].wf] = InitializedRow(r)]
    /\ Dispatch(r, run[r].exec, run[r].wf, InitializedRow(r).deadline)
    /\ UNCHANGED <<operation_outputs, recorder, up, env>>

InitWorkflowStatus(r) ==
    LET w == run[r].wf
        e == run[r].exec
        new == InitializedRow(r)
    IN  /\ run[r].pc \in {"init", "loaded"}
        /\ workflow_status' = [workflow_status EXCEPT ![w] = new]
        /\ IF Exhausted(new)
           THEN /\ run' = [run EXCEPT ![r] = FreeRun]
                /\ UNCHANGED runningMap
           ELSE Dispatch(r, e, w, new.deadline)
        /\ UNCHANGED <<operation_outputs, recorder, up, env>>

InitWorkflowStatusAckLost(r) ==
    /\ run[r].pc \in {"init", "loaded"}
    /\ Event("lostAcks", MaxLostAcks)
    /\ workflow_status' = [workflow_status EXCEPT ![run[r].wf] = InitializedRow(r)]
    /\ UNCHANGED <<operation_outputs, recorder, up, runningMap, run>>

-----------------------------------------------------------------------------
(* Steps.                                                                  *)

\* Mutant: the workflow function goes on after a step that threw.
AdvancedPastErrors(rr, v) ==
    [rr EXCEPT !.res[rr.step] = v, !.step = @ + 1, !.val = Null,
               !.pc = IF rr.step = NumSteps THEN "return" ELSE "check"]

\* The invocation has the result v of its current step.
Advanced(rr, v) ==
    [rr EXCEPT !.res[rr.step] = v, !.step = @ + 1, !.val = Null,
               !.pc = IF v \in StepErrors \/ rr.step = NumSteps
                      THEN "return" ELSE "check"]

IsCancelled(w) == workflow_status[w].status = "CANCELLED"

CheckStep(r) ==
    LET w == run[r].wf
        k == run[r].step
    IN  /\ run[r].pc = "check"
        /\ run' = [run EXCEPT ![r] =
               IF IsCancelled(w) THEN [@ EXCEPT !.pc = "unwind"]
               ELSE IF operation_outputs[w][k] # Null
                    THEN Advanced(@, operation_outputs[w][k])
                    ELSE [@ EXCEPT !.pc = "exec"]]
        /\ UNCHANGED <<workflow_status, operation_outputs, recorder, up, runningMap, env>>

\* A failed attempt that is retried leaves no trace; the last attempt's result does.
ExecuteStep(r, v) ==
    /\ run[r].pc = "exec"
    /\ run' = [run EXCEPT ![r].pc = "record", ![r].val = v]
    /\ UNCHANGED <<workflow_status, operation_outputs, recorder, up, runningMap, env>>

\* The cancellation check before each retried attempt.
RetriedStepCancelled(r) ==
    /\ run[r].pc = "exec" /\ IsCancelled(run[r].wf)
    /\ run' = [run EXCEPT ![r].pc = "unwind"]
    /\ UNCHANGED <<workflow_status, operation_outputs, recorder, up, runningMap, env>>

\* Mutant: a checkpoint that exists is taken for the run's own.
AnyStamp(r) == TRUE

\* The checkpoint carries the completed_at stamp of this run's own insert.
OwnStamp(r) == recorder[run[r].wf][run[r].step] = r

RecordStep(r) ==
    LET w == run[r].wf
        k == run[r].step
    IN  /\ run[r].pc = "record"
        /\ operation_outputs[w][k] = Null
        /\ operation_outputs' = [operation_outputs EXCEPT ![w][k] = run[r].val]
        /\ recorder' = [recorder EXCEPT ![w][k] = r]
        /\ run' = [run EXCEPT ![r].pc = "marker"]
        /\ UNCHANGED <<workflow_status, up, runningMap, env>>

RecordStepAgain(r) ==
    LET w == run[r].wf
        k == run[r].step
    IN  /\ run[r].pc = "record"
        /\ operation_outputs[w][k] # Null
        /\ OwnStamp(r) \/ SameMs   \* a stamp has the resolution of Date.now()
        /\ run' = [run EXCEPT ![r].pc = "marker"]
        /\ UNCHANGED <<workflow_status, operation_outputs, recorder, up, runningMap, env>>

RecordStepConflict(r) ==
    LET w == run[r].wf
        k == run[r].step
    IN  /\ run[r].pc = "record"
        /\ operation_outputs[w][k] # Null
        /\ ~OwnStamp(r)
        /\ run' = [run EXCEPT ![r] =
               IF @.timer = "fired" THEN [@ EXCEPT !.pc = "unwind"]
               ELSE [@ EXCEPT !.pc = "conflict", !.timer = "off"]]
        /\ UNCHANGED <<workflow_status, operation_outputs, recorder, up, runningMap, env>>

ClaimMarker(r) ==
    /\ run[r].pc = "marker"
    /\ workflow_status' = [workflow_status EXCEPT ![run[r].wf].executor_id = run[r].exec]
    /\ run' = [run EXCEPT ![r] = Advanced(@, @.val)]
    /\ UNCHANGED <<operation_outputs, recorder, up, runningMap, env>>

\* The checkpoint committed, the connection broke: dbRetry records it again.
RecordStepAckLost(r) ==
    /\ run[r].pc = "marker"
    /\ Event("lostAcks", MaxLostAcks)
    /\ run' = [run EXCEPT ![r].pc = "record"]
    /\ UNCHANGED <<workflow_status, operation_outputs, recorder, up, runningMap>>

-----------------------------------------------------------------------------
(* Ends of an invocation.                                                  *)

ReturnBody(r) ==
    /\ run[r].pc = "return"
    /\ IF run[r].timer = "fired"
       THEN /\ run' = [run EXCEPT ![r].pc = "unwind"]
            /\ UNCHANGED runningMap
       ELSE /\ run' = [run EXCEPT ![r].pc = "outcome", ![r].timer = "off"]
            /\ ReleaseRunningWorkflow(r)
    /\ UNCHANGED <<workflow_status, operation_outputs, recorder, up, env>>

RecordWorkflowOutcome(r) ==
    /\ run[r].pc = "outcome"
    /\ workflow_status' = [workflow_status EXCEPT ![run[r].wf] = FinishedRow(@, run[r].res)]
    /\ run' = [run EXCEPT ![r] = FreeRun]
    /\ UNCHANGED <<operation_outputs, recorder, up, runningMap, env>>

RecordWorkflowOutcomeAckLost(r) ==
    /\ run[r].pc = "outcome"
    /\ Event("lostAcks", MaxLostAcks)
    /\ workflow_status' = [workflow_status EXCEPT ![run[r].wf] = FinishedRow(@, run[r].res)]
    /\ UNCHANGED <<operation_outputs, recorder, up, runningMap, run>>

Settled == {"SUCCESS", "ERROR", "CANCELLED", "MAX_RECOVERY_ATTEMPTS_EXCEEDED"}

AwaitWorkflowResult(r) ==
    /\ run[r].pc = "conflict"
    /\ workflow_status[run[r].wf].status \in Settled
    /\ ReleaseRunningWorkflow(r)
    /\ run' = [run EXCEPT ![r] = FreeRun]
    /\ UNCHANGED <<workflow_status, operation_outputs, recorder, up, env>>

UnwindCancelled(r) ==
    /\ run[r].pc = "unwind"
    /\ ReleaseRunningWorkflow(r)
    /\ run' = [run EXCEPT ![r] = FreeRun]
    /\ UNCHANGED <<workflow_status, operation_outputs, recorder, up, env>>

TimeoutFires(r) ==
    /\ run[r].pc \in Body \cup {"unwind"} /\ run[r].timer = "armed"
    /\ workflow_status' = [workflow_status EXCEPT ![run[r].wf] = CancelledRow(@)]
    /\ run' = [run EXCEPT ![r].timer = "fired"]
    /\ UNCHANGED <<operation_outputs, recorder, up, runningMap, env>>

-----------------------------------------------------------------------------
(* Management operations, failures and recovery.                           *)

CancelWorkflow(w) ==
    /\ workflow_status[w].status # "NONE"
    /\ Event("cancels", MaxCancels)
    /\ workflow_status' = [workflow_status EXCEPT ![w] = CancelledRow(@)]
    /\ UNCHANGED <<operation_outputs, recorder, up, runningMap, run>>

ResumeWorkflow(w) ==
    /\ workflow_status[w].status # "NONE"
    /\ Event("resumes", MaxResumes)
    /\ workflow_status' = [workflow_status EXCEPT ![w] = ResumedRow(@)]
    /\ UNCHANGED <<operation_outputs, recorder, up, runningMap, run>>

Crash(e) ==
    /\ up[e]
    /\ Event("crashes", MaxCrashes)
    /\ up' = [up EXCEPT ![e] = FALSE]
    /\ runningMap' = [runningMap EXCEPT ![e] = {}]
    /\ run' = [r \in Runs |-> IF run[r].exec = e THEN FreeRun ELSE run[r]]
    /\ UNCHANGED <<workflow_status, operation_outputs, recorder>>

\* Mutant: the executor does not recover its own workflows.
RestartNoSweep(e) ==
    /\ ~up[e]
    /\ up' = [up EXCEPT ![e] = TRUE]
    /\ UNCHANGED <<workflow_status, operation_outputs, recorder, runningMap, run, env>>

\* init: the executor sweeps its own workflows before it starts anything.
Restart(e) ==
    /\ ~up[e]
    /\ up' = [up EXCEPT ![e] = TRUE]
    /\ workflow_status' = Reenqueued(workflow_status, e)
    /\ UNCHANGED <<operation_outputs, recorder, runningMap, run, env>>

\* Recovery of executor e, asked of another one (admin endpoint, conductor).
RecoverPendingWorkflows(e) ==
    /\ SweepLive \/ ~up[e]
    /\ \E other \in Executors \ {e} : up[other]
    /\ Event("sweeps", MaxSweeps)
    /\ workflow_status' = Reenqueued(workflow_status, e)
    /\ UNCHANGED <<operation_outputs, recorder, up, runningMap, run>>

-----------------------------------------------------------------------------
Init ==
    /\ workflow_status = [w \in Workflows |-> NoRow]
    /\ operation_outputs = [w \in Workflows |-> NoResults]
    /\ recorder = [w \in Workflows |-> NoResults]
    /\ up = [e \in Executors |-> TRUE]
    /\ runningMap = [e \in Executors |-> {}]
    /\ run = [r \in Runs |-> FreeRun]
    /\ env = [kind \in EventKinds |-> 0]

\* What an executor does by itself for an invocation it has.
RunStep(r) ==
    \/ ExecuteWorkflowId(r) \/ InitWorkflowStatus(r)
    \/ CheckStep(r) \/ (\E v \in Values : ExecuteStep(r, v))
    \/ RecordStep(r) \/ RecordStepAgain(r) \/ RecordStepConflict(r) \/ ClaimMarker(r)
    \/ ReturnBody(r) \/ RecordWorkflowOutcome(r)
    \/ AwaitWorkflowResult(r) \/ UnwindCancelled(r)

\* What may happen to an invocation, and need not.
RunEvent(r) ==
    \/ DispatchFails(r) \/ RejectInput(r)
    \/ InitWorkflowStatusAckLost(r) \/ RecordStepAckLost(r)
    \/ RecordWorkflowOutcomeAckLost(r)
    \/ RetriedStepCancelled(r) \/ TimeoutFires(r)

Next ==
    \/ \E r \in Runs : RunStep(r) \/ RunEvent(r)
    \/ \E e \in Executors, w \in Workflows, r \in Runs :
           \/ StartWorkflow(e, w, r)
           \/ StartWorkflowAckLost(e, w, r)
           \/ FindAndMarkStartable(e, w, r)
    \/ \E e \in Executors, w \in Workflows :
           \/ EnqueueWorkflow(e, w)
           \/ FindAndMarkAckLost(e, w)
    \/ \E w \in Workflows : CancelWorkflow(w) \/ ResumeWorkflow(w)
    \/ \E e \in Executors : Crash(e) \/ Restart(e) \/ RecoverPendingWorkflows(e)

Spec == Init /\ [][Next]_vars

\* Processes that are alive make progress: promises settle, step functions
\* return, queues are polled and a crashed process is started again.
Fairness ==
    /\ \A r \in Runs : WF_vars(RunStep(r))
    /\ \A w \in Workflows :
           WF_vars(\E e \in Executors, r \in Runs : FindAndMarkStartable(e, w, r))
    /\ \A e \in Executors : WF_vars(Restart(e))

FairSpec == Spec /\ Fairness

-----------------------------------------------------------------------------
(* Properties.                                                             *)

RowType ==
    [status : {"NONE", "ENQUEUED", "PENDING"} \cup Settled,
     executor_id : Executors \cup {Null},
     recovery_attempts : Nat,
     queued : BOOLEAN,
     deadline : BOOLEAN,
     outcome : [Steps -> Values \cup {Null}],
     undispatched : BOOLEAN]

RunType ==
    [pc : PCs, exec : Executors \cup {Null}, wf : Workflows \cup {Null},
     step : 1 .. NumSteps + 1, res : [Steps -> Values \cup {Null}],
     val : Values \cup {Null}, timer : {"off", "armed", "fired"}, queued : BOOLEAN]

\* The type of every table, map and invocation; an invocation that exists
\* belongs to an executor and to a workflow.
TypeOK ==
    /\ workflow_status \in [Workflows -> RowType]
    /\ operation_outputs \in [Workflows -> [Steps -> Values \cup {Null}]]
    /\ recorder \in [Workflows -> [Steps -> Runs \cup {Null}]]
    /\ up \in [Executors -> BOOLEAN]
    /\ runningMap \in [Executors -> SUBSET Workflows]
    /\ run \in [Runs -> RunType]
    /\ env \in [EventKinds -> Nat]
    /\ \A r \in Runs : run[r].pc # "free" => run[r].exec \in Executors /\ run[r].wf \in Workflows

\* Whatever runs of a workflow are in progress, on whichever executors, all of
\* them have seen the same results of its steps, and these are the ones in
\* operation_outputs: a step has one result, which callStepFunction either
\* reads back or wins the right to record.
ReplayAgreement ==
    \A r \in Runs : run[r].pc \in Registered \cup {"outcome"} =>
        \A i \in 1 .. run[r].step - 1 :
            run[r].res[i] = operation_outputs[run[r].wf][i]

\* A recorded outcome is the one that the checkpoints of the workflow lead to:
\* SUCCESS with every step checkpointed, or ERROR at the step that threw.
OutcomeFromCheckpoints ==
    \A w \in Workflows : workflow_status[w].status \in {"SUCCESS", "ERROR"} =>
        /\ workflow_status[w].outcome = operation_outputs[w]
        /\ IF workflow_status[w].status = "ERROR"
           THEN Failed(operation_outputs[w])
           ELSE \A i \in Steps : operation_outputs[w][i] \in Values \ StepErrors

\* An executor's runningWorkflowMap has exactly the workflows of which it has an
\* invocation that did not release its entry, and there is one such invocation:
\* releases neither leak an entry nor drop one that a later dispatch acquired.
RunningMapExact ==
    \A e \in Executors, w \in Workflows :
        LET holders == {r \in Runs : /\ run[r].exec = e /\ run[r].wf = w
                                     /\ run[r].pc \in Registered}
        IN  IF w \in runningMap[e] THEN \E r \in Runs : holders = {r} ELSE holders = {}

\* As long as recovery is only asked for executors that are dead, and nobody
\* resumes a workflow that is running, a workflow has at most one run on all the
\* executors together: "the queue's atomic dequeue admits exactly one runner".
OneRunner ==
    \A r, s \in Runs :
        (run[r].pc \in Registered /\ run[s].pc \in Registered /\ run[r].wf = run[s].wf) => r = s

\* A PENDING workflow is in the hands of the executor its row names, or that
\* executor is dead, so that the sweep of its restart finds the workflow.  There is
\* one way to be orphaned on a live executor: the poll that claimed the workflow last
\* lost the answer, or its dispatch threw and was logged.
PendingHasRunner ==
    \A w \in Workflows : workflow_status[w].status = "PENDING" =>
        \/ ~up[workflow_status[w].executor_id]
        \/ workflow_status[w].undispatched
        \/ \E r \in Runs : /\ run[r].wf = w /\ run[r].exec = workflow_status[w].executor_id
                           /\ run[r].pc # "conflict"

\* A workflow that failed maxRecoveryAttempts recoveries is not run again, and
\* one is given up only after more than maxRecoveryAttempts disruptions of it.
RecoveryAttemptsBound ==
    /\ \A r \in Runs : run[r].pc \in Registered =>
           workflow_status[run[r].wf].recovery_attempts \in 1 .. MaxRetries + 1
    /\ \A w \in Workflows :
           workflow_status[w].status = "MAX_RECOVERY_ATTEMPTS_EXCEEDED" =>
               env["crashes"] + env["lostAcks"] > MaxRetries

\* SUCCESS and ERROR are final: no cancel, resume, recovery or late run of the
\* workflow changes the status, and every run that finishes later records the
\* same outcome.
OutcomeStable ==
    [][\A w \in Workflows : workflow_status[w].status \in {"SUCCESS", "ERROR"} =>
           /\ workflow_status'[w].status = workflow_status[w].status
           /\ workflow_status'[w].outcome = workflow_status[w].outcome]_vars

\* A cancelled workflow stays cancelled until it is resumed: a run that is in its
\* last step when the workflow is cancelled cannot complete it.
CancelledUntilResumed ==
    [][\A w \in Workflows :
           workflow_status[w].status = "CANCELLED" /\ env'["resumes"] = env["resumes"] =>
               workflow_status'[w].status = "CANCELLED"]_vars

\* "Winning the checkpoint proves this executor is advancing the workflow": a run
\* that goes on to claim the marker is the one whose result was recorded.
MarkerProvesWin ==
    \A r \in Runs : run[r].pc = "marker" => recorder[run[r].wf][run[r].step] = r

\* Every workflow that was started or enqueued ends, crashes notwithstanding:
\* DBOS "guarantees that tasks complete".  The exception is one whose last claim
\* was not dispatched: it stays PENDING until its executor restarts.
Completion ==
    \A w \in Workflows :
        workflow_status[w].status # "NONE" ~>
            \/ workflow_status[w].status \in Settled
            \/ workflow_status[w].status = "PENDING" /\ workflow_status[w].undispatched

\* The phase of a workflow in the abstract specification.
Phase(row) ==
    CASE row.status = "NONE" -> "absent"
      [] row.status \in {"ENQUEUED", "PENDING"} -> "active"
      [] row.status = "CANCELLED" -> "cancelled"
      [] row.status = "MAX_RECOVERY_ATTEMPTS_EXCEEDED" -> "exhausted"
      [] row.status = "SUCCESS" -> "succeeded"
      [] row.status = "ERROR" -> "failed"

Durable == INSTANCE DurableWorkflow WITH
    phase <- [w \in Workflows |-> Phase(workflow_status[w])],
    log <- operation_outputs,
    result <- [w \in Workflows |-> workflow_status[w].outcome]

\* The tables implement a durable workflow: whatever executors do, the
\* checkpoints are a log that grows one step at a time and is never rewritten,
\* and an outcome is recorded once, from a complete log.
ImplementsDurable == Durable!AbsSpec
=============================================================================
