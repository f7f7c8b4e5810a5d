---------------------------- MODULE OutcomeProofs ----------------------------
(***************************************************************************)
(* Theorems about the outcomes of workflows in module Execution, that      *)
(* Execution implements DurableWorkflow, and about what becomes of PENDING *)
(* workflows: the running map of every executor is exact and, under the    *)
(* assumptions stated with the last theorems of module ExecutionProofs, a  *)
(* PENDING workflow is not forgotten, and is given up after the            *)
(* disruptions that maxRecoveryAttempts allows, not before and not later.  *)
(***************************************************************************)
EXTENDS ExecutionProofs

\* The provers tried, in turn, on a leaf that names none.  Zenon comes first: its
\* translation is deterministic, that to SMT now and then runs out of time.
USE ZenonT(5), SMT, Zenon, Z3, SMTT(6), Z3T(6)

Final == {"SUCCESS", "ERROR"}

RowsExist ==
    \A r \in Runs : run[r].pc # "free" => workflow_status[run[r].wf].status # "NONE"

NoOutcomeYet ==
    \A w \in Workflows :
        workflow_status[w].status \notin Final => workflow_status[w].outcome = NoResults

OutcomeInv == RowsExist /\ NoOutcomeYet /\ OutcomeFromCheckpoints

\* The inductive invariant that all the theorems below rest on.
DurableInv == TypeInv /\ LogInv /\ OutcomeInv

\* What statements other than the recording of an outcome do to a row.
RowMove(row, new) ==
    /\ new.outcome = row.outcome
    /\ \/ new.status = row.status
       \/ row.status = "NONE" /\ new.status \in {"PENDING", "ENQUEUED"}
       \/ row.status = "ENQUEUED" /\ new.status = "PENDING"
       \/ row.status = "PENDING" /\ new.status = "MAX_RECOVERY_ATTEMPTS_EXCEEDED"
       \/ row.status \notin Final \cup {"NONE"} /\ new.status \in {"CANCELLED", "ENQUEUED"}

OneRowMoves(w) ==
    /\ UNCHANGED operation_outputs
    /\ RowMove(workflow_status[w], workflow_status'[w])
    /\ \A x \in Workflows \ {w} : workflow_status'[x] = workflow_status[x]

RowsReenqueued ==
    /\ UNCHANGED operation_outputs
    /\ \A w \in Workflows :
           /\ workflow_status'[w].outcome = workflow_status[w].outcome
           /\ \/ workflow_status'[w].status = workflow_status[w].status
              \/ /\ workflow_status[w].status = "PENDING"
                 /\ workflow_status'[w].status = "ENQUEUED"

OutcomeRecorded(r) ==
    /\ run[r].pc = "outcome"
    /\ UNCHANGED operation_outputs
    /\ workflow_status' = [workflow_status EXCEPT ![run[r].wf] = FinishedRow(@, run[r].res)]

LEMMA InitializedRowMoves ==
    ASSUME TypeInv, NEW r \in Runs, run[r].pc \in {"init", "loaded"}
    PROVE  RowMove(workflow_status[run[r].wf], InitializedRow(r))
  <1>1. run[r].wf \in Workflows /\ workflow_status[run[r].wf] \in RowType
    BY DEF TypeInv, TypeOK
  <1>2. \A row \in RowType : \A e, ex, inc :
            /\ UpsertedRow(row, e, ex, inc).status = row.status
            /\ UpsertedRow(row, e, ex, inc).outcome = row.outcome
    BY DEF UpsertedRow, RowType
  <1>3. \A row \in RowType : \A e, ex, inc :
            RowMove(row, ExhaustedRow(UpsertedRow(row, e, ex, inc)))
    BY <1>2 DEF ExhaustedRow, RowMove, UpsertedRow, RowType
  <1>4. PICK row \in RowType : row = workflow_status[run[r].wf]
    BY <1>1
  <1>5. ASSUME NEW new, NEW e, NEW ex, NEW inc, new = UpsertedRow(row, e, ex, inc)
        PROVE  RowMove(row, IF Exhausted(new) THEN ExhaustedRow(new) ELSE new)
    <2>0. new.status = row.status /\ new.outcome = row.outcome
      BY <1>2, <1>5
    <2>1. RowMove(row, new)
      BY <2>0 DEF RowMove
    <2>2. RowMove(row, ExhaustedRow(new))
      BY <1>3, <1>5
    <2>3. CASE Exhausted(new)
      BY <2>2, <2>3
    <2>4. CASE ~Exhausted(new)
      BY <2>1, <2>4
    <2> QED BY <2>3, <2>4
  <1>6. CASE run[r].pc = "init"
    BY <1>4, <1>5, <1>6 DEF InitializedRow
  <1>7. CASE run[r].pc = "loaded"
    BY <1>4, <1>5, <1>7 DEF InitializedRow
  <1> QED BY <1>6, <1>7

\* The four kinds of steps, as far as the tables are concerned.
LEMMA StepKinds ==
    ASSUME Unreadable = {}, TypeInv, OutcomeInv, [Next]_vars
    PROVE  \/ RowsReenqueued
           \/ \E w \in Workflows : OneRowMoves(w)
           \/ \E r \in Runs : RecordStep(r)
           \/ \E r \in Runs : OutcomeRecorded(r)
  <1>0. /\ workflow_status \in [Workflows -> RowType]
        /\ \A w \in Workflows : workflow_status[w] \in RowType
    BY DEF TypeInv, TypeOK
  <1>1. ASSUME UNCHANGED <<workflow_status, operation_outputs>> PROVE RowsReenqueued
    BY <1>1 DEF RowsReenqueued
  <1>2. ASSUME NEW w \in Workflows, NEW new \in RowType,
               workflow_status' = [workflow_status EXCEPT ![w] = new],
               UNCHANGED operation_outputs, RowMove(workflow_status[w], new)
        PROVE  OneRowMoves(w)
    BY <1>0, <1>2 DEF OneRowMoves
  <1>3. ASSUME NEW e \in Executors, NEW w \in Workflows, NEW st \in {"PENDING", "ENQUEUED"},
               workflow_status[w].status = "NONE", UNCHANGED operation_outputs,
               workflow_status' = [workflow_status EXCEPT ![w] = InsertedRow(w, e, st)]
        PROVE  OneRowMoves(w)
    <2>1. workflow_status[w].outcome = NoResults
      BY <1>3 DEF OutcomeInv, NoOutcomeYet, Final
    <2>2. RowMove(workflow_status[w], InsertedRow(w, e, st))
      BY <1>3, <2>1 DEF RowMove, InsertedRow
    <2>3. InsertedRow(w, e, st) \in RowType
      BY <1>0, RowOperations
    <2> QED BY <1>2, <1>3, <2>2, <2>3
  <1>4. ASSUME NEW e \in Executors, NEW w \in Workflows, NEW r \in Runs,
               StartWorkflow(e, w, r) \/ StartWorkflowAckLost(e, w, r)
        PROVE  OneRowMoves(w)
    BY <1>3, <1>4 DEF StartWorkflow, StartWorkflowAckLost
  <1>5. ASSUME NEW e \in Executors, NEW w \in Workflows, EnqueueWorkflow(e, w)
        PROVE  OneRowMoves(w)
    BY <1>3, <1>5 DEF EnqueueWorkflow
  <1>6. ASSUME NEW e \in Executors, NEW w \in Workflows,
               workflow_status[w].status = "ENQUEUED", UNCHANGED operation_outputs,
               \/ workflow_status' = [workflow_status EXCEPT ![w] = ClaimedRow(@, w, e)]
               \/ workflow_status' = [workflow_status EXCEPT ![w] =
                                         UndispatchedRow(ClaimedRow(@, w, e))]
        PROVE  OneRowMoves(w)
    <2>1. PICK new : /\ workflow_status' = [workflow_status EXCEPT ![w] = new]
                     /\ \/ new = ClaimedRow(workflow_status[w], w, e)
                        \/ new = UndispatchedRow(ClaimedRow(workflow_status[w], w, e))
      BY <1>6
    <2>2. RowMove(workflow_status[w], new)
      BY <1>0, <1>6, <2>1 DEF RowMove, ClaimedRow, UndispatchedRow, RowType
    <2>3. new \in RowType
      BY <1>0, <2>1, RowOperations
    <2> QED BY <1>2, <1>6, <2>1, <2>2, <2>3
  <1>7. ASSUME NEW e \in Executors, NEW w \in Workflows,
               (\E r \in Runs : FindAndMarkStartable(e, w, r)) \/ FindAndMarkAckLost(e, w)
        PROVE  OneRowMoves(w)
    BY <1>6, <1>7 DEF FindAndMarkStartable, FindAndMarkAckLost
  <1>8. ASSUME NEW r \in Runs, InitWorkflowStatus(r) \/ InitWorkflowStatusAckLost(r)
        PROVE  OneRowMoves(run[r].wf) /\ run[r].wf \in Workflows
    <2>1. /\ run[r].pc \in {"init", "loaded"} /\ UNCHANGED operation_outputs
          /\ workflow_status' = [workflow_status EXCEPT ![run[r].wf] = InitializedRow(r)]
      BY <1>8 DEF InitWorkflowStatus, InitWorkflowStatusAckLost
    <2>2. run[r].wf \in Workflows
      BY <2>1 DEF TypeInv, TypeOK
    <2>3. RowMove(workflow_status[run[r].wf], InitializedRow(r))
      BY <2>1, InitializedRowMoves
    <2> QED BY <1>0, <2>1, <2>2, <2>3 DEF OneRowMoves
  <1>9. ASSUME NEW r \in Runs, ClaimMarker(r)
        PROVE  OneRowMoves(run[r].wf) /\ run[r].wf \in Workflows
    <2>1. run[r].wf \in Workflows
      BY <1>9 DEF ClaimMarker, TypeInv, TypeOK
    <2>2. workflow_status[run[r].wf] \in RowType
      BY <1>0, <2>1
    <2>3. /\ workflow_status'[run[r].wf].status = workflow_status[run[r].wf].status
          /\ workflow_status'[run[r].wf].outcome = workflow_status[run[r].wf].outcome
          /\ \A x \in Workflows \ {run[r].wf} : workflow_status'[x] = workflow_status[x]
      BY <1>0, <1>9, <2>1, <2>2 DEF ClaimMarker, RowType
    <2> QED BY <1>9, <2>1, <2>3 DEF ClaimMarker, OneRowMoves, RowMove
  <1>10. ASSUME NEW w \in Workflows, UNCHANGED operation_outputs,
                \/ workflow_status' = [workflow_status EXCEPT ![w] = CancelledRow(@)]
                \/ workflow_status' = [workflow_status EXCEPT ![w] = ResumedRow(@)]
         PROVE  OneRowMoves(w)
    <2>1. /\ RowMove(workflow_status[w], CancelledRow(workflow_status[w]))
          /\ RowMove(workflow_status[w], ResumedRow(workflow_status[w]))
      BY <1>0 DEF RowMove, CancelledRow, ResumedRow, RowType, Final
    <2> QED BY <1>0, <1>10, <2>1 DEF OneRowMoves
  <1>11. ASSUME NEW r \in Runs, TimeoutFires(r)
         PROVE  OneRowMoves(run[r].wf) /\ run[r].wf \in Workflows
    BY <1>10, <1>11 DEF TimeoutFires, TypeInv, TypeOK, Body
  <1>12. ASSUME NEW w \in Workflows, CancelWorkflow(w) \/ ResumeWorkflow(w) PROVE OneRowMoves(w)
    BY <1>10, <1>12 DEF CancelWorkflow, ResumeWorkflow
  <1>13. ASSUME NEW e \in Executors, Restart(e) \/ RecoverPendingWorkflows(e)
         PROVE  RowsReenqueued
    <2>1. workflow_status' = Reenqueued(workflow_status, e) /\ UNCHANGED operation_outputs
      BY <1>13 DEF Restart, RecoverPendingWorkflows
    <2> QED BY <1>0, <2>1 DEF Reenqueued, RowsReenqueued, RowType
  <1>14. ASSUME NEW r \in Runs, RunStep(r) \/ RunEvent(r)
         PROVE  \/ RowsReenqueued \/ (OneRowMoves(run[r].wf) /\ run[r].wf \in Workflows)
                \/ RecordStep(r) \/ OutcomeRecorded(r)
    <2> DEFINE Kind == \/ RowsReenqueued \/ (OneRowMoves(run[r].wf) /\ run[r].wf \in Workflows)
                       \/ RecordStep(r) \/ OutcomeRecorded(r)
    <2>1. ASSUME NEW v \in Values, ExecuteStep(r, v) PROVE RowsReenqueued
      BY <1>1, <2>1 DEF ExecuteStep
    <2>2. ASSUME \/ ExecuteWorkflowId(r) \/ CheckStep(r)
                 \/ RecordStepAgain(r) \/ RecordStepConflict(r) \/ RecordStepAckLost(r)
                 \/ ReturnBody(r) \/ AwaitWorkflowResult(r) \/ UnwindCancelled(r)
                 \/ RetriedStepCancelled(r)
          PROVE  RowsReenqueued
      BY <1>1, <2>2 DEF ExecuteWorkflowId, CheckStep, RecordStepAgain,
          RecordStepConflict, RecordStepAckLost, ReturnBody, AwaitWorkflowResult,
          UnwindCancelled, RetriedStepCancelled
    <2>3. ASSUME RecordWorkflowOutcome(r) \/ RecordWorkflowOutcomeAckLost(r)
          PROVE  Kind
      BY <2>3 DEF RecordWorkflowOutcome, RecordWorkflowOutcomeAckLost, OutcomeRecorded
    <2>4. ASSUME RecordStep(r) PROVE Kind
      BY <2>4
    <2>5. ASSUME \/ InitWorkflowStatus(r) \/ InitWorkflowStatusAckLost(r) \/ ClaimMarker(r)
                 \/ TimeoutFires(r)
          PROVE  Kind
      BY <1>8, <1>9, <1>11, <2>5
    <2>6. RowsReenqueued => Kind
      OBVIOUS
    <2>7. ASSUME DispatchFails(r) PROVE Kind
      <3>1. /\ run[r].wf \in Workflows /\ UNCHANGED operation_outputs
            /\ workflow_status' = [workflow_status EXCEPT ![run[r].wf] = UndispatchedRow(@)]
        BY <2>7 DEF DispatchFails, TypeInv, TypeOK
      <3>2. RowMove(workflow_status[run[r].wf], UndispatchedRow(workflow_status[run[r].wf]))
        BY <1>0, <3>1 DEF RowMove, UndispatchedRow, RowType
      <3>3. OneRowMoves(run[r].wf)
        BY <1>0, <3>1, <3>2 DEF OneRowMoves
      <3> QED BY <3>1, <3>3
    <2>8. ~RejectInput(r)
      BY DEF RejectInput
    <2> HIDE DEF Kind
    <2>9. Kind
      BY <1>14, <2>1, <2>2, <2>3, <2>4, <2>5, <2>6, <2>7, <2>8 DEF RunStep, RunEvent
    <2> QED BY <2>9 DEF Kind
  <1>15. ASSUME NEW e \in Executors, Crash(e) PROVE RowsReenqueued
    BY <1>1, <1>15 DEF Crash
  <1>16. ASSUME UNCHANGED vars PROVE RowsReenqueued
    BY <1>1, <1>16 DEF vars
  <1> QED BY <1>4, <1>5, <1>7, <1>12, <1>13, <1>14, <1>15, <1>16 DEF Next

-----------------------------------------------------------------------------
(* The invariant.                                                          *)

\* An invocation never changes its workflow, and a free slot is taken only by
\* the start or the dequeue of a workflow.
LEMMA RunsKeepWorkflow ==
    ASSUME TypeInv, NEW r \in Runs, RunStep(r) \/ RunEvent(r), NEW s \in Runs,
           run'[s].pc # "free"
    PROVE  run[s].pc # "free" /\ run'[s].wf = run[s].wf
  <1>0. run \in [Runs -> RunType] /\ run[r] \in RunType
    BY DEF TypeInv, TypeOK
  <1> DEFINE Kept == \A x \in Runs : run'[x].pc # "free" =>
                         run[x].pc # "free" /\ run'[x].wf = run[x].wf
  <1>1. ASSUME NEW rr, run' = [run EXCEPT ![r] = rr], run[r].pc # "free",
               rr.pc = "free" \/ rr.wf = run[r].wf
        PROVE  Kept
    BY <1>0, <1>1
  <1>2. FreeRun.pc = "free" /\ \A e, w, pc, t : [NewRun(e, w, pc) EXCEPT !.timer = t].wf = w
    BY DEF FreeRun, NewRun
  <1>3. \A v : Advanced(run[r], v).wf = run[r].wf
    BY <1>0 DEF Advanced, RunType
  <1>4. ASSUME ExecuteWorkflowId(r) PROVE Kept
    BY <1>0, <1>4 DEF ExecuteWorkflowId, RunType
  <1>5. ASSUME InitWorkflowStatus(r) PROVE Kept
    <2>1. run[r].pc # "free"
      BY <1>5 DEF InitWorkflowStatus
    <2>2. \E rr : run' = [run EXCEPT ![r] = rr] /\ (rr.pc = "free" \/ rr.wf = run[r].wf)
      <3>1. CASE run' = [run EXCEPT ![r] = FreeRun]
        BY <1>2, <3>1
      <3>2. CASE run' # [run EXCEPT ![r] = FreeRun]
        <4>1. Dispatch(r, run[r].exec, run[r].wf, InitializedRow(r).deadline)
          BY <1>5, <3>2 DEF InitWorkflowStatus
        <4>2. \E t : run' = [run EXCEPT ![r] =
                                 [NewRun(run[r].exec, run[r].wf, "check") EXCEPT !.timer = t]]
          BY <3>2, <4>1 DEF Dispatch
        <4>3. PICK t : run' = [run EXCEPT ![r] =
                                 [NewRun(run[r].exec, run[r].wf, "check") EXCEPT !.timer = t]]
          BY <4>2
        <4>4. [NewRun(run[r].exec, run[r].wf, "check") EXCEPT !.timer = t].wf = run[r].wf
          BY DEF NewRun, FreeRun
        <4> QED BY <4>3, <4>4
      <3> QED BY <3>1, <3>2
    <2> QED BY <1>1, <2>1, <2>2
  <1>6. ASSUME CheckStep(r) PROVE Kept
    <2>1. /\ [run[r] EXCEPT !.pc = "unwind"].wf = run[r].wf
          /\ [run[r] EXCEPT !.pc = "exec"].wf = run[r].wf
      BY <1>0 DEF RunType
    <2> QED BY <1>1, <1>3, <1>6, <2>1 DEF CheckStep
  <1>7. ASSUME NEW v \in Values, ExecuteStep(r, v) PROVE Kept
    BY <1>0, <1>7 DEF ExecuteStep, RunType
  <1>8. ASSUME RecordStep(r) \/ RecordStepAgain(r) PROVE Kept
    BY <1>0, <1>8 DEF RecordStep, RecordStepAgain, RunType
  <1>9. ASSUME RecordStepConflict(r) PROVE Kept
    <2>1. /\ [run[r] EXCEPT !.pc = "unwind"].wf = run[r].wf
          /\ [run[r] EXCEPT !.pc = "conflict", !.timer = "off"].wf = run[r].wf
      BY <1>0 DEF RunType
    <2> QED BY <1>1, <1>9, <2>1 DEF RecordStepConflict
  <1>10. ASSUME ClaimMarker(r) PROVE Kept
    BY <1>1, <1>3, <1>10 DEF ClaimMarker
  <1>11. ASSUME ReturnBody(r) PROVE Kept
    <2>1. /\ [run[r] EXCEPT !.pc = "unwind"].wf = run[r].wf
          /\ [run[r] EXCEPT !.pc = "outcome", !.timer = "off"].wf = run[r].wf
      BY <1>0 DEF RunType
    <2>2. \/ run' = [run EXCEPT ![r] = [run[r] EXCEPT !.pc = "unwind"]]
          \/ run' = [run EXCEPT ![r] = [run[r] EXCEPT !.pc = "outcome", !.timer = "off"]]
      BY <1>0, <1>11 DEF ReturnBody
    <2>3. run[r].pc # "free"
      BY <1>11 DEF ReturnBody
    <2> QED BY <1>1, <2>1, <2>2, <2>3
  <1>12. ASSUME RecordWorkflowOutcome(r) \/ AwaitWorkflowResult(r) \/ UnwindCancelled(r)
         PROVE  Kept
    BY <1>1, <1>2, <1>12 DEF RecordWorkflowOutcome, AwaitWorkflowResult, UnwindCancelled
  <1>13. ASSUME RunEvent(r) PROVE Kept
    <2>1. ASSUME DispatchFails(r) \/ RejectInput(r) PROVE Kept
      BY <1>1, <1>2, <2>1 DEF DispatchFails, RejectInput
    <2>2. ASSUME ~(DispatchFails(r) \/ RejectInput(r)) PROVE Kept
      BY <1>0, <1>13, <2>2 DEF RunEvent, InitWorkflowStatusAckLost, RecordStepAckLost,
          RecordWorkflowOutcomeAckLost, RetriedStepCancelled, TimeoutFires, RunType, Body
    <2> QED BY <2>1, <2>2
  <1> HIDE DEF Kept
  <1>14. Kept
    BY <1>4, <1>5, <1>6, <1>7, <1>8, <1>9, <1>10, <1>11, <1>12, <1>13 DEF RunStep
  <1> QED BY <1>14 DEF Kept

\* The row of a workflow that has an invocation exists.
LEMMA RowsExistNext ==
    ASSUME Unreadable = {}, TypeInv, OutcomeInv, [Next]_vars PROVE RowsExist'
  <1>0. /\ workflow_status \in [Workflows -> RowType] /\ run \in [Runs -> RunType]
        /\ \A r \in Runs : run[r].pc # "free" => run[r].wf \in Workflows
    BY DEF TypeInv, TypeOK
  <1> DEFINE RowsStay == \A w \in Workflows : workflow_status[w].status # "NONE" =>
                             workflow_status'[w].status # "NONE"
  <1>1. RowsStay
    <2>1. ASSUME RowsReenqueued \/ \E w \in Workflows : OneRowMoves(w) PROVE RowsStay
      BY <2>1 DEF RowsReenqueued, OneRowMoves, RowMove
    <2>2. ASSUME NEW r \in Runs, RecordStep(r) PROVE RowsStay
      BY <2>2 DEF RecordStep
    <2>3. ASSUME NEW r \in Runs, OutcomeRecorded(r) PROVE RowsStay
      <3>1. \A row \in RowType : \A res : row.status # "NONE" => FinishedRow(row, res).status # "NONE"
        BY DEF FinishedRow, RowType
      <3>2. run[r].wf \in Workflows
        BY <1>0, <2>3 DEF OutcomeRecorded
      <3> QED BY <1>0, <2>3, <3>1, <3>2 DEF OutcomeRecorded
    <2> QED BY <2>1, <2>2, <2>3, StepKinds
  <1>2. ASSUME \A s \in Runs : run'[s].pc # "free" =>
                   run[s].pc # "free" /\ run'[s].wf = run[s].wf
        PROVE  RowsExist'
    BY <1>0, <1>1, <1>2 DEF RowsExist, OutcomeInv
  <1>3. ASSUME NEW e \in Executors, NEW w \in Workflows, NEW r \in Runs,
               \/ StartWorkflow(e, w, r) \/ StartWorkflowAckLost(e, w, r)
               \/ FindAndMarkStartable(e, w, r)
        PROVE  RowsExist'
    <2>1. workflow_status'[w].status # "NONE"
      <3>1. \A row \in RowType : ClaimedRow(row, w, e).status = "PENDING"
        BY DEF ClaimedRow, RowType
      <3>2. InsertedRow(w, e, "PENDING").status = "PENDING"
        BY DEF InsertedRow
      <3> QED BY <1>0, <1>3, <3>1, <3>2 DEF StartWorkflow, StartWorkflowAckLost,
          FindAndMarkStartable
    <2>2. \E rr : run' = [run EXCEPT ![r] = rr] /\ (rr.pc = "free" \/ rr.wf = w)
      <3>1. /\ FreeRun.pc = "free"
            /\ \A pc : NewRun(e, w, pc).wf = w
            /\ \A t : [NewRun(e, w, "check") EXCEPT !.timer = t].wf = w
        BY DEF FreeRun, NewRun
      <3>2. CASE StartWorkflow(e, w, r)
        <4>1. Dispatch(r, e, w, w \in Timed)
          BY <3>2 DEF StartWorkflow
        <4> QED BY <3>1, <4>1 DEF Dispatch
      <3>3. CASE StartWorkflowAckLost(e, w, r)
        BY <3>1, <3>3 DEF StartWorkflowAckLost
      <3>4. CASE FindAndMarkStartable(e, w, r)
        BY <3>1, <3>4 DEF FindAndMarkStartable
      <3> QED BY <1>3, <3>2, <3>3, <3>4
    <2> QED BY <1>0, <1>1, <2>1, <2>2 DEF RowsExist, OutcomeInv
  <1>4. ASSUME NEW r \in Runs, RunStep(r) \/ RunEvent(r) PROVE RowsExist'
    BY <1>2, <1>4, RunsKeepWorkflow
  <1>5. ASSUME NEW e \in Executors, Crash(e) PROVE RowsExist'
    BY <1>2, <1>5 DEF Crash, FreeRun
  <1>6. ASSUME UNCHANGED run PROVE RowsExist'
    BY <1>2, <1>6
  <1>7. ASSUME NEW e \in Executors, NEW w \in Workflows,
               EnqueueWorkflow(e, w) \/ FindAndMarkAckLost(e, w)
        PROVE  RowsExist'
    BY <1>6, <1>7 DEF EnqueueWorkflow, FindAndMarkAckLost
  <1>8. ASSUME NEW w \in Workflows, CancelWorkflow(w) \/ ResumeWorkflow(w) PROVE RowsExist'
    BY <1>6, <1>8 DEF CancelWorkflow, ResumeWorkflow
  <1>9. ASSUME NEW e \in Executors, Restart(e) \/ RecoverPendingWorkflows(e) PROVE RowsExist'
    BY <1>6, <1>9 DEF Restart, RecoverPendingWorkflows
  <1>10. ASSUME UNCHANGED vars PROVE RowsExist'
    BY <1>6, <1>10 DEF vars
  <1> QED BY <1>3, <1>4, <1>5, <1>7, <1>8, <1>9, <1>10 DEF Next

\* A run that has finished the function has seen every checkpoint there is.
LEMMA FinishedRunSawAll ==
    ASSUME TypeInv, LogInv, NEW r \in Runs, run[r].pc = "outcome"
    PROVE  /\ run[r].wf \in Workflows
           /\ run[r].res = operation_outputs[run[r].wf]
           /\ Failed(run[r].res) \/ \A i \in Steps : run[r].res[i] # Null
  <1> DEFINE w == run[r].wf
             k == run[r].step
             res == run[r].res
  <1>1. /\ w \in Workflows /\ k \in 1 .. NumSteps + 1 /\ res \in Results
        /\ operation_outputs[w] \in Results
        /\ Agrees(r, run[r], operation_outputs, recorder) /\ run[r].pc \in Seen
    BY DEF TypeInv, TypeOK, RunType, Results, LogInv, Seen
  <1>2. /\ \A i \in Steps : i < k => res[i] = operation_outputs[w][i] /\ res[i] # Null
        /\ \A i \in Steps : ~(i < k) => res[i] = Null
        /\ k = NumSteps + 1 \/ \E i \in Steps : i + 1 = k /\ res[i] \in StepErrors
    BY <1>1 DEF Agrees
  <1> HIDE DEF w, k, res
  <1>3. CASE k = NumSteps + 1
    <2>1. \A i \in Steps : i < k
      BY <1>3, ConstantsAssumption DEF Steps
    <2>2. res = operation_outputs[w]
      BY <1>1, <1>2, <2>1 DEF Results
    <2> QED BY <1>1, <1>2, <2>1, <2>2 DEF w, res
  <1>4. CASE \E i \in Steps : i + 1 = k /\ res[i] \in StepErrors
    <2>1. PICK j \in Steps : j + 1 = k /\ res[j] \in StepErrors
      BY <1>4
    <2>2. j < k /\ \A i \in Steps : ~(i < k) => j < i
      BY <2>1 DEF Steps
    <2>3. operation_outputs[w][j] \in StepErrors
      BY <1>2, <2>1, <2>2
    <2>4. \A i \in Steps : ~(i < k) => operation_outputs[w][i] = Null
      BY <1>1, <2>2, <2>3 DEF LogInv, LogGrowsInOrder
    <2>5. res = operation_outputs[w]
      BY <1>1, <1>2, <2>4 DEF Results
    <2> QED BY <1>1, <2>1, <2>5 DEF Failed, w, res
  <1> QED BY <1>2, <1>3, <1>4

\* A workflow whose outcome is recorded has no step left that could be recorded.
LEMMA NoStepAfterOutcome ==
    ASSUME TypeInv, LogInv, OutcomeInv, NEW r \in Runs, RecordStep(r)
    PROVE  /\ run[r].wf \in Workflows
           /\ workflow_status[run[r].wf].status \notin Final
           /\ ~Failed(operation_outputs[run[r].wf])
           /\ \A i \in Steps : i < run[r].step => operation_outputs[run[r].wf][i] # Null
  <1> DEFINE w == run[r].wf
             k == run[r].step
  <1>1. /\ w \in Workflows /\ k \in Steps /\ run[r].pc = "record"
        /\ Agrees(r, run[r], operation_outputs, recorder) /\ operation_outputs[w][k] = Null
    BY DEF RecordStep, TypeInv, TypeOK, Owned, InFlight, LogInv
  <1>2. \A i \in Steps : i < k =>
            operation_outputs[w][i] # Null /\ operation_outputs[w][i] \notin StepErrors
    BY <1>1 DEF Agrees, Seen, Registered, Body, InFlight
  <1>3. \A i \in Steps : k < i => operation_outputs[w][i] = Null
    BY <1>1, ConstantsAssumption DEF LogInv, LogGrowsInOrder
  <1>4. \A i \in Steps : i < k \/ i = k \/ k < i
    BY <1>1 DEF Steps
  <1>5. ~Failed(operation_outputs[w])
    BY <1>1, <1>2, <1>3, <1>4, ConstantsAssumption DEF Failed
  <1>6. workflow_status[w].status \notin Final
    BY <1>1, <1>5, ConstantsAssumption DEF OutcomeInv, OutcomeFromCheckpoints, Final
  <1> QED BY <1>1, <1>2, <1>5, <1>6

\* What recording an outcome does to the row, given the invariant.
LEMMA OutcomeRow ==
    ASSUME TypeInv, LogInv, OutcomeInv, NEW r \in Runs, OutcomeRecorded(r)
    PROVE  LET w == run[r].wf
               log == operation_outputs[w]
           IN  /\ w \in Workflows
               /\ workflow_status[w].status # "NONE"
               /\ Failed(log) \/ \A i \in Steps : log[i] # Null
               /\ \/ /\ workflow_status[w].status \in {"CANCELLED"} \cup Final
                     /\ workflow_status' = workflow_status
                  \/ /\ workflow_status[w].status \notin {"CANCELLED"} \cup Final
                     /\ workflow_status'[w].outcome = log
                     /\ workflow_status'[w].status = IF Failed(log) THEN "ERROR" ELSE "SUCCESS"
                     /\ \A x \in Workflows \ {w} : workflow_status'[x] = workflow_status[x]
  <1> DEFINE w == run[r].wf
             log == operation_outputs[w]
             row == workflow_status[w]
  <1>1. /\ w \in Workflows /\ run[r].res = log
        /\ Failed(log) \/ \A i \in Steps : log[i] # Null
    BY FinishedRunSawAll DEF OutcomeRecorded
  <1>2. /\ row \in RowType /\ row.status # "NONE"
        /\ workflow_status \in [Workflows -> RowType]
    BY <1>1 DEF TypeInv, TypeOK, OutcomeRecorded, OutcomeInv, RowsExist
  <1>3. workflow_status' = [workflow_status EXCEPT ![w] = FinishedRow(row, log)]
    BY <1>1 DEF OutcomeRecorded
  <1>4. CASE row.status = "CANCELLED"
    <2>1. workflow_status' = workflow_status
      BY <1>1, <1>2, <1>3, <1>4 DEF FinishedRow
    <2> QED BY <1>1, <1>2, <1>4, <2>1
  <1>5. CASE row.status \in Final
    <2>1. row.outcome = log /\ row.status = IF Failed(log) THEN "ERROR" ELSE "SUCCESS"
      <3>1. row.outcome = log /\ (row.status = "ERROR" => Failed(log))
        BY <1>1, <1>5 DEF OutcomeInv, OutcomeFromCheckpoints, Final
      <3>2. row.status = "SUCCESS" => ~Failed(log)
        BY <1>1 DEF OutcomeInv, OutcomeFromCheckpoints, Failed
      <3> QED BY <1>5, <3>1, <3>2 DEF Final
    <2>2. FinishedRow(row, log) = row
      BY <1>2, <1>5, <2>1 DEF FinishedRow, RowType, Final
    <2>3. workflow_status' = workflow_status
      BY <1>1, <1>2, <1>3, <2>2
    <2> QED BY <1>1, <1>2, <1>5, <2>3
  <1>6. CASE row.status \notin {"CANCELLED"} \cup Final
    <2>1. /\ FinishedRow(row, log).outcome = log
          /\ FinishedRow(row, log).status = IF Failed(log) THEN "ERROR" ELSE "SUCCESS"
      BY <1>2, <1>6 DEF FinishedRow, RowType
    <2>2. /\ workflow_status'[w] = FinishedRow(row, log)
          /\ \A x \in Workflows \ {w} : workflow_status'[x] = workflow_status[x]
      BY <1>1, <1>2, <1>3
    <2> QED BY <1>1, <1>2, <1>6, <2>1, <2>2
  <1> QED BY <1>4, <1>5, <1>6

LEMMA OutcomeInvNext ==
    ASSUME Unreadable = {}, TypeInv, LogInv, OutcomeInv, [Next]_vars PROVE OutcomeInv'
  <1>1. RowsExist'
    BY RowsExistNext
  <1>2. NoOutcomeYet' /\ OutcomeFromCheckpoints'
    <2>1. CASE RowsReenqueued \/ \E w \in Workflows : OneRowMoves(w)
      <3>1. /\ UNCHANGED operation_outputs
            /\ \A w \in Workflows :
                   /\ workflow_status'[w].outcome = workflow_status[w].outcome
                   /\ \/ workflow_status'[w].status = workflow_status[w].status
                      \/ /\ workflow_status[w].status \notin Final
                         /\ workflow_status'[w].status \notin Final
        BY <2>1 DEF RowsReenqueued, OneRowMoves, RowMove, Final
      <3> QED BY <3>1 DEF OutcomeInv, NoOutcomeYet, OutcomeFromCheckpoints, Final
    <2>2. CASE \E r \in Runs : RecordStep(r)
      <3>1. PICK r \in Runs : RecordStep(r)
        BY <2>2
      <3>2. run[r].wf \in Workflows /\ workflow_status[run[r].wf].status \notin Final
        BY <3>1, NoStepAfterOutcome
      <3>3. /\ UNCHANGED workflow_status
            /\ \A w \in Workflows \ {run[r].wf} : operation_outputs'[w] = operation_outputs[w]
        BY <3>1 DEF RecordStep, TypeInv, TypeOK
      <3> QED BY <3>2, <3>3 DEF OutcomeInv, NoOutcomeYet, OutcomeFromCheckpoints, Final
    <2>3. CASE \E r \in Runs : OutcomeRecorded(r)
      <3>1. PICK r \in Runs : OutcomeRecorded(r)
        BY <2>3
      <3>2. UNCHANGED operation_outputs
        BY <3>1 DEF OutcomeRecorded
      <3>3. CASE workflow_status' = workflow_status
        BY <3>2, <3>3 DEF OutcomeInv, NoOutcomeYet, OutcomeFromCheckpoints, Final
      <3>4. CASE workflow_status' # workflow_status
        <4> DEFINE w == run[r].wf
                   log == operation_outputs[w]
        <4>1. /\ w \in Workflows
              /\ Failed(log) \/ \A i \in Steps : log[i] # Null
              /\ workflow_status'[w].outcome = log
              /\ workflow_status'[w].status = IF Failed(log) THEN "ERROR" ELSE "SUCCESS"
              /\ \A x \in Workflows \ {w} : workflow_status'[x] = workflow_status[x]
          BY <3>1, <3>4, OutcomeRow
        <4>2. ~Failed(log) => \A i \in Steps : log[i] \in Values \ StepErrors
          BY <4>1 DEF TypeInv, TypeOK, Failed
        <4> HIDE DEF w
        <4>3. NoOutcomeYet'
          BY <4>1 DEF OutcomeInv, NoOutcomeYet, Final
        <4>4. OutcomeFromCheckpoints'
          <5> SUFFICES ASSUME NEW x \in Workflows, workflow_status'[x].status \in Final
                       PROVE  /\ workflow_status'[x].outcome = operation_outputs[x]
                              /\ IF workflow_status'[x].status = "ERROR"
                                 THEN Failed(operation_outputs[x])
                                 ELSE \A i \in Steps : operation_outputs[x][i] \in Values \ StepErrors
            BY <3>2 DEF OutcomeFromCheckpoints, Final, Failed
          <5>1. CASE x = w
            BY <4>1, <4>2, <5>1
          <5>2. CASE x # w
            BY <4>1, <5>2 DEF OutcomeInv, OutcomeFromCheckpoints, Final
          <5> QED BY <5>1, <5>2
        <4> QED BY <4>3, <4>4
      <3> QED BY <3>3, <3>4
    <2> QED BY <2>1, <2>2, <2>3, StepKinds
  <1> QED BY <1>1, <1>2 DEF OutcomeInv

LEMMA DurableInvInit == Init => DurableInv
  <1> SUFFICES ASSUME Init PROVE OutcomeInv
    BY TypeInvInit, LogInvInit DEF DurableInv
  <1> QED BY DEF Init, OutcomeInv, RowsExist, NoOutcomeYet, OutcomeFromCheckpoints,
          FreeRun, NoRow, Final

LEMMA DurableInvNext ==
    ASSUME ~SameMs, Unreadable = {}, DurableInv, [Next]_vars PROVE DurableInv'
  BY TypeInvNext, LogInvNext, OutcomeInvNext DEF DurableInv

\* A recorded outcome is the one that the checkpoints of the workflow lead to.
THEOREM OutcomesFollowCheckpoints ==
    ASSUME ~SameMs, Unreadable = {} PROVE Spec => []OutcomeFromCheckpoints
  <1>1. DurableInv => OutcomeFromCheckpoints
    BY DEF DurableInv, OutcomeInv
  <1>2. DurableInv /\ [Next]_vars => DurableInv'
    BY DurableInvNext
  <1> QED BY DurableInvInit, <1>1, <1>2, PTL DEF Spec

\* SUCCESS and ERROR are final, whatever later runs of the workflow record.
THEOREM OutcomesAreFinal ==
    ASSUME ~SameMs, Unreadable = {} PROVE Spec => OutcomeStable
  <1> DEFINE Stays == \A w \in Workflows : workflow_status[w].status \in {"SUCCESS", "ERROR"} =>
                          /\ workflow_status'[w].status = workflow_status[w].status
                          /\ workflow_status'[w].outcome = workflow_status[w].outcome
  <1>1. ASSUME DurableInv, [Next]_vars PROVE Stays
    <2> USE DEF DurableInv
    <2>1. CASE RowsReenqueued \/ \E w \in Workflows : OneRowMoves(w)
      BY <2>1 DEF RowsReenqueued, OneRowMoves, RowMove, Final
    <2>2. CASE \E r \in Runs : RecordStep(r)
      BY <2>2 DEF RecordStep
    <2>3. CASE \E r \in Runs : OutcomeRecorded(r)
      <3>1. PICK r \in Runs : OutcomeRecorded(r)
        BY <2>3
      <3>2. \/ workflow_status' = workflow_status
            \/ /\ workflow_status[run[r].wf].status \notin Final
               /\ \A x \in Workflows \ {run[r].wf} : workflow_status'[x] = workflow_status[x]
        BY <1>1, <3>1, OutcomeRow
      <3> QED BY <3>2 DEF Final
    <2> QED BY <1>1, <2>1, <2>2, <2>3, StepKinds
  <1>2. DurableInv /\ [Next]_vars => DurableInv'
    BY DurableInvNext
  <1>3. DurableInv /\ [Next]_vars => [Stays]_vars
    BY <1>1
  <1> QED BY DurableInvInit, <1>2, <1>3, PTL DEF Spec, OutcomeStable

\* A cancelled workflow stays CANCELLED, whatever its runs that are still in progress and
\* the recovery of its executor do, until it is resumed.
THEOREM CancellationHolds == Spec => CancelledUntilResumed
  <1> DEFINE Stays == \A w \in Workflows :
                 workflow_status[w].status = "CANCELLED" /\ env'["resumes"] = env["resumes"] =>
                     workflow_status'[w].status = "CANCELLED"
  <1>1. ASSUME TypeInv, [Next]_vars PROVE Stays
    <2>0. /\ workflow_status \in [Workflows -> RowType]
          /\ \A w \in Workflows : workflow_status[w] \in RowType
          /\ \A r \in Runs : run[r].pc # "free" => run[r].wf \in Workflows
      BY <1>1 DEF TypeInv, TypeOK
    \* One row is written, and it was not CANCELLED or remains so.
    <2>1. ASSUME NEW w \in Workflows, NEW new, workflow_status' = [workflow_status EXCEPT ![w] = new],
                 workflow_status[w].status = "CANCELLED" => new.status = "CANCELLED"
          PROVE  Stays
      BY <2>0, <2>1
    <2>2. ASSUME UNCHANGED workflow_status PROVE Stays
      BY <2>2
    <2>3. \A row \in RowType : row.status = "CANCELLED" =>
              /\ CancelledRow(row).status = "CANCELLED"
              /\ \A res : FinishedRow(row, res).status = "CANCELLED"
              /\ \A e : [row EXCEPT !.executor_id = e].status = "CANCELLED"
              /\ UndispatchedRow(row).status = "CANCELLED" /\ RejectedRow(row).status = "CANCELLED"
              /\ \A e, ex, inc : /\ UpsertedRow(row, e, ex, inc).status = "CANCELLED"
                                 /\ ExhaustedRow(UpsertedRow(row, e, ex, inc)).status = "CANCELLED"
      BY DEF CancelledRow, FinishedRow, UpsertedRow, ExhaustedRow, UndispatchedRow, RejectedRow,
          RowType
    <2>4. ASSUME NEW r \in Runs, RunStep(r) \/ RunEvent(r) PROVE Stays
      <3>1. CASE \/ ExecuteWorkflowId(r) \/ CheckStep(r) \/ \E v \in Values : ExecuteStep(r, v)
                 \/ RecordStep(r) \/ RecordStepAgain(r) \/ RecordStepConflict(r) \/ ReturnBody(r)
                 \/ AwaitWorkflowResult(r) \/ UnwindCancelled(r) \/ RecordStepAckLost(r)
                 \/ RetriedStepCancelled(r)
        BY <2>2, <3>1 DEF ExecuteWorkflowId, CheckStep, ExecuteStep, RecordStep, RecordStepAgain,
            RecordStepConflict, ReturnBody, AwaitWorkflowResult, UnwindCancelled, RecordStepAckLost,
            RetriedStepCancelled
      <3>2. CASE InitWorkflowStatus(r) \/ InitWorkflowStatusAckLost(r)
        <4>1. /\ run[r].wf \in Workflows
              /\ workflow_status' = [workflow_status EXCEPT ![run[r].wf] = InitializedRow(r)]
          BY <2>0, <3>2 DEF InitWorkflowStatus, InitWorkflowStatusAckLost
        <4>2. workflow_status[run[r].wf].status = "CANCELLED" => InitializedRow(r).status = "CANCELLED"
          BY <2>0, <2>3, <4>1 DEF InitializedRow
        <4> QED BY <2>1, <4>1, <4>2
      <3>3. CASE ClaimMarker(r)
        <4>1. /\ run[r].wf \in Workflows
              /\ workflow_status' = [workflow_status EXCEPT ![run[r].wf] =
                     [workflow_status[run[r].wf] EXCEPT !.executor_id = run[r].exec]]
          BY <2>0, <3>3 DEF ClaimMarker
        <4> QED BY <2>0, <2>1, <2>3, <4>1
      <3>4. CASE RecordWorkflowOutcome(r) \/ RecordWorkflowOutcomeAckLost(r)
        <4>1. /\ run[r].wf \in Workflows
              /\ workflow_status' = [workflow_status EXCEPT ![run[r].wf] =
                     FinishedRow(workflow_status[run[r].wf], run[r].res)]
          BY <2>0, <3>4 DEF RecordWorkflowOutcome, RecordWorkflowOutcomeAckLost
        <4> QED BY <2>0, <2>1, <2>3, <4>1
      <3>5. CASE TimeoutFires(r)
        <4>1. /\ run[r].wf \in Workflows
              /\ workflow_status' = [workflow_status EXCEPT ![run[r].wf] =
                     CancelledRow(workflow_status[run[r].wf])]
          BY <2>0, <3>5 DEF TimeoutFires, Body
        <4> QED BY <2>0, <2>1, <2>3, <4>1
      <3>6. CASE DispatchFails(r) \/ RejectInput(r)
        <4>1. /\ run[r].wf \in Workflows
              /\ \/ workflow_status' = [workflow_status EXCEPT ![run[r].wf] =
                        UndispatchedRow(workflow_status[run[r].wf])]
                 \/ workflow_status' = [workflow_status EXCEPT ![run[r].wf] =
                        RejectedRow(workflow_status[run[r].wf])]
          BY <2>0, <3>6 DEF DispatchFails, RejectInput
        <4> QED BY <2>0, <2>1, <2>3, <4>1
      <3> QED BY <2>4, <3>1, <3>2, <3>3, <3>4, <3>5, <3>6 DEF RunStep, RunEvent
    <2>5. ASSUME NEW e \in Executors, NEW w \in Workflows,
                 \/ EnqueueWorkflow(e, w) \/ FindAndMarkAckLost(e, w)
                 \/ \E r \in Runs : \/ StartWorkflow(e, w, r) \/ StartWorkflowAckLost(e, w, r)
                                    \/ FindAndMarkStartable(e, w, r)
          PROVE  Stays
      <3>1. workflow_status[w].status \in {"NONE", "ENQUEUED"}
        BY <2>5 DEF EnqueueWorkflow, FindAndMarkAckLost, StartWorkflow, StartWorkflowAckLost,
            FindAndMarkStartable
      <3>2. PICK new : workflow_status' = [workflow_status EXCEPT ![w] = new]
        BY <2>0, <2>5 DEF EnqueueWorkflow, FindAndMarkAckLost, StartWorkflow, StartWorkflowAckLost,
            FindAndMarkStartable
      <3> QED BY <2>1, <3>1, <3>2
    <2>6. ASSUME NEW w \in Workflows, CancelWorkflow(w) PROVE Stays
      <3>1. workflow_status' = [workflow_status EXCEPT ![w] = CancelledRow(workflow_status[w])]
        BY <2>6 DEF CancelWorkflow
      <3> QED BY <2>0, <2>1, <2>3, <3>1
    <2>7. ASSUME NEW w \in Workflows, ResumeWorkflow(w) PROVE Stays
      <3>1. env["resumes"] \in Nat /\ env'["resumes"] = env["resumes"] + 1
        BY <1>1, <2>7 DEF ResumeWorkflow, Event, TypeInv, TypeOK, EventKinds
      <3> QED BY <3>1
    <2>8. ASSUME NEW e \in Executors, Restart(e) \/ RecoverPendingWorkflows(e) PROVE Stays
      BY <2>0, <2>8 DEF Restart, RecoverPendingWorkflows, Reenqueued
    <2>9. ASSUME NEW e \in Executors, Crash(e) PROVE Stays
      BY <2>2, <2>9 DEF Crash
    <2>10. CASE UNCHANGED vars
      BY <2>2, <2>10 DEF vars
    <2> QED BY <1>1, <2>4, <2>5, <2>6, <2>7, <2>8, <2>9, <2>10 DEF Next
  <1>2. TypeInv /\ [Next]_vars => TypeInv'
    BY TypeInvNext
  <1> QED BY TypeInvInit, <1>1, <1>2, PTL DEF Spec, CancelledUntilResumed

-----------------------------------------------------------------------------
(* Refinement.                                                             *)

phases == [w \in Workflows |-> Phase(workflow_status[w])]

results == [w \in Workflows |-> workflow_status[w].outcome]

LEMMA PhaseOfStatus ==
    ASSUME NEW row
    PROVE  /\ row.status = "NONE" => Phase(row) = "absent"
           /\ row.status \in {"ENQUEUED", "PENDING"} => Phase(row) = "active"
           /\ row.status = "CANCELLED" => Phase(row) = "cancelled"
           /\ row.status = "MAX_RECOVERY_ATTEMPTS_EXCEEDED" => Phase(row) = "exhausted"
           /\ row.status = "SUCCESS" => Phase(row) = "succeeded"
           /\ row.status = "ERROR" => Phase(row) = "failed"
  BY DEF Phase

LEMMA NextPhases ==
    /\ phases' = [w \in Workflows |-> Phase(workflow_status'[w])]
    /\ results' = [w \in Workflows |-> workflow_status'[w].outcome]
  BY DEF phases, results, Phase

\* A step that changes no phase, no log and no result is a stutter.
LEMMA AbsStutter ==
    ASSUME UNCHANGED operation_outputs,
           \A w \in Workflows : /\ Phase(workflow_status'[w]) = Phase(workflow_status[w])
                                /\ workflow_status'[w].outcome = workflow_status[w].outcome
    PROVE  UNCHANGED Durable!absVars
  <1>1. phases' = phases /\ results' = results
    BY NextPhases DEF phases, results
  <1> QED BY <1>1 DEF Durable!absVars, phases, results

\* One phase changes.
LEMMA AbsOnePhase ==
    ASSUME NEW w \in Workflows,
           \A x \in Workflows \ {w} : workflow_status'[x] = workflow_status[x]
    PROVE  /\ phases' = [phases EXCEPT ![w] = Phase(workflow_status'[w])]
           /\ results' = [results EXCEPT ![w] = workflow_status'[w].outcome]
  <1>1. phases' = [phases EXCEPT ![w] = Phase(workflow_status'[w])]
    BY NextPhases DEF phases
  <1>2. results' = [results EXCEPT ![w] = workflow_status'[w].outcome]
    BY NextPhases DEF results
  <1> QED BY <1>1, <1>2

LEMMA AbsRowMove ==
    ASSUME TypeInv, NEW w \in Workflows, OneRowMoves(w)
    PROVE  [Durable!AbsNext]_(Durable!absVars)
  <1> DEFINE old == workflow_status[w]
             new == workflow_status'[w]
  <1>1. /\ UNCHANGED operation_outputs /\ new.outcome = old.outcome
        /\ \A x \in Workflows \ {w} : workflow_status'[x] = workflow_status[x]
    BY DEF OneRowMoves, RowMove
  <1>2. /\ old.status \in {"NONE", "ENQUEUED", "PENDING"} \cup Settled
    BY DEF TypeInv, TypeOK, RowType
  <1>3. results' = results
    BY <1>1 DEF results
  <1>4. phases' = [phases EXCEPT ![w] = Phase(new)] /\ phases[w] = Phase(old)
    BY <1>1, AbsOnePhase DEF phases
  <1>5. CASE Phase(new) = Phase(old)
    BY <1>1, <1>5, AbsStutter
  <1>6. CASE old.status = "NONE" /\ new.status \in {"PENDING", "ENQUEUED"}
    <2>1. Phase(old) = "absent" /\ Phase(new) = "active"
      BY <1>6, PhaseOfStatus
    <2>2. Durable!Create(w)
      BY <1>1, <1>3, <1>4, <2>1 DEF Durable!Create, phases, results
    <2> QED BY <2>2 DEF Durable!AbsNext
  <1>7. CASE old.status = "PENDING" /\ new.status = "MAX_RECOVERY_ATTEMPTS_EXCEEDED"
    <2>1. Phase(old) = "active" /\ Phase(new) = "exhausted"
      BY <1>7, PhaseOfStatus
    <2>2. Durable!GiveUp(w)
      BY <1>1, <1>3, <1>4, <2>1 DEF Durable!GiveUp, phases, results
    <2> QED BY <2>2 DEF Durable!AbsNext
  <1>8. CASE old.status \notin Final \cup {"NONE"} /\ new.status = "CANCELLED"
    <2>1. Phase(old) \in {"active", "cancelled", "exhausted"} /\ Phase(new) = "cancelled"
      BY <1>2, <1>8, PhaseOfStatus DEF Final, Settled
    <2>2. CASE Phase(old) # "cancelled"
      <3>1. Durable!Cancel(w)
        BY <1>1, <1>3, <1>4, <2>1, <2>2 DEF Durable!Cancel, phases, results
      <3> QED BY <3>1 DEF Durable!AbsNext
    <2> QED BY <1>5, <2>1, <2>2
  <1>9. CASE old.status \notin Final \cup {"NONE"} /\ new.status = "ENQUEUED"
    <2>1. Phase(old) \in {"active", "cancelled", "exhausted"} /\ Phase(new) = "active"
      BY <1>2, <1>9, PhaseOfStatus DEF Final, Settled
    <2>2. CASE Phase(old) # "active"
      <3>1. Durable!Resume(w)
        BY <1>1, <1>3, <1>4, <2>1, <2>2 DEF Durable!Resume, phases, results
      <3> QED BY <3>1 DEF Durable!AbsNext
    <2> QED BY <1>5, <2>1, <2>2
  <1>10. CASE new.status = old.status
    BY <1>5, <1>10 DEF Phase
  <1>11. CASE old.status = "ENQUEUED" /\ new.status = "PENDING"
    BY <1>5, <1>11, PhaseOfStatus
  <1> QED BY <1>6, <1>7, <1>8, <1>9, <1>10, <1>11 DEF OneRowMoves, RowMove

LEMMA AbsAppend ==
    ASSUME TypeInv, LogInv, OutcomeInv, NEW r \in Runs, RecordStep(r)
    PROVE  Durable!AbsNext
  <1> DEFINE w == run[r].wf
             k == run[r].step
             v == run[r].val
  <1>1. /\ w \in Workflows /\ workflow_status[w].status \notin Final
        /\ ~Failed(operation_outputs[w])
        /\ \A i \in Steps : i < k => operation_outputs[w][i] # Null
    BY NoStepAfterOutcome
  <1>2. /\ k \in Steps /\ run[r].pc = "record" /\ operation_outputs[w][k] = Null
        /\ Agrees(r, run[r], operation_outputs, recorder) /\ UNCHANGED workflow_status
        /\ operation_outputs' = [operation_outputs EXCEPT ![w][k] = v]
    BY DEF RecordStep, TypeInv, TypeOK, Owned, InFlight, LogInv
  <1>3. v \in Values
    BY <1>2 DEF Agrees, Seen, Registered, Body
  <1>4. /\ workflow_status[w].status # "NONE"
        /\ workflow_status[w].status \in {"NONE", "ENQUEUED", "PENDING"} \cup Settled
    BY <1>1, <1>2 DEF OutcomeInv, RowsExist, TypeInv, TypeOK, RowType
  <1>5. Phase(workflow_status[w]) \in {"active", "cancelled", "exhausted"}
    BY <1>1, <1>4, PhaseOfStatus DEF Final, Settled
  <1>6. Durable!NextStep(operation_outputs[w], k)
    <2>1. \A i \in 1 .. k - 1 : i \in Steps /\ i < k
      BY <1>2, ConstantsAssumption DEF Steps
    <2>2. ~Durable!Threw(operation_outputs[w])
      BY <1>1 DEF Durable!Threw, Durable!LogSteps, Failed, Steps
    <2> QED BY <1>1, <1>2, <2>1, <2>2 DEF Durable!NextStep
  <1>7. k \in Durable!LogSteps
    BY <1>2 DEF Durable!LogSteps, Steps
  <1>8. phases' = phases /\ results' = results /\ phases[w] = Phase(workflow_status[w])
    BY <1>1, <1>2, NextPhases DEF phases, results
  <1> HIDE DEF w, k, v
  <1>9. Durable!Append(w, k, v)
    BY <1>1, <1>2, <1>5, <1>6, <1>8 DEF Durable!Append, phases, results
  <1> QED BY <1>1, <1>3, <1>7, <1>9 DEF Durable!AbsNext

LEMMA AbsFinish ==
    ASSUME TypeInv, LogInv, OutcomeInv, NEW r \in Runs, OutcomeRecorded(r)
    PROVE  [Durable!AbsNext]_(Durable!absVars)
  <1>1. UNCHANGED operation_outputs
    BY DEF OutcomeRecorded
  <1>2. CASE workflow_status' = workflow_status
    BY <1>1, <1>2, AbsStutter
  <1>3. CASE workflow_status' # workflow_status
    <2>0. PICK w \in Workflows : w = run[r].wf
      BY OutcomeRow
    <2> DEFINE log == operation_outputs[w]
    <2>1. /\ workflow_status[w].status # "NONE"
          /\ Failed(log) \/ \A i \in Steps : log[i] # Null
          /\ workflow_status[w].status \notin {"CANCELLED"} \cup Final
          /\ workflow_status'[w].outcome = log
          /\ workflow_status'[w].status = IF Failed(log) THEN "ERROR" ELSE "SUCCESS"
          /\ \A x \in Workflows \ {w} : workflow_status'[x] = workflow_status[x]
      BY <1>3, <2>0, OutcomeRow
    <2>2. workflow_status[w].status \in {"NONE", "ENQUEUED", "PENDING"} \cup Settled
      BY <2>1 DEF TypeInv, TypeOK, RowType
    <2>3. Phase(workflow_status[w]) \in {"active", "exhausted"}
      BY <2>1, <2>2, PhaseOfStatus DEF Final, Settled
    <2>4. Phase(workflow_status'[w]) = IF Failed(log) THEN "failed" ELSE "succeeded"
      BY <2>1, PhaseOfStatus
    <2>5. /\ phases' = [phases EXCEPT ![w] = Phase(workflow_status'[w])]
          /\ results' = [results EXCEPT ![w] = log]
      BY <2>1, AbsOnePhase
    <2>6. Durable!Threw(log) <=> Failed(log)
      BY DEF Durable!Threw, Durable!LogSteps, Failed, Steps
    <2>7. Durable!LogComplete(log)
      BY <2>1, <2>6 DEF Durable!LogComplete, Durable!LogSteps, Steps
    <2>8. phases[w] = Phase(workflow_status[w])
      BY <2>1 DEF phases
    <2> HIDE DEF log
    <2>9. Durable!Finish(w)
      BY <1>1, <2>3, <2>4, <2>5, <2>6, <2>7, <2>8 DEF Durable!Finish, phases, results, log
    <2> QED BY <2>9 DEF Durable!AbsNext
  <1> QED BY <1>2, <1>3

\* Execution implements DurableWorkflow: every behaviour of the executors and the
\* tables is one of a durable workflow.
THEOREM ExecutionIsDurable ==
    ASSUME ~SameMs, Unreadable = {} PROVE Spec => ImplementsDurable
  <1>1. Init => Durable!AbsInit
    <2> SUFFICES ASSUME Init PROVE Durable!AbsInit
      OBVIOUS
    <2>1. Phase(NoRow) = "absent" /\ NoRow.outcome = NoResults
      BY PhaseOfStatus DEF NoRow
    <2>2. Durable!EmptyLog = NoResults
      BY DEF Durable!EmptyLog, Durable!LogSteps, NoResults, Steps
    <2> QED BY <2>1, <2>2 DEF Init, Durable!AbsInit
  <1>2. DurableInv /\ [Next]_vars => [Durable!AbsNext]_(Durable!absVars)
    <2> SUFFICES ASSUME TypeInv, LogInv, OutcomeInv, [Next]_vars
                 PROVE  [Durable!AbsNext]_(Durable!absVars)
      BY DEF DurableInv
    <2>1. CASE RowsReenqueued
      <3>1. \A w \in Workflows : Phase(workflow_status'[w]) = Phase(workflow_status[w])
        BY <2>1, PhaseOfStatus DEF RowsReenqueued, Phase
      <3> QED BY <2>1, <3>1, AbsStutter DEF RowsReenqueued
    <2> QED BY <2>1, AbsRowMove, AbsAppend, AbsFinish, StepKinds
  <1>3. DurableInv /\ [Next]_vars => DurableInv'
    BY DurableInvNext
  <1> QED BY DurableInvInit, <1>1, <1>2, <1>3, PTL DEF Spec, ImplementsDurable, Durable!AbsSpec

-----------------------------------------------------------------------------
(* The running map.                                                       *)

Holds(rr, e, w) == rr.pc \in Registered /\ rr.exec = e /\ rr.wf = w

\* RunningMapExact, in the form in which it is inductive.
MapInv ==
    /\ \A r \in Runs : run[r].pc \in Registered => run[r].wf \in runningMap[run[r].exec]
    /\ \A r, s \in Runs, e \in Executors, w \in Workflows :
           Holds(run[r], e, w) /\ Holds(run[s], e, w) => r = s
    /\ \A e \in Executors, w \in Workflows :
           w \in runningMap[e] => \E r \in Runs : Holds(run[r], e, w)

\* A step of an invocation that neither takes nor gives up an entry of the map.
LEMMA MapKept ==
    ASSUME TypeInv, MapInv, UNCHANGED runningMap,
           \A s \in Runs : \/ run'[s] = run[s]
                           \/ run[s].pc \notin Registered /\ run'[s].pc \notin Registered
                           \/ /\ run[s].pc \in Registered /\ run'[s].pc \in Registered
                              /\ run'[s].exec = run[s].exec /\ run'[s].wf = run[s].wf
    PROVE  MapInv'
  <1>1. \A s \in Runs : \A e, w : Holds(run'[s], e, w) <=> Holds(run[s], e, w)
    BY DEF Holds
  <1> QED BY <1>1 DEF MapInv, Holds

\* Dispatching an invocation that has no entry takes one, unless there is one.
LEMMA MapDispatch ==
    ASSUME TypeInv, MapInv, NEW r \in Runs, NEW e \in Executors, NEW w \in Workflows, NEW d,
           run[r].pc \notin Registered, Dispatch(r, e, w, d)
    PROVE  MapInv'
  <1>0. run \in [Runs -> RunType] /\ runningMap \in [Executors -> SUBSET Workflows]
    BY DEF TypeInv, TypeOK
  <1>1. CASE w \in runningMap[e]
    <2>1. FreeRun.pc \notin Registered
      BY DEF FreeRun, Registered, Body
    <2> QED BY <1>0, <1>1, <2>1, MapKept DEF Dispatch
  <1>2. CASE w \notin runningMap[e]
    <2> DEFINE rr == [NewRun(e, w, "check") EXCEPT !.timer = IF d THEN "armed" ELSE "off"]
    <2>1. rr.pc \in Registered /\ rr.exec = e /\ rr.wf = w
      BY DEF NewRun, FreeRun, Registered, Body
    <2>2. run' = [run EXCEPT ![r] = rr] /\ runningMap' = [runningMap EXCEPT ![e] = @ \cup {w}]
      BY <1>2 DEF Dispatch
    <2> HIDE DEF rr
    <2>3. \A s \in Runs : run'[s] = IF s = r THEN rr ELSE run[s]
      BY <1>0, <2>2
    <2>4. \A x \in Executors : runningMap'[x] = IF x = e THEN runningMap[e] \cup {w} ELSE runningMap[x]
      BY <1>0, <2>2
    <2>5. \A s \in Runs : run[s].pc \in Registered => run[s].exec \in Executors
      BY DEF TypeInv, TypeOK, Registered, Body
    <2>6. \A s \in Runs : ~Holds(run[s], e, w)
      BY <1>2 DEF MapInv, Holds
    <2>7. \A s \in Runs : run'[s].pc \in Registered => run'[s].wf \in runningMap'[run'[s].exec]
      BY <2>1, <2>3, <2>4, <2>5 DEF MapInv
    <2>8. ASSUME NEW s \in Runs, NEW t \in Runs, NEW x \in Executors, NEW y \in Workflows,
                 Holds(run'[s], x, y), Holds(run'[t], x, y)
          PROVE  s = t
      BY <2>1, <2>3, <2>6, <2>8 DEF MapInv, Holds
    <2>9. ASSUME NEW x \in Executors, NEW y \in Workflows, y \in runningMap'[x]
          PROVE  \E s \in Runs : Holds(run'[s], x, y)
      <3>1. CASE x = e /\ y = w
        BY <2>1, <2>3, <3>1 DEF Holds
      <3>2. CASE ~(x = e /\ y = w)
        <4>1. y \in runningMap[x]
          BY <2>4, <2>9, <3>2
        <4>2. PICK s \in Runs : Holds(run[s], x, y)
          BY <4>1 DEF MapInv
        <4>3. s # r
          BY <4>2 DEF Holds
        <4> QED BY <2>3, <4>2, <4>3
      <3> QED BY <3>1, <3>2
    <2> QED BY <2>7, <2>8, <2>9 DEF MapInv, Holds
  <1> QED BY <1>1, <1>2

\* An invocation that releases its entry was the only one that had it.
LEMMA MapRelease ==
    ASSUME TypeInv, MapInv, NEW r \in Runs, NEW rr, run[r].pc \in Registered,
           rr.pc \notin Registered, run' = [run EXCEPT ![r] = rr], ReleaseRunningWorkflow(r)
    PROVE  MapInv'
  <1> DEFINE e == run[r].exec
             w == run[r].wf
  <1>0. /\ run \in [Runs -> RunType] /\ runningMap \in [Executors -> SUBSET Workflows]
        /\ \A s \in Runs : run[s].pc \in Registered =>
               run[s].exec \in Executors /\ run[s].wf \in Workflows
    BY DEF TypeInv, TypeOK, Registered, Body
  <1>1. e \in Executors /\ w \in Workflows /\ Holds(run[r], e, w)
    BY <1>0 DEF Holds
  <1>2. \A s \in Runs : run'[s] = IF s = r THEN rr ELSE run[s]
    BY <1>0
  <1>3. \A x \in Executors : runningMap'[x] = IF x = e THEN runningMap[e] \ {w} ELSE runningMap[x]
    BY <1>0 DEF ReleaseRunningWorkflow
  <1>4. \A s \in Runs : s # r => ~Holds(run[s], e, w)
    BY <1>1 DEF MapInv
  <1> HIDE DEF e, w
  <1>5. \A s \in Runs : run'[s].pc \in Registered => run'[s].wf \in runningMap'[run'[s].exec]
    BY <1>0, <1>2, <1>3, <1>4 DEF MapInv, Holds
  <1>6. ASSUME NEW s \in Runs, NEW t \in Runs, NEW x \in Executors, NEW y \in Workflows,
               Holds(run'[s], x, y), Holds(run'[t], x, y)
        PROVE  s = t
    BY <1>2, <1>6 DEF MapInv, Holds
  <1>7. ASSUME NEW x \in Executors, NEW y \in Workflows, y \in runningMap'[x]
        PROVE  \E s \in Runs : Holds(run'[s], x, y)
    <2>1. y \in runningMap[x] /\ ~(x = e /\ y = w)
      BY <1>3, <1>7
    <2>2. PICK s \in Runs : Holds(run[s], x, y)
      BY <2>1 DEF MapInv
    <2>3. s # r
      BY <1>1, <2>1, <2>2 DEF Holds, e, w
    <2> QED BY <1>2, <2>2, <2>3
  <1> QED BY <1>5, <1>6, <1>7 DEF MapInv, Holds

LEMMA MapInvNext ==
    ASSUME TypeInv, MapInv, [Next]_vars PROVE MapInv'
  <1>0. run \in [Runs -> RunType] /\ \A r \in Runs : run[r] \in RunType
    BY DEF TypeInv, TypeOK
  <1>1. ASSUME NEW r \in Runs, NEW rr, run' = [run EXCEPT ![r] = rr], UNCHANGED runningMap,
               \/ run[r].pc \notin Registered /\ rr.pc \notin Registered
               \/ /\ run[r].pc \in Registered /\ rr.pc \in Registered
                  /\ rr.exec = run[r].exec /\ rr.wf = run[r].wf
        PROVE  MapInv'
    <2>1. \A s \in Runs : run'[s] = IF s = r THEN rr ELSE run[s]
      BY <1>0, <1>1
    <2> QED BY <1>1, <2>1, MapKept
  <1>2. ASSUME UNCHANGED <<run, runningMap>> PROVE MapInv'
    BY <1>2, MapKept
  <1>3. /\ FreeRun.pc \notin Registered
        /\ \A e, w : /\ NewRun(e, w, "init").pc \notin Registered
                     /\ NewRun(e, w, "claimed").pc \notin Registered
    BY DEF FreeRun, NewRun, Registered, Body
  <1>4. ASSUME NEW e \in Executors, NEW w \in Workflows, NEW r \in Runs, StartWorkflow(e, w, r)
        PROVE  MapInv'
    <2>1. run[r].pc \notin Registered /\ Dispatch(r, e, w, w \in Timed)
      BY <1>4 DEF StartWorkflow, Registered, Body
    <2> QED BY <2>1, MapDispatch
  <1>5. ASSUME NEW e \in Executors, NEW w \in Workflows, NEW r \in Runs,
               StartWorkflowAckLost(e, w, r) \/ FindAndMarkStartable(e, w, r)
        PROVE  MapInv'
    <2>1. /\ run[r].pc \notin Registered /\ UNCHANGED runningMap
          /\ \/ run' = [run EXCEPT ![r] = NewRun(e, w, "init")]
             \/ run' = [run EXCEPT ![r] = NewRun(e, w, "claimed")]
      BY <1>5 DEF StartWorkflowAckLost, FindAndMarkStartable, Registered, Body
    <2> QED BY <1>1, <1>3, <2>1
  <1>6. ASSUME NEW r \in Runs, ExecuteWorkflowId(r) PROVE MapInv'
    <2> DEFINE rr == [run[r] EXCEPT !.pc = "loaded",
                                    !.queued = workflow_status[run[r].wf].queued]
    <2>1. run[r].pc \notin Registered /\ rr.pc \notin Registered
      BY <1>0, <1>6 DEF ExecuteWorkflowId, RunType, Registered, Body
    <2>2. run' = [run EXCEPT ![r] = rr] /\ UNCHANGED runningMap
      BY <1>0, <1>6 DEF ExecuteWorkflowId
    <2> HIDE DEF rr
    <2> QED BY <1>1, <2>1, <2>2
  <1>7. ASSUME NEW r \in Runs, InitWorkflowStatus(r) PROVE MapInv'
    <2>1. run[r].pc \notin Registered /\ run[r].exec \in Executors /\ run[r].wf \in Workflows
      BY <1>7 DEF InitWorkflowStatus, TypeInv, TypeOK, Registered, Body
    <2>2. CASE Exhausted(InitializedRow(r))
      BY <1>1, <1>3, <1>7, <2>1, <2>2 DEF InitWorkflowStatus
    <2>3. CASE ~Exhausted(InitializedRow(r))
      <3>1. Dispatch(r, run[r].exec, run[r].wf, InitializedRow(r).deadline)
        BY <1>7, <2>3 DEF InitWorkflowStatus
      <3> QED BY <2>1, <3>1, MapDispatch
    <2> QED BY <2>2, <2>3
  <1>8. ASSUME NEW r \in Runs, NEW v, run[r].pc \in InFlight,
               run' = [run EXCEPT ![r] = Advanced(@, v)], UNCHANGED runningMap
        PROVE  MapInv'
    <2>1. /\ run[r].pc \in Registered /\ Advanced(run[r], v).pc \in Registered
          /\ Advanced(run[r], v).exec = run[r].exec /\ Advanced(run[r], v).wf = run[r].wf
      BY <1>0, <1>8 DEF Advanced, RunType, Registered, Body, InFlight
    <2> QED BY <1>1, <1>8, <2>1
  <1>9. ASSUME NEW r \in Runs, NEW pc \in Registered, run[r].pc \in Registered,
               run' = [run EXCEPT ![r] = [@ EXCEPT !.pc = pc]], UNCHANGED runningMap
        PROVE  MapInv'
    <2>1. /\ [run[r] EXCEPT !.pc = pc].pc = pc
          /\ [run[r] EXCEPT !.pc = pc].exec = run[r].exec
          /\ [run[r] EXCEPT !.pc = pc].wf = run[r].wf
      BY <1>0 DEF RunType
    <2> QED BY <1>1, <1>9, <2>1
  <1>10. ASSUME NEW r \in Runs, CheckStep(r) PROVE MapInv'
    <2>1. /\ UNCHANGED runningMap /\ run[r].pc \in InFlight /\ run[r].pc \in Registered
          /\ "unwind" \in Registered /\ "exec" \in Registered
      BY <1>10 DEF CheckStep, InFlight, Registered, Body
    <2>2. \/ run' = [run EXCEPT ![r] = [@ EXCEPT !.pc = "unwind"]]
          \/ run' = [run EXCEPT ![r] = [@ EXCEPT !.pc = "exec"]]
          \/ run' = [run EXCEPT ![r] = Advanced(@, operation_outputs[run[r].wf][run[r].step])]
      BY <1>10 DEF CheckStep
    <2> QED BY <1>8, <1>9, <2>1, <2>2
  <1>11. ASSUME NEW r \in Runs, NEW v \in Values, ExecuteStep(r, v) PROVE MapInv'
    <2> DEFINE rr == [run[r] EXCEPT !.pc = "record", !.val = v]
    <2>1. /\ rr.pc \in Registered /\ rr.exec = run[r].exec /\ rr.wf = run[r].wf
          /\ run[r].pc \in Registered
      BY <1>0, <1>11 DEF ExecuteStep, RunType, Registered, Body
    <2>2. run' = [run EXCEPT ![r] = rr] /\ UNCHANGED runningMap
      BY <1>0, <1>11 DEF ExecuteStep
    <2> HIDE DEF rr
    <2> QED BY <1>1, <2>1, <2>2
  <1>12. ASSUME NEW r \in Runs,
                \/ RetriedStepCancelled(r) \/ RecordStep(r) \/ RecordStepAgain(r)
                \/ RecordStepAckLost(r)
         PROVE  MapInv'
    <2>1. /\ run[r].pc \in Registered /\ UNCHANGED runningMap
          /\ \E pc \in Registered : run' = [run EXCEPT ![r] = [@ EXCEPT !.pc = pc]]
      BY <1>0, <1>12 DEF RetriedStepCancelled, RecordStep, RecordStepAgain, RecordStepAckLost,
          Registered, Body
    <2> QED BY <1>9, <2>1
  <1>13. ASSUME NEW r \in Runs, RecordStepConflict(r) PROVE MapInv'
    <2> DEFINE rr == IF run[r].timer = "fired" THEN [run[r] EXCEPT !.pc = "unwind"]
                     ELSE [run[r] EXCEPT !.pc = "conflict", !.timer = "off"]
    <2>1. /\ rr.pc \in Registered /\ rr.exec = run[r].exec /\ rr.wf = run[r].wf
          /\ run[r].pc \in Registered
      BY <1>0, <1>13 DEF RecordStepConflict, RunType, Registered, Body
    <2>2. run' = [run EXCEPT ![r] = rr] /\ UNCHANGED runningMap
      BY <1>13 DEF RecordStepConflict
    <2> HIDE DEF rr
    <2> QED BY <1>1, <2>1, <2>2
  <1>14. ASSUME NEW r \in Runs, ClaimMarker(r) PROVE MapInv'
    <2>1. /\ run[r].pc \in InFlight /\ UNCHANGED runningMap
          /\ run' = [run EXCEPT ![r] = Advanced(@, run[r].val)]
      BY <1>14 DEF ClaimMarker, InFlight
    <2> QED BY <1>8, <2>1
  <1>15. ASSUME NEW r \in Runs, ReturnBody(r) PROVE MapInv'
    <2>1. run[r].pc \in Registered /\ "unwind" \in Registered
      BY <1>15 DEF ReturnBody, Registered, Body
    <2>2. CASE run[r].timer = "fired"
      <3>1. run' = [run EXCEPT ![r] = [@ EXCEPT !.pc = "unwind"]] /\ UNCHANGED runningMap
        BY <1>0, <1>15, <2>2 DEF ReturnBody
      <3> QED BY <1>9, <2>1, <3>1
    <2>3. CASE run[r].timer # "fired"
      <3> DEFINE rr == [run[r] EXCEPT !.pc = "outcome", !.timer = "off"]
      <3>1. rr.pc \notin Registered
        BY <1>0 DEF RunType, Registered, Body
      <3>2. run' = [run EXCEPT ![r] = rr] /\ ReleaseRunningWorkflow(r)
        BY <1>0, <1>15, <2>3 DEF ReturnBody
      <3> HIDE DEF rr
      <3> QED BY <2>1, <3>1, <3>2, MapRelease
    <2> QED BY <2>2, <2>3
  <1>16. ASSUME NEW r \in Runs, RecordWorkflowOutcome(r) PROVE MapInv'
    <2>1. run[r].pc \notin Registered
      BY <1>16 DEF RecordWorkflowOutcome, Registered, Body
    <2> QED BY <1>1, <1>3, <1>16, <2>1 DEF RecordWorkflowOutcome
  <1>17. ASSUME NEW r \in Runs, AwaitWorkflowResult(r) \/ UnwindCancelled(r) PROVE MapInv'
    <2>1. /\ run[r].pc \in Registered /\ ReleaseRunningWorkflow(r)
          /\ run' = [run EXCEPT ![r] = FreeRun]
      BY <1>17 DEF AwaitWorkflowResult, UnwindCancelled, Registered
    <2> QED BY <1>3, <2>1, MapRelease
  <1>18. ASSUME NEW r \in Runs, TimeoutFires(r) PROVE MapInv'
    <2> DEFINE rr == [run[r] EXCEPT !.timer = "fired"]
    <2>1. /\ rr.pc = run[r].pc /\ rr.exec = run[r].exec /\ rr.wf = run[r].wf
          /\ run[r].pc \in Registered
      BY <1>0, <1>18 DEF TimeoutFires, RunType, Registered
    <2>2. run' = [run EXCEPT ![r] = rr] /\ UNCHANGED runningMap
      BY <1>0, <1>18 DEF TimeoutFires
    <2> HIDE DEF rr
    <2> QED BY <1>1, <2>1, <2>2
  <1>19. ASSUME NEW e \in Executors, Crash(e) PROVE MapInv'
    <2>1. \A s \in Runs : run'[s] = IF run[s].exec = e THEN FreeRun ELSE run[s]
      BY <1>19 DEF Crash
    <2>2. \A x \in Executors : runningMap'[x] = IF x = e THEN {} ELSE runningMap[x]
      BY <1>19 DEF Crash, TypeInv, TypeOK
    <2>3. \A s \in Runs : run[s].pc \in Registered => run[s].exec \in Executors
      BY DEF TypeInv, TypeOK, Registered, Body
    <2>4. \A s \in Runs : run'[s].pc \in Registered => run'[s].wf \in runningMap'[run'[s].exec]
      BY <1>3, <2>1, <2>2, <2>3 DEF MapInv
    <2>5. \A s \in Runs : \A x, y : Holds(run'[s], x, y) <=> Holds(run[s], x, y) /\ x # e
      BY <1>3, <2>1 DEF Holds
    <2>6. ASSUME NEW x \in Executors, NEW y \in Workflows, y \in runningMap'[x]
          PROVE  \E s \in Runs : Holds(run'[s], x, y)
      <3>1. x # e /\ y \in runningMap[x]
        BY <2>2, <2>6
      <3>2. PICK s \in Runs : Holds(run[s], x, y)
        BY <3>1 DEF MapInv
      <3> QED BY <2>5, <3>1, <3>2
    <2>7. ASSUME NEW s \in Runs, NEW t \in Runs, NEW x \in Executors, NEW y \in Workflows,
                 Holds(run'[s], x, y), Holds(run'[t], x, y)
          PROVE  s = t
      BY <2>5, <2>7 DEF MapInv
    <2> QED BY <2>4, <2>6, <2>7 DEF MapInv, Holds
  <1>20. ASSUME NEW r \in Runs, RunStep(r) PROVE MapInv'
    BY <1>6, <1>7, <1>10, <1>11, <1>12, <1>13, <1>14, <1>15, <1>16, <1>17, <1>20 DEF RunStep
  <1>21. ASSUME NEW r \in Runs, RunEvent(r) PROVE MapInv'
    <2>1. ASSUME InitWorkflowStatusAckLost(r) \/ RecordWorkflowOutcomeAckLost(r) PROVE MapInv'
      BY <1>2, <2>1 DEF InitWorkflowStatusAckLost, RecordWorkflowOutcomeAckLost
    <2>2. ASSUME DispatchFails(r) \/ RejectInput(r) PROVE MapInv'
      <3>1. /\ run[r].pc \notin Registered /\ UNCHANGED runningMap
            /\ run' = [run EXCEPT ![r] = FreeRun]
        BY <2>2 DEF DispatchFails, RejectInput, Registered, Body
      <3> QED BY <1>1, <1>3, <3>1
    <2> QED BY <1>12, <1>18, <1>21, <2>1, <2>2 DEF RunEvent
  <1>22. ASSUME NEW e \in Executors, NEW w \in Workflows,
                EnqueueWorkflow(e, w) \/ FindAndMarkAckLost(e, w)
         PROVE  MapInv'
    BY <1>2, <1>22 DEF EnqueueWorkflow, FindAndMarkAckLost
  <1>23. ASSUME NEW w \in Workflows, CancelWorkflow(w) \/ ResumeWorkflow(w) PROVE MapInv'
    BY <1>2, <1>23 DEF CancelWorkflow, ResumeWorkflow
  <1>24. ASSUME NEW e \in Executors, Restart(e) \/ RecoverPendingWorkflows(e) PROVE MapInv'
    BY <1>2, <1>24 DEF Restart, RecoverPendingWorkflows
  <1>25. ASSUME UNCHANGED vars PROVE MapInv'
    BY <1>2, <1>25 DEF vars
  <1> QED BY <1>4, <1>5, <1>19, <1>20, <1>21, <1>22, <1>23, <1>24, <1>25 DEF Next

\* An executor's map has exactly the workflows it has one unreleased invocation of:
\* no entry leaks and none is dropped while an invocation needs it.
THEOREM RunningMapIsExact == Spec => []RunningMapExact
  <1>1. Init => MapInv
    BY DEF Init, MapInv, Holds, FreeRun, Registered, Body
  <1>2. TypeInv /\ MapInv /\ [Next]_vars => TypeInv' /\ MapInv'
    BY TypeInvNext, MapInvNext
  <1>3. TypeInv /\ MapInv => RunningMapExact
    <2> SUFFICES ASSUME TypeInv, MapInv, NEW e \in Executors, NEW w \in Workflows
                 PROVE  LET holders == {r \in Runs : /\ run[r].exec = e /\ run[r].wf = w
                                                     /\ run[r].pc \in Registered}
                        IN  IF w \in runningMap[e] THEN \E r \in Runs : holders = {r}
                            ELSE holders = {}
      BY DEF RunningMapExact
    <2> DEFINE holders == {r \in Runs : /\ run[r].exec = e /\ run[r].wf = w
                                        /\ run[r].pc \in Registered}
    <2>1. \A r \in Runs : r \in holders <=> Holds(run[r], e, w)
      BY DEF Holds
    <2>2. CASE w \in runningMap[e]
      <3>1. PICK r \in Runs : Holds(run[r], e, w)
        BY <2>2 DEF MapInv
      <3>2. \A s \in Runs : Holds(run[s], e, w) => s = r
        BY <3>1 DEF MapInv
      <3>3. holders = {r}
        BY <2>1, <3>1, <3>2
      <3> QED BY <2>2, <3>3
    <2>3. CASE w \notin runningMap[e]
      <3>1. \A s \in Runs : ~Holds(run[s], e, w)
        BY <2>3 DEF MapInv, Holds
      <3>2. holders = {}
        BY <2>1, <3>1
      <3> QED BY <2>3, <3>2
    <2> QED BY <2>2, <2>3
  <1> QED BY TypeInvInit, <1>1, <1>2, <1>3, PTL DEF Spec

-----------------------------------------------------------------------------
(* PENDING workflows are in somebody's hands.                              *)

\* Nobody else records the steps of a workflow, so that no run meets a conflict: what
\* it finds when it records is nothing, or its own checkpoint.
Unopposed ==
    \A r \in Runs :
        /\ run[r].pc = "exec" => operation_outputs[run[r].wf][run[r].step] = Null
        /\ run[r].pc \in {"record", "marker"} =>
               \/ operation_outputs[run[r].wf][run[r].step] = Null
               \/ recorder[run[r].wf][run[r].step] = r
        /\ run[r].pc # "conflict"

\* Where an invocation has to do with the checkpoint of its step.
AtStep == {"exec", "record", "marker", "conflict"}

LEMMA UnopposedKept ==
    ASSUME Unopposed, UNCHANGED <<operation_outputs, recorder>>,
           \A s \in Runs : \/ run'[s] = run[s] \/ run'[s].pc \notin AtStep
                           \/ /\ run[s].pc \in {"exec", "record", "marker"}
                              /\ run'[s].pc \in {"record", "marker"}
                              /\ run'[s].wf = run[s].wf /\ run'[s].step = run[s].step
                           \/ /\ run'[s].pc = "exec"
                              /\ operation_outputs[run'[s].wf][run'[s].step] = Null
    PROVE  Unopposed'
  BY DEF Unopposed, AtStep

LEMMA UnopposedNext ==
    ASSUME TypeInv, SoleInv, Unopposed, [Next]_vars PROVE Unopposed'
  <1>0. run \in [Runs -> RunType] /\ \A r \in Runs : run[r] \in RunType
    BY DEF TypeInv, TypeOK
  \* One invocation is replaced, and no checkpoint written.
  <1>1. ASSUME NEW r \in Runs, NEW rr, run' = [run EXCEPT ![r] = rr],
               UNCHANGED <<operation_outputs, recorder>>,
               \/ rr.pc \notin AtStep
               \/ /\ run[r].pc \in {"exec", "record", "marker"} /\ rr.pc \in {"record", "marker"}
                  /\ rr.wf = run[r].wf /\ rr.step = run[r].step
               \/ rr.pc = "exec" /\ operation_outputs[rr.wf][rr.step] = Null
        PROVE  Unopposed'
    <2>1. run'[r] = rr /\ \A s \in Runs \ {r} : run'[s] = run[s]
      BY <1>0, <1>1
    <2> QED BY <1>1, <2>1, UnopposedKept
  <1>2. ASSUME UNCHANGED <<run, operation_outputs, recorder>> PROVE Unopposed'
    BY <1>2, UnopposedKept
  <1>3. /\ FreeRun.pc \notin AtStep
        /\ \A e, w : /\ NewRun(e, w, "init").pc \notin AtStep
                     /\ NewRun(e, w, "claimed").pc \notin AtStep
        /\ \A e, w, t : [NewRun(e, w, "check") EXCEPT !.timer = t].pc \notin AtStep
    BY DEF FreeRun, NewRun, AtStep
  <1>4. ASSUME NEW r \in Runs, NEW e, NEW w, NEW d, Dispatch(r, e, w, d),
               UNCHANGED <<operation_outputs, recorder>>
        PROVE  Unopposed'
    BY <1>1, <1>3, <1>4 DEF Dispatch
  <1>5. ASSUME NEW r \in Runs, NEW v,
               run' = [run EXCEPT ![r] = Advanced(run[r], v)],
               UNCHANGED <<operation_outputs, recorder>>
        PROVE  Unopposed'
    <2>1. Advanced(run[r], v).pc \notin AtStep
      BY <1>0 DEF Advanced, AtStep, RunType
    <2> QED BY <1>1, <1>5, <2>1
  <1>6. ASSUME NEW r \in Runs, CheckStep(r) PROVE Unopposed'
    <2> DEFINE rr == [run[r] EXCEPT !.pc = "exec"]
               ru == [run[r] EXCEPT !.pc = "unwind"]
    <2>1. /\ rr.pc = "exec" /\ rr.wf = run[r].wf /\ rr.step = run[r].step
          /\ ru.pc \notin AtStep
      BY <1>0 DEF RunType, AtStep
    <2>2. /\ UNCHANGED <<operation_outputs, recorder>>
          /\ \/ run' = [run EXCEPT ![r] = ru]
             \/ /\ run' = [run EXCEPT ![r] = rr]
                /\ operation_outputs[run[r].wf][run[r].step] = Null
             \/ run' = [run EXCEPT ![r] = Advanced(run[r], operation_outputs[run[r].wf][run[r].step])]
      BY <1>6 DEF CheckStep
    <2> HIDE DEF rr, ru
    <2> QED BY <1>1, <1>5, <2>1, <2>2
  <1>7. ASSUME NEW r \in Runs, NEW v, ExecuteStep(r, v) PROVE Unopposed'
    <2> DEFINE rr == [run[r] EXCEPT !.pc = "record", !.val = v]
    <2>1. rr.pc = "record" /\ rr.wf = run[r].wf /\ rr.step = run[r].step
      BY <1>0 DEF RunType
    <2>2. /\ run' = [run EXCEPT ![r] = rr] /\ UNCHANGED <<operation_outputs, recorder>>
          /\ run[r].pc = "exec"
      BY <1>0, <1>7 DEF ExecuteStep
    <2> HIDE DEF rr
    <2> QED BY <1>1, <2>1, <2>2
  <1>8. ASSUME NEW r \in Runs, RecordStep(r) PROVE Unopposed'
    <2> DEFINE w == run[r].wf
               k == run[r].step
               rr == [run[r] EXCEPT !.pc = "marker"]
    <2>1. /\ w \in Workflows /\ k \in Steps /\ run[r].pc = "record"
          /\ operation_outputs \in [Workflows -> [Steps -> Values \cup {Null}]]
          /\ recorder \in [Workflows -> [Steps -> Runs \cup {Null}]]
      BY <1>8 DEF RecordStep, TypeInv, TypeOK, Owned, InFlight
    <2>2. run' = [run EXCEPT ![r] = rr] /\ recorder' = [recorder EXCEPT ![w][k] = r]
          /\ operation_outputs' = [operation_outputs EXCEPT ![w][k] = run[r].val]
      BY <1>0, <1>8 DEF RecordStep
    <2>3. rr.pc = "marker" /\ rr.wf = w /\ rr.step = k
      BY <1>0 DEF RunType
    <2> HIDE DEF rr
    <2>4. run'[r] = rr /\ \A s \in Runs \ {r} : run'[s] = run[s]
      BY <1>0, <2>2
    <2>5. recorder'[w][k] = r
      BY <2>1, <2>2
    <2>6. \A x \in Workflows \ {w} : /\ operation_outputs'[x] = operation_outputs[x]
                                     /\ recorder'[x] = recorder[x]
      BY <2>1, <2>2
    <2>7. \A s \in Runs \ {r} : run[s].pc # "free" => run[s].wf \in Workflows \ {w}
      BY <2>1 DEF SoleInv, TypeInv, TypeOK
    <2>8. ASSUME NEW s \in Runs \ {r}, run[s].pc # "free"
          PROVE  /\ run'[s].pc = "exec" => operation_outputs'[run'[s].wf][run'[s].step] = Null
                 /\ run'[s].pc \in {"record", "marker"} =>
                        \/ operation_outputs'[run'[s].wf][run'[s].step] = Null
                        \/ recorder'[run'[s].wf][run'[s].step] = s
                 /\ run'[s].pc # "conflict"
      BY <2>4, <2>6, <2>7, <2>8 DEF Unopposed
    <2> QED BY <2>3, <2>4, <2>5, <2>8 DEF Unopposed
  <1>9. ASSUME NEW r \in Runs, RecordStepAgain(r) \/ RecordStepAckLost(r) PROVE Unopposed'
    <2>1. PICK pc \in {"record", "marker"} : run' = [run EXCEPT ![r] = [run[r] EXCEPT !.pc = pc]]
      BY <1>0, <1>9 DEF RecordStepAgain, RecordStepAckLost
    <2>2. run[r].pc \in {"record", "marker"} /\ UNCHANGED <<operation_outputs, recorder>>
      BY <1>9 DEF RecordStepAgain, RecordStepAckLost
    <2> DEFINE rr == [run[r] EXCEPT !.pc = pc]
    <2>3. rr.pc = pc /\ rr.wf = run[r].wf /\ rr.step = run[r].step
      BY <1>0 DEF RunType
    <2> HIDE DEF rr
    <2>4. run' = [run EXCEPT ![r] = rr]
      BY <2>1 DEF rr
    <2> QED BY <1>1, <2>2, <2>3, <2>4
  <1>10. ASSUME NEW r \in Runs, RecordStepConflict(r) PROVE Unopposed'
    BY <1>10 DEF RecordStepConflict, OwnStamp, Unopposed
  <1>11. ASSUME NEW r \in Runs, ClaimMarker(r) PROVE Unopposed'
    BY <1>5, <1>11 DEF ClaimMarker
  <1>12. ASSUME NEW r \in Runs,
                \/ ExecuteWorkflowId(r) \/ RetriedStepCancelled(r) \/ ReturnBody(r)
                \/ RecordWorkflowOutcome(r) \/ AwaitWorkflowResult(r) \/ UnwindCancelled(r)
                \/ DispatchFails(r) \/ RejectInput(r)
         PROVE  Unopposed'
    <2>1. UNCHANGED <<operation_outputs, recorder>>
      BY <1>12 DEF ExecuteWorkflowId, RetriedStepCancelled, ReturnBody, RecordWorkflowOutcome,
          AwaitWorkflowResult, UnwindCancelled, DispatchFails, RejectInput
    <2>2. /\ run'[r].pc \in {"loaded", "unwind", "outcome", "free"}
          /\ \A s \in Runs \ {r} : run'[s] = run[s]
      BY <1>0, <1>12 DEF ExecuteWorkflowId, RetriedStepCancelled, ReturnBody, RecordWorkflowOutcome,
          AwaitWorkflowResult, UnwindCancelled, DispatchFails, RejectInput, FreeRun, RunType
    <2> QED BY <2>1, <2>2, UnopposedKept DEF AtStep
  <1>13. ASSUME NEW r \in Runs, InitWorkflowStatus(r) PROVE Unopposed'
    BY <1>1, <1>3, <1>4, <1>13 DEF InitWorkflowStatus
  <1>14. ASSUME NEW r \in Runs, TimeoutFires(r) PROVE Unopposed'
    <2>1. UNCHANGED <<operation_outputs, recorder>>
      BY <1>14 DEF TimeoutFires
    <2>2. /\ run'[r].pc = run[r].pc /\ run'[r].wf = run[r].wf /\ run'[r].step = run[r].step
          /\ \A s \in Runs \ {r} : run'[s] = run[s]
      BY <1>0, <1>14 DEF TimeoutFires, RunType
    <2> QED BY <2>1, <2>2 DEF Unopposed
  <1>15. ASSUME NEW r \in Runs, InitWorkflowStatusAckLost(r) \/ RecordWorkflowOutcomeAckLost(r)
         PROVE  Unopposed'
    BY <1>2, <1>15 DEF InitWorkflowStatusAckLost, RecordWorkflowOutcomeAckLost
  <1>16. ASSUME NEW e \in Executors, NEW w \in Workflows, NEW r \in Runs,
                \/ StartWorkflow(e, w, r) \/ StartWorkflowAckLost(e, w, r)
                \/ FindAndMarkStartable(e, w, r)
         PROVE  Unopposed'
    BY <1>1, <1>3, <1>4, <1>16 DEF StartWorkflow, StartWorkflowAckLost, FindAndMarkStartable
  <1>17. ASSUME NEW e \in Executors, Crash(e) PROVE Unopposed'
    BY <1>3, <1>17, UnopposedKept DEF Crash
  <1>18. ASSUME NEW w \in Workflows,
                \/ CancelWorkflow(w) \/ ResumeWorkflow(w)
                \/ \E e \in Executors : EnqueueWorkflow(e, w) \/ FindAndMarkAckLost(e, w)
         PROVE  Unopposed'
    BY <1>2, <1>18 DEF CancelWorkflow, ResumeWorkflow, EnqueueWorkflow, FindAndMarkAckLost
  <1>19. ASSUME NEW e \in Executors, Restart(e) \/ RecoverPendingWorkflows(e) PROVE Unopposed'
    BY <1>2, <1>19 DEF Restart, RecoverPendingWorkflows
  <1>20. CASE UNCHANGED vars
    BY <1>2, <1>20 DEF vars
  <1>21. ASSUME NEW r \in Runs, RunStep(r) \/ RunEvent(r) PROVE Unopposed'
    BY <1>6, <1>7, <1>8, <1>9, <1>10, <1>11, <1>12, <1>13, <1>14, <1>15, <1>21 DEF RunStep, RunEvent
  <1> QED BY <1>16, <1>17, <1>18, <1>19, <1>20, <1>21 DEF Next

\* A run gives its workflow up without an outcome only when the workflow is no longer
\* PENDING; and a PENDING workflow has an invocation, or its executor is dead, or its
\* last claim was not dispatched.
PendingInv ==
    /\ \A r \in Runs : run[r].pc # "free" /\ (run[r].pc = "unwind" \/ run[r].timer = "fired") =>
           workflow_status[run[r].wf].status # "PENDING"
    /\ \A w \in Workflows : workflow_status[w].status = "PENDING" =>
           \/ ~up[workflow_status[w].executor_id] \/ workflow_status[w].undispatched
           \/ \E r \in Runs : run[r].pc # "free" /\ run[r].wf = w

\* A workflow in the running map has its one invocation past initialization.
LEMMA MappedRun ==
    ASSUME TypeInv, SoleInv, MapInv, NEW e \in Executors, NEW w \in Workflows, w \in runningMap[e]
    PROVE  /\ workflow_status[w].status \notin {"NONE", "ENQUEUED"}
           /\ \A r \in Runs : run[r].pc # "free" /\ run[r].wf = w => run[r].pc \in Registered
  <1>1. PICK s \in Runs : Holds(run[s], e, w)
    BY DEF MapInv
  <1>2. run[s].pc \in Registered /\ run[s].wf = w /\ run[s].pc # "free"
    BY <1>1 DEF Holds, Registered, Body
  <1> QED BY <1>2 DEF SoleInv

LEMMA PendingNext ==
    ASSUME TypeInv, SoleInv, MapInv, Unopposed, PendingInv, RecoveryStep
    PROVE  PendingInv'
  <1>0. /\ \A r \in Runs : run[r].pc # "free" => run[r].wf \in Workflows /\ run[r].exec \in Executors
        /\ up \in [Executors -> BOOLEAN]
    BY DEF TypeInv, TypeOK
  <1>1. ASSUME NEW r \in Runs, RunAction(r) PROVE PendingInv'
    <2> DEFINE w == run[r].wf
    <2>1. /\ run[r].pc # "free" /\ w \in Workflows /\ run[r].exec \in Executors
          /\ \A s \in Runs \ {r} : run'[s] = run[s]
          /\ \A x \in Workflows \ {w} : workflow_status'[x] = workflow_status[x]
          /\ UNCHANGED up
      BY <1>0, <1>1 DEF RunAction, RunByRun, RowByRun
    <2>2. workflow_status[w].status # "PENDING" => workflow_status'[w].status # "PENDING"
      BY <1>1 DEF RunAction, RowByRun, Settled
    <2>3. run'[r].pc # "free" => run'[r].wf = w
      BY <1>1 DEF RunAction, RunByRun
    <2>4. run'[r].pc # "free" /\ (run'[r].pc = "unwind" \/ run'[r].timer = "fired") =>
              workflow_status'[w].status # "PENDING"
      BY <1>1, <2>1, <2>2 DEF RunAction, RunByRun, PendingInv
    <2>5. \A s \in Runs \ {r} : run[s].pc # "free" => run[s].wf \in Workflows \ {w}
      BY <1>0, <2>1 DEF SoleInv
    <2>6. run'[r].pc = "free" =>
              workflow_status'[w].status # "PENDING" \/ workflow_status'[w].undispatched
      <3>1. CASE run[r].pc = "unwind"
        BY <2>1, <2>2, <3>1 DEF PendingInv
      <3>2. CASE run[r].pc \in {"init", "loaded"} /\ w \in runningMap[run[r].exec]
        BY <2>1, <3>2, MappedRun DEF Registered, Body
      <3> QED BY <1>1, <3>1, <3>2 DEF RunAction, RunByRun, Unopposed
    <2>7. \A s \in Runs : run'[s].pc # "free" /\ (run'[s].pc = "unwind" \/ run'[s].timer = "fired") =>
              workflow_status'[run'[s].wf].status # "PENDING"
      BY <2>1, <2>3, <2>4, <2>5 DEF PendingInv
    <2>8. ASSUME NEW x \in Workflows, workflow_status'[x].status = "PENDING"
          PROVE  \/ ~up'[workflow_status'[x].executor_id] \/ workflow_status'[x].undispatched
                 \/ \E s \in Runs : run'[s].pc # "free" /\ run'[s].wf = x
      <3>1. CASE x = w
        BY <2>3, <2>6, <2>8, <3>1
      <3>2. CASE x # w
        BY <2>1, <2>8, <3>2 DEF PendingInv
      <3> QED BY <3>1, <3>2
    <2> QED BY <2>7, <2>8 DEF PendingInv
  <1>2. ASSUME NEW e \in Executors, NEW w \in Workflows, NEW r \in Runs, Begins(e, w, r)
        PROVE  PendingInv'
    <2>1. \A s \in Runs : run[s].pc # "free" => run[s].wf # w
      BY <1>2 DEF Begins, SoleInv
    <2>2. w \notin runningMap[e]
      BY <1>2, MappedRun DEF Begins
    <2>3. /\ run'[r].pc \in {"check", "init", "claimed"} /\ run'[r].timer # "fired" /\ run'[r].wf = w
          /\ run[r].pc = "free" /\ \A s \in Runs \ {r} : run'[s] = run[s]
          /\ \A x \in Workflows \ {w} : workflow_status'[x] = workflow_status[x]
          /\ UNCHANGED up
      BY <1>2, <2>2 DEF Begins
    <2>4. \A s \in Runs : run'[s].pc # "free" /\ (run'[s].pc = "unwind" \/ run'[s].timer = "fired") =>
              workflow_status'[run'[s].wf].status # "PENDING"
      BY <1>0, <2>1, <2>3 DEF PendingInv
    <2>5. ASSUME NEW x \in Workflows, workflow_status'[x].status = "PENDING"
          PROVE  \/ ~up'[workflow_status'[x].executor_id] \/ workflow_status'[x].undispatched
                 \/ \E s \in Runs : run'[s].pc # "free" /\ run'[s].wf = x
      <3>1. CASE x = w
        BY <2>3, <3>1
      <3>2. CASE x # w
        BY <2>3, <2>5, <3>2 DEF PendingInv
      <3> QED BY <3>1, <3>2
    <2> QED BY <2>4, <2>5 DEF PendingInv
  <1>3. ASSUME NEW w \in Workflows, RowChanges(w) PROVE PendingInv'
    <2>1. /\ UNCHANGED <<up, run>>
          /\ \A x \in Workflows : workflow_status'[x].status = "PENDING" =>
                 \/ workflow_status'[x].undispatched
                 \/ /\ workflow_status[x].status = "PENDING"
                    /\ workflow_status'[x].executor_id = workflow_status[x].executor_id
                    /\ workflow_status'[x].undispatched = workflow_status[x].undispatched
          /\ \A x \in Workflows : workflow_status'[x].status = "PENDING" =>
                 workflow_status[x].status \in {"PENDING", "ENQUEUED"}
      BY <1>3 DEF RowChanges
    <2> QED BY <1>0, <2>1 DEF PendingInv, SoleInv
  <1>4. ASSUME NEW e \in Executors, Sweep(e) PROVE PendingInv'
    <2>1. /\ UNCHANGED run
          /\ \A x \in Workflows : workflow_status'[x].status = "PENDING" =>
                 workflow_status'[x] = workflow_status[x] /\ workflow_status[x].executor_id # e
      BY <1>4 DEF Sweep
    <2>2. \A x \in Executors : x # e => (up'[x] <=> up[x])
      BY <1>0, <1>4 DEF Sweep
    <2> QED BY <1>0, <2>1, <2>2 DEF PendingInv, SoleInv
  <1>5. ASSUME NEW e \in Executors, Fails(e) PROVE PendingInv'
    <2>1. FreeRun.pc = "free"
      BY DEF FreeRun
    <2>2. /\ UNCHANGED workflow_status
          /\ \A x \in Executors : up'[x] <=> up[x] /\ x # e
          /\ \A s \in Runs : \/ run'[s] = run[s]
                             \/ run'[s].pc = "free" /\ run[s].exec = e
      BY <1>5, <2>1 DEF Fails
    <2>3. ASSUME NEW x \in Workflows, workflow_status[x].status = "PENDING"
          PROVE  \/ ~up'[workflow_status[x].executor_id] \/ workflow_status[x].undispatched
                 \/ \E s \in Runs : run'[s].pc # "free" /\ run'[s].wf = x
      <3>1. workflow_status[x].executor_id \in Executors
        BY <2>3 DEF SoleInv
      <3>2. CASE \E s \in Runs : run[s].pc # "free" /\ run[s].wf = x
        <4>1. PICK s \in Runs : run[s].pc # "free" /\ run[s].wf = x
          BY <3>2
        <4>2. workflow_status[x].executor_id = run[s].exec
          BY <4>1 DEF SoleInv
        <4> QED BY <2>2, <3>1, <4>1, <4>2
      <3> QED BY <2>2, <2>3, <3>1, <3>2 DEF PendingInv
    <2> QED BY <2>2, <2>3 DEF PendingInv
  <1>6. CASE UNCHANGED vars
    BY <1>6 DEF vars, PendingInv
  <1> QED BY <1>1, <1>2, <1>3, <1>4, <1>5, <1>6 DEF RecoveryStep

\* A PENDING workflow is orphaned by nothing but a claim whose answer was lost or whose
\* dispatch threw: else the executor its row names is running it, or is dead and sweeps
\* it when it restarts.
THEOREM PendingIsHeld ==
    ASSUME ~SweepLive, MaxResumes = 0 PROVE Spec => []PendingHasRunner
  <1> DEFINE IInv == TypeInv /\ SoleInv /\ MapInv /\ Unopposed /\ PendingInv
  <1>1. Init => IInv
    <2>1. Init => MapInv
      BY DEF Init, MapInv, Holds, FreeRun, Registered, Body
    <2>2. Init => Unopposed
      BY DEF Init, Unopposed, FreeRun
    <2>3. Init => PendingInv
      BY DEF Init, PendingInv, FreeRun, NoRow
    <2> QED BY <2>1, <2>2, <2>3, TypeInvInit, SoleInit
  <1>2. IInv /\ [Next]_vars => IInv'
    BY TypeInvNext, MapInvNext, RecoverySteps, SoleNext, UnopposedNext, PendingNext
  <1>3. IInv => PendingHasRunner
    <2> SUFFICES ASSUME IInv, NEW w \in Workflows, workflow_status[w].status = "PENDING",
                        up[workflow_status[w].executor_id], ~workflow_status[w].undispatched
                 PROVE  \E r \in Runs : /\ run[r].wf = w /\ run[r].exec = workflow_status[w].executor_id
                                        /\ run[r].pc # "conflict"
      BY DEF PendingHasRunner
    <2>1. PICK r \in Runs : run[r].pc # "free" /\ run[r].wf = w
      BY DEF PendingInv
    <2>2. run[r].exec = workflow_status[w].executor_id
      BY <2>1 DEF SoleInv
    <2>3. run[r].pc # "conflict"
      BY DEF Unopposed
    <2> QED BY <2>1, <2>2, <2>3
  <1> QED BY <1>1, <1>2, <1>3, PTL DEF Spec

-----------------------------------------------------------------------------
(* Recovery attempts.                                                      *)

\* What makes a workflow be dispatched again.
Disruptions == env["crashes"] + env["lostAcks"]

\* The next attempt at the workflow is owed, and not yet counted.
Due(w) ==
    \/ workflow_status[w].status = "ENQUEUED"
    \/ workflow_status[w].status = "PENDING" /\ ~up[workflow_status[w].executor_id]
    \/ \E r \in Runs : run[r].pc \in {"claimed", "loaded"} /\ run[r].wf = w

\* Every attempt but the first is paid for by a disruption.
AttemptsInv ==
    /\ \A w \in Workflows :
           /\ workflow_status[w].recovery_attempts <= Disruptions + 1
           /\ Due(w) => workflow_status[w].recovery_attempts <= Disruptions
           /\ workflow_status[w].status = "MAX_RECOVERY_ATTEMPTS_EXCEEDED" => Disruptions > MaxRetries
    /\ \A r \in Runs :
           /\ run[r].pc \in Registered =>
                  workflow_status[run[r].wf].recovery_attempts \in 1 .. MaxRetries + 1
           /\ run[r].pc = "init" => workflow_status[run[r].wf].recovery_attempts = 1

LEMMA AttemptsNext ==
    ASSUME TypeInv, SoleInv, AttemptsInv, TypeInv', RecoveryStep PROVE AttemptsInv'
  <1>0. /\ \A r \in Runs : run[r].pc # "free" => run[r].wf \in Workflows /\ run[r].exec \in Executors
        /\ up \in [Executors -> BOOLEAN]
        /\ \A w \in Workflows : /\ workflow_status[w].recovery_attempts \in Nat
                                /\ workflow_status'[w].recovery_attempts \in Nat
    BY DEF TypeInv, TypeOK, RowType
  <1>n. /\ env["crashes"] \in Nat /\ env["lostAcks"] \in Nat /\ Disruptions \in Nat
        /\ MaxRetries \in Nat
    BY ConstantsAssumption DEF TypeInv, TypeOK, EventKinds, Disruptions
  <1>m. MaxRetries \in Nat
    BY ConstantsAssumption
  <1>d. PICK c \in Nat, l \in Nat :
            c = env["crashes"] /\ l = env["lostAcks"] /\ Disruptions = c + l
    BY <1>n DEF Disruptions
  <1>r. /\ "free" \notin Registered /\ "init" \notin Registered /\ "claimed" \notin Registered
        /\ "loaded" \notin Registered
    BY DEF Registered, Body
  \* A workflow that the step leaves alone.
  <1>k. ASSUME NEW x \in Workflows, workflow_status'[x] = workflow_status[x],
               Due(x)' => Due(x), Disruptions' >= Disruptions, Disruptions' \in Nat
        PROVE  /\ workflow_status'[x].recovery_attempts <= Disruptions' + 1
               /\ Due(x)' => workflow_status'[x].recovery_attempts <= Disruptions'
               /\ workflow_status'[x].status = "MAX_RECOVERY_ATTEMPTS_EXCEEDED" =>
                      Disruptions' > MaxRetries
    <2>1. /\ workflow_status[x].recovery_attempts <= Disruptions + 1
          /\ Due(x) => workflow_status[x].recovery_attempts <= Disruptions
          /\ workflow_status[x].status = "MAX_RECOVERY_ATTEMPTS_EXCEEDED" => Disruptions > MaxRetries
      BY DEF AttemptsInv
    <2>2. PICK n \in Nat : n = workflow_status[x].recovery_attempts
      BY <1>0
    <2>3. PICK d \in Nat : d = Disruptions
      BY <1>n
    <2>4. PICK dd \in Nat : dd = Disruptions' /\ dd >= d
      BY <1>k, <2>3
    <2> QED BY <1>k, <1>m, <2>1, <2>2, <2>3, <2>4
  <1>1. ASSUME NEW r \in Runs, RunAction(r) PROVE AttemptsInv'
    <2>w. PICK w : w = run[r].wf
      OBVIOUS
    <2> DEFINE old == workflow_status[w]
               new == workflow_status'[w]
    <2>1. /\ run[r].pc # "free" /\ w \in Workflows /\ run[r].exec \in Executors
          /\ \A s \in Runs \ {r} : run'[s] = run[s]
          /\ \A x \in Workflows \ {w} : workflow_status'[x] = workflow_status[x]
          /\ UNCHANGED up
          /\ run'[r].pc # "free" => run'[r].wf = w
      BY <1>0, <1>1, <2>w DEF RunAction, RunByRun, RowByRun
    <2>2. /\ Disruptions' \in Nat /\ Disruptions' >= Disruptions
          /\ run[r].pc = "loaded" /\ run'[r].pc \in {"claimed", "loaded"} =>
                 Disruptions' = Disruptions + 1
      <3>1. /\ Disruptions' = env'["crashes"] + env'["lostAcks"] /\ env'["crashes"] = c
            /\ env'["lostAcks"] = l \/ env'["lostAcks"] = l + 1
            /\ run[r].pc = "loaded" /\ run'[r].pc \in {"claimed", "loaded"} =>
                   env'["lostAcks"] = l + 1
        BY <1>1, <1>d DEF RunAction, EventsByRun, Disruptions
      <3> QED BY <1>d, <3>1
    <2>3. \A s \in Runs \ {r} : run[s].pc # "free" => run[s].wf \in Workflows \ {w}
      BY <1>0, <2>1, <2>w DEF SoleInv
    <2>4. ASSUME NEW x \in Workflows \ {w} PROVE Due(x)' => Due(x)
      BY <2>1, <2>4 DEF Due
    <2>5. /\ old.status \notin {"NONE", "ENQUEUED"} /\ up[run[r].exec]
          /\ new.status \notin {"NONE", "ENQUEUED"}
          /\ new.executor_id = run[r].exec
      BY <1>1, <2>1, <2>w DEF RunAction, RowByRun, SoleInv, Settled
    <2>6. /\ run[r].pc = "loaded" => new.recovery_attempts = old.recovery_attempts + 1
          /\ run[r].pc # "loaded" => new.recovery_attempts = old.recovery_attempts
      BY <1>1, <2>5, <2>w DEF RunAction, RowByRun
    <2>7. Due(w)' => run'[r].pc \in {"claimed", "loaded"}
      BY <2>1, <2>3, <2>5 DEF Due
    <2>8. run'[r].pc \in {"claimed", "loaded"} => run[r].pc \in {"claimed", "loaded"}
      BY <1>1 DEF RunAction, RunByRun
    <2>9. run[r].pc \in {"claimed", "loaded"} => old.recovery_attempts <= Disruptions
      BY <2>1, <2>w DEF Due, AttemptsInv
    <2>10. new.recovery_attempts <= Disruptions' + 1
      <3>1. old.recovery_attempts <= Disruptions + 1
        BY <2>1 DEF AttemptsInv
      <3> QED BY <1>0, <1>n, <2>1, <2>2, <2>6, <2>9, <3>1
    <2>11. Due(w)' => new.recovery_attempts <= Disruptions'
      BY <1>0, <1>n, <2>1, <2>2, <2>6, <2>7, <2>8, <2>9
    <2>12. new.status = "MAX_RECOVERY_ATTEMPTS_EXCEEDED" => Disruptions' > MaxRetries
      <3>1. CASE new.status = old.status
        <4>1. old.status = "MAX_RECOVERY_ATTEMPTS_EXCEEDED" => Disruptions > MaxRetries
          BY <2>1 DEF AttemptsInv
        <4> QED BY <1>n, <2>2, <3>1, <4>1
      <3>2. CASE Exhausted(new)
        BY <1>0, <1>n, <2>1, <2>2, <2>10, <3>2 DEF Exhausted
      <3> QED BY <1>1, <2>w, <3>1, <3>2 DEF RunAction, RowByRun
    <2>13. run'[r].pc \in Registered => new.recovery_attempts \in 1 .. MaxRetries + 1
      <3>1. CASE run[r].pc \in Registered
        BY <1>r, <2>6, <2>w, <3>1 DEF AttemptsInv
      <3>2. CASE Admitted(r)
        <4>1. new.recovery_attempts >= 1
          BY <1>0, <2>1, <2>6, <2>w, <3>2 DEF Admitted, AttemptsInv
        <4>2. new.recovery_attempts <= MaxRetries + 1
          BY <1>0, <1>n, <2>1, <2>w, <3>2 DEF Admitted, Exhausted
        <4> QED BY <1>0, <1>n, <2>1, <4>1, <4>2
      <3> QED BY <1>1, <3>1, <3>2 DEF RunAction, RunByRun
    <2>14. run'[r].pc = "init" => new.recovery_attempts = 1
      <3>1. run'[r].pc = "init" => run[r].pc = "init"
        BY <1>1 DEF RunAction, RunByRun
      <3> QED BY <2>6, <2>w, <3>1 DEF AttemptsInv
    <2>15. ASSUME NEW s \in Runs
           PROVE  /\ run'[s].pc \in Registered =>
                         workflow_status'[run'[s].wf].recovery_attempts \in 1 .. MaxRetries + 1
                  /\ run'[s].pc = "init" => workflow_status'[run'[s].wf].recovery_attempts = 1
      <3>1. CASE s = r
        BY <1>r, <2>1, <2>13, <2>14, <3>1
      <3>2. CASE s # r
        BY <1>r, <2>1, <2>3, <3>2 DEF AttemptsInv
      <3> QED BY <3>1, <3>2
    <2>16. ASSUME NEW x \in Workflows
           PROVE  /\ workflow_status'[x].recovery_attempts <= Disruptions' + 1
                  /\ Due(x)' => workflow_status'[x].recovery_attempts <= Disruptions'
                  /\ workflow_status'[x].status = "MAX_RECOVERY_ATTEMPTS_EXCEEDED" =>
                         Disruptions' > MaxRetries
      <3>1. CASE x = w
        BY <2>10, <2>11, <2>12, <3>1
      <3>2. CASE x # w
        BY <1>k, <2>1, <2>2, <2>4, <3>2
      <3> QED BY <3>1, <3>2
    <2> QED BY <2>15, <2>16 DEF AttemptsInv
  <1>2. ASSUME NEW e \in Executors, NEW w \in Workflows, NEW r \in Runs, Begins(e, w, r)
        PROVE  AttemptsInv'
    <2>1. \A s \in Runs : run[s].pc # "free" => run[s].wf \in Workflows \ {w}
      BY <1>0, <1>2 DEF Begins, SoleInv
    <2>2. /\ run[r].pc = "free" /\ \A s \in Runs \ {r} : run'[s] = run[s]
          /\ \A x \in Workflows \ {w} : workflow_status'[x] = workflow_status[x]
          /\ workflow_status'[w].status = "PENDING" /\ workflow_status'[w].executor_id = e
          /\ UNCHANGED up
      BY <1>2 DEF Begins
    <2>u. up[e]
      BY <1>2 DEF Begins
    <2>r. run'[r].pc = "free" \/ (run'[r].pc \in {"check", "init", "claimed"} /\ run'[r].wf = w)
      BY <1>2 DEF Begins
    <2>3. Disruptions' \in Nat /\ Disruptions' >= Disruptions
      <3>1. /\ Disruptions' = env'["crashes"] + env'["lostAcks"] /\ env'["crashes"] = c
            /\ env'["lostAcks"] = l \/ env'["lostAcks"] = l + 1
        BY <1>2, <1>d DEF Begins, Disruptions
      <3> QED BY <1>d, <3>1
    <2>4. \/ workflow_status'[w].recovery_attempts = 1 /\ run'[r].pc # "claimed"
          \/ /\ Due(w) /\ workflow_status'[w].recovery_attempts = workflow_status[w].recovery_attempts
             /\ run'[r].pc = "claimed"
      BY <1>2 DEF Begins, Due
    <2>5. ASSUME NEW x \in Workflows \ {w} PROVE Due(x)' => Due(x)
      BY <2>2, <2>5, <2>r DEF Due
    <2>6. Due(w)' => run'[r].pc = "claimed"
      BY <2>1, <2>2, <2>r, <2>u DEF Due
    <2>7. /\ workflow_status'[w].recovery_attempts <= Disruptions' + 1
          /\ Due(w)' => workflow_status'[w].recovery_attempts <= Disruptions'
      <3>1. Due(w) => workflow_status[w].recovery_attempts <= Disruptions
        BY DEF AttemptsInv
      <3> QED BY <1>0, <1>n, <2>3, <2>4, <2>6, <3>1
    <2>8. ASSUME NEW x \in Workflows
          PROVE  /\ workflow_status'[x].recovery_attempts <= Disruptions' + 1
                 /\ Due(x)' => workflow_status'[x].recovery_attempts <= Disruptions'
                 /\ workflow_status'[x].status = "MAX_RECOVERY_ATTEMPTS_EXCEEDED" =>
                        Disruptions' > MaxRetries
      <3>1. CASE x = w
        BY <2>2, <2>7, <3>1
      <3>2. CASE x # w
        BY <1>k, <2>2, <2>3, <2>5, <3>2
      <3> QED BY <3>1, <3>2
    <2>9. ASSUME NEW s \in Runs
          PROVE  /\ run'[s].pc \in Registered =>
                        workflow_status'[run'[s].wf].recovery_attempts \in 1 .. MaxRetries + 1
                 /\ run'[s].pc = "init" => workflow_status'[run'[s].wf].recovery_attempts = 1
      <3>1. CASE s = r
        <4>1. run'[r].pc \notin {"free", "claimed"} =>
                  run'[r].wf = w /\ workflow_status'[w].recovery_attempts = 1
          BY <2>4, <2>r
        <4>2. 1 \in 1 .. MaxRetries + 1
          BY <1>m
        <4> QED BY <1>r, <3>1, <4>1, <4>2
      <3>2. CASE s # r
        <4>1. run'[s] = run[s]
          BY <2>2, <3>2
        <4>2. run[s].pc # "free" => workflow_status'[run[s].wf] = workflow_status[run[s].wf]
          BY <2>1, <2>2
        <4> QED BY <1>r, <4>1, <4>2 DEF AttemptsInv
      <3> QED BY <3>1, <3>2
    <2> QED BY <2>8, <2>9 DEF AttemptsInv
  \* Steps of no invocation: those that remain keep their workflow and its attempts.
  <1>s. ASSUME \A s \in Runs : run'[s].pc # "free" =>
                   /\ run'[s] = run[s]
                   /\ workflow_status'[run[s].wf].recovery_attempts =
                          workflow_status[run[s].wf].recovery_attempts
        PROVE  \A s \in Runs :
                   /\ run'[s].pc \in Registered =>
                          workflow_status'[run'[s].wf].recovery_attempts \in 1 .. MaxRetries + 1
                   /\ run'[s].pc = "init" => workflow_status'[run'[s].wf].recovery_attempts = 1
    BY <1>r, <1>s DEF AttemptsInv
  <1>3. ASSUME NEW w \in Workflows, RowChanges(w) PROVE AttemptsInv'
    <2>1. /\ UNCHANGED <<up, run>>
          /\ \A x \in Workflows \ {w} : workflow_status'[x] = workflow_status[x]
      BY <1>3 DEF RowChanges
    <2>2. Disruptions' = Disruptions
      BY <1>3 DEF RowChanges, NoDisruption, Disruptions
    <2>3. ASSUME NEW x \in Workflows \ {w} PROVE Due(x)' => Due(x)
      BY <2>1, <2>3 DEF Due
    <2>4. \A s \in Runs : run[s].pc # "free" =>
              workflow_status'[run[s].wf].recovery_attempts =
                  workflow_status[run[s].wf].recovery_attempts
      BY <1>0, <1>3 DEF RowChanges, SoleInv
    <2>5. \/ /\ workflow_status'[w].recovery_attempts = 0
             /\ workflow_status'[w].status # "MAX_RECOVERY_ATTEMPTS_EXCEEDED"
          \/ /\ workflow_status'[w].recovery_attempts = workflow_status[w].recovery_attempts
             /\ Due(w)' => Due(w)
             /\ workflow_status'[w].status = "MAX_RECOVERY_ATTEMPTS_EXCEEDED" =>
                    workflow_status[w].status = "MAX_RECOVERY_ATTEMPTS_EXCEEDED"
      BY <1>3 DEF RowChanges, Due
    <2>6. ASSUME NEW x \in Workflows
          PROVE  /\ workflow_status'[x].recovery_attempts <= Disruptions' + 1
                 /\ Due(x)' => workflow_status'[x].recovery_attempts <= Disruptions'
                 /\ workflow_status'[x].status = "MAX_RECOVERY_ATTEMPTS_EXCEEDED" =>
                        Disruptions' > MaxRetries
      <3>1. CASE x = w
        <4>1. /\ workflow_status[w].recovery_attempts <= Disruptions + 1
              /\ Due(w) => workflow_status[w].recovery_attempts <= Disruptions
              /\ workflow_status[w].status = "MAX_RECOVERY_ATTEMPTS_EXCEEDED" =>
                     Disruptions > MaxRetries
          BY DEF AttemptsInv
        <4>2. 0 <= Disruptions /\ 0 <= Disruptions + 1
          BY <1>d
        <4> QED BY <2>2, <2>5, <3>1, <4>1, <4>2
      <3>2. CASE x # w
        <4>1. Disruptions' >= Disruptions /\ Disruptions' \in Nat
          BY <1>d, <2>2
        <4> QED BY <1>k, <2>1, <2>3, <3>2, <4>1
      <3> QED BY <3>1, <3>2
    <2> QED BY <1>s, <2>1, <2>4, <2>6 DEF AttemptsInv
  <1>4. ASSUME NEW e \in Executors, Sweep(e) PROVE AttemptsInv'
    <2>1. /\ UNCHANGED run
          /\ \A x \in Executors : up[x] => up'[x]
      BY <1>0, <1>4 DEF Sweep
    <2>2. Disruptions' = Disruptions
      BY <1>4 DEF Sweep, NoDisruption, Disruptions
    <2>3. ASSUME NEW x \in Workflows
          PROVE  \/ /\ workflow_status'[x].status = "ENQUEUED" /\ Due(x)
                    /\ workflow_status'[x].recovery_attempts = workflow_status[x].recovery_attempts
                 \/ workflow_status'[x] = workflow_status[x]
      BY <1>4 DEF Sweep, Due
    <2>4. ASSUME NEW x \in Workflows, workflow_status'[x] = workflow_status[x] PROVE Due(x)' => Due(x)
      BY <2>1, <2>4 DEF Due, SoleInv
    <2>5. ASSUME NEW x \in Workflows
          PROVE  /\ workflow_status'[x].recovery_attempts <= Disruptions' + 1
                 /\ Due(x)' => workflow_status'[x].recovery_attempts <= Disruptions'
                 /\ workflow_status'[x].status = "MAX_RECOVERY_ATTEMPTS_EXCEEDED" =>
                        Disruptions' > MaxRetries
      <3>1. CASE /\ workflow_status'[x].status = "ENQUEUED" /\ Due(x)
                 /\ workflow_status'[x].recovery_attempts = workflow_status[x].recovery_attempts
        <4>1. /\ workflow_status[x].recovery_attempts <= Disruptions + 1
              /\ workflow_status[x].recovery_attempts <= Disruptions
          BY <3>1 DEF AttemptsInv
        <4> QED BY <2>2, <3>1, <4>1
      <3>2. CASE workflow_status'[x] = workflow_status[x]
        <4>1. Disruptions' >= Disruptions /\ Disruptions' \in Nat
          BY <1>d, <2>2
        <4> QED BY <1>k, <2>4, <3>2, <4>1
      <3> QED BY <2>3, <3>1, <3>2
    <2>6. \A s \in Runs : run[s].pc # "free" =>
              workflow_status'[run[s].wf].recovery_attempts =
                  workflow_status[run[s].wf].recovery_attempts
      BY <1>0, <2>3
    <2> QED BY <1>s, <2>1, <2>5, <2>6 DEF AttemptsInv
  <1>5. ASSUME NEW e \in Executors, Fails(e) PROVE AttemptsInv'
    <2>1. Disruptions' = Disruptions + 1 /\ UNCHANGED workflow_status
      <3>1. /\ Disruptions' = env'["crashes"] + env'["lostAcks"]
            /\ env'["crashes"] = c + 1 /\ env'["lostAcks"] = l /\ UNCHANGED workflow_status
        BY <1>5, <1>d DEF Fails, Disruptions
      <3> QED BY <1>d, <3>1
    <2>2. FreeRun.pc = "free"
      BY DEF FreeRun
    <2>3. \A s \in Runs : run'[s].pc # "free" => run'[s] = run[s]
      BY <1>5, <2>2 DEF Fails
    <2>4. \A x \in Workflows :
              /\ workflow_status'[x].recovery_attempts <= Disruptions'
              /\ workflow_status'[x].recovery_attempts <= Disruptions' + 1
              /\ workflow_status'[x].status = "MAX_RECOVERY_ATTEMPTS_EXCEEDED" =>
                     Disruptions' > MaxRetries
      <3>1. SUFFICES ASSUME NEW x \in Workflows
                     PROVE  /\ workflow_status[x].recovery_attempts <= Disruptions + 1
                            /\ workflow_status[x].recovery_attempts <= Disruptions + 2
                            /\ workflow_status[x].status = "MAX_RECOVERY_ATTEMPTS_EXCEEDED" =>
                                   Disruptions + 1 > MaxRetries
        BY <1>d, <2>1
      <3>2. /\ workflow_status[x].recovery_attempts <= Disruptions + 1
            /\ workflow_status[x].status = "MAX_RECOVERY_ATTEMPTS_EXCEEDED" =>
                   Disruptions > MaxRetries
        BY DEF AttemptsInv
      <3>3. PICK n \in Nat : n = workflow_status[x].recovery_attempts
        BY <1>0
      <3> QED BY <1>d, <1>m, <3>2, <3>3
    <2> QED BY <1>s, <2>1, <2>3, <2>4 DEF AttemptsInv
  <1>6. CASE UNCHANGED vars
    BY <1>6 DEF vars, AttemptsInv, Due, Disruptions
  <1> QED BY <1>1, <1>2, <1>3, <1>4, <1>5, <1>6 DEF RecoveryStep

\* The function of a workflow runs at most maxRecoveryAttempts + 1 times after its
\* initialization counted it, and a workflow reaches MAX_RECOVERY_ATTEMPTS_EXCEEDED only
\* by more than maxRecoveryAttempts crashes or unacknowledged upserts.
THEOREM AttemptsAreBounded ==
    ASSUME ~SweepLive, MaxResumes = 0 PROVE Spec => []RecoveryAttemptsBound
  <1> DEFINE IInv == TypeInv /\ SoleInv /\ AttemptsInv
  <1>1. Init => IInv
    <2>1. Init => AttemptsInv
      BY ConstantsAssumption
         DEF Init, AttemptsInv, Due, Disruptions, FreeRun, NoRow, EventKinds, Registered, Body
    <2> QED BY <2>1, TypeInvInit, SoleInit
  <1>2. IInv /\ [Next]_vars => IInv'
    BY TypeInvNext, RecoverySteps, SoleNext, AttemptsNext
  <1>3. IInv => RecoveryAttemptsBound
    BY DEF AttemptsInv, Disruptions, RecoveryAttemptsBound
  <1> QED BY <1>1, <1>2, <1>3, PTL DEF Spec

===============================================================================
