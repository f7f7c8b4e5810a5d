--------------------------- MODULE ExecutionProofs ---------------------------
(***************************************************************************)
(* Theorems about module Execution, for any number of executors,           *)
(* workflows, invocations, steps and values, and any bounds on events.     *)
(***************************************************************************)
EXTENDS Execution, TLAPS

\* The provers tried, in turn, on a leaf that names none.  Zenon comes first: its
\* translation is deterministic, that to SMT now and then runs out of time.
USE ZenonT(5), SMT, Zenon, Z3, SMTT(6), Z3T(6)

Results == [Steps -> Values \cup {Null}]

\* The row that each statement leaves is again a row.
LEMMA RowOperations ==
    ASSUME NEW row \in RowType, NEW e \in Executors, NEW w \in Workflows
    PROVE  /\ \A st \in {"ENQUEUED", "PENDING"} : InsertedRow(w, e, st) \in RowType
           /\ \A ex \in {"ENQUEUED", "PENDING"}, inc \in Nat :
                  UpsertedRow(row, e, ex, inc) \in RowType
           /\ ExhaustedRow(row) \in RowType
           /\ ClaimedRow(row, w, e) \in RowType
           /\ CancelledRow(row) \in RowType
           /\ ResumedRow(row) \in RowType
           /\ \A res \in Results : FinishedRow(row, res) \in RowType
           /\ UndispatchedRow(row) \in RowType /\ RejectedRow(row) \in RowType
  <1>1. NoResults \in Results
    BY ConstantsAssumption DEF NoResults, Results
  <1>2. \A st \in {"ENQUEUED", "PENDING"} : InsertedRow(w, e, st) \in RowType
    BY <1>1 DEF InsertedRow, RowType, Results
  <1>3. ASSUME NEW ex \in {"ENQUEUED", "PENDING"}, NEW inc \in Nat
        PROVE  UpsertedRow(row, e, ex, inc) \in RowType
    <2> DEFINE a == IF row.status = "ENQUEUED" THEN row.recovery_attempts
                    ELSE row.recovery_attempts + inc
               x == IF ex = "ENQUEUED" THEN row.executor_id ELSE e
    <2>1. a \in Nat /\ x \in Executors \cup {Null}
      BY DEF RowType
    <2>2. UpsertedRow(row, e, ex, inc)
              = [row EXCEPT !.recovery_attempts = a, !.executor_id = x]
      BY DEF UpsertedRow
    <2> HIDE DEF a, x
    <2> QED BY <2>1, <2>2 DEF RowType
  <1>4. ExhaustedRow(row) \in RowType
    BY DEF ExhaustedRow, RowType, Settled
  <1>5. ClaimedRow(row, w, e) \in RowType
    BY DEF ClaimedRow, RowType
  <1>6. CancelledRow(row) \in RowType
    BY DEF CancelledRow, RowType, Settled
  <1>7. ResumedRow(row) \in RowType
    BY DEF ResumedRow, RowType
  <1>8. \A res \in Results : FinishedRow(row, res) \in RowType
    BY DEF FinishedRow, RowType, Settled, Results
  <1>9. UndispatchedRow(row) \in RowType /\ RejectedRow(row) \in RowType
    BY DEF UndispatchedRow, RejectedRow, RowType, Settled
  <1> QED BY <1>2, <1>3, <1>4, <1>5, <1>6, <1>7, <1>8, <1>9
\* Steps of an invocation that is not waiting for anything are steps of the function.
InFlight == {"check", "exec", "record", "marker"}

\* A run that belongs to an executor and to a workflow unless its slot is free.
Owned(rr) ==
    /\ rr \in RunType
    /\ rr.pc # "free" => rr.exec \in Executors /\ rr.wf \in Workflows
    /\ rr.pc \in InFlight => rr.step \in Steps

\* The invocation that each operation leaves is again an invocation.
LEMMA RunOperations ==
    /\ Owned(FreeRun)
    /\ \A e \in Executors, w \in Workflows, pc \in PCs :
           /\ Owned(NewRun(e, w, pc))
           /\ \A t \in {"off", "armed"} : Owned([NewRun(e, w, pc) EXCEPT !.timer = t])
    /\ \A rr \in RunType, v \in Values \cup {Null} :
           Owned(rr) /\ rr.pc \in InFlight => Owned(Advanced(rr, v))
  <1>1. NoResults \in Results /\ 1 \in 1 .. NumSteps + 1 /\ 1 \in Steps
    BY ConstantsAssumption DEF NoResults, Results, Steps
  <1>2. Owned(FreeRun) /\ FreeRun \in RunType
    BY <1>1 DEF FreeRun, Owned, RunType, PCs, Registered, Body, InFlight, Results
  <1>3. ASSUME NEW e \in Executors, NEW w \in Workflows, NEW pc \in PCs
        PROVE  /\ Owned(NewRun(e, w, pc))
               /\ \A t \in {"off", "armed"} : Owned([NewRun(e, w, pc) EXCEPT !.timer = t])
    <2>1. /\ NewRun(e, w, pc) \in RunType
          /\ NewRun(e, w, pc).pc = pc /\ NewRun(e, w, pc).exec = e
          /\ NewRun(e, w, pc).wf = w /\ NewRun(e, w, pc).step = 1
      BY <1>1, <1>2 DEF NewRun, FreeRun, RunType
    <2> QED BY <1>1, <2>1 DEF Owned, RunType
  <1>4. ASSUME NEW rr \in RunType, NEW v \in Values \cup {Null}, rr.pc \in InFlight, Owned(rr)
        PROVE  Owned(Advanced(rr, v))
    <2>1. /\ rr.step \in 1 .. NumSteps + 1 /\ rr.step + 1 \in 1 .. NumSteps + 1
          /\ rr.step # NumSteps => rr.step + 1 \in Steps
      BY <1>4, ConstantsAssumption DEF Owned, Steps
    <2>2. rr.res \in Results /\ [rr.res EXCEPT ![rr.step] = v] \in Results
      BY DEF RunType, Results
    <2>3. rr.exec \in Executors /\ rr.wf \in Workflows
      BY <1>4 DEF Owned, InFlight
    <2> DEFINE res == [rr.res EXCEPT ![rr.step] = v]
               next == rr.step + 1
               pc == IF v \in StepErrors \/ rr.step = NumSteps THEN "return" ELSE "check"
    <2>4. Advanced(rr, v) = [rr EXCEPT !.res = res, !.step = next, !.val = Null, !.pc = pc]
      BY DEF Advanced, RunType
    <2>5. pc \in PCs /\ (pc \in InFlight => next \in Steps) /\ next \in 1 .. NumSteps + 1
      BY <2>1 DEF PCs, Registered, Body, InFlight
    <2> HIDE DEF res, next, pc
    <2> QED BY <2>2, <2>3, <2>4, <2>5 DEF Owned, RunType, Results, res
  <1> QED BY <1>2, <1>3, <1>4

\* The inductive strengthening of TypeOK: it bounds the step of an invocation.
TypeInv == TypeOK /\ \A r \in Runs : Owned(run[r])

\* A step that writes one row and replaces one invocation keeps the types.
LEMMA TypedStep ==
    ASSUME TypeInv,
           workflow_status' \in [Workflows -> RowType],
           operation_outputs' \in [Workflows -> Results],
           recorder' \in [Workflows -> [Steps -> Runs \cup {Null}]],
           up' \in [Executors -> BOOLEAN],
           runningMap' \in [Executors -> SUBSET Workflows],
           env' \in [EventKinds -> Nat],
           \/ UNCHANGED run
           \/ \E r \in Runs : \E rr : Owned(rr) /\ run' = [run EXCEPT ![r] = rr]
    PROVE  TypeInv'
  <1>1. run' \in [Runs -> RunType] /\ \A r \in Runs : Owned(run[r])'
    <2>1. CASE UNCHANGED run
      BY <2>1 DEF TypeInv, TypeOK, Owned
    <2>2. CASE \E r \in Runs : \E rr : Owned(rr) /\ run' = [run EXCEPT ![r] = rr]
      <3>0. PICK r \in Runs : \E rr : Owned(rr) /\ run' = [run EXCEPT ![r] = rr]
        BY <2>2
      <3>1. PICK rr : Owned(rr) /\ run' = [run EXCEPT ![r] = rr]
        BY <3>0
      <3>2. rr \in RunType
        BY <3>1 DEF Owned
      <3> QED BY <3>1, <3>2 DEF TypeInv, TypeOK, Owned
    <2> QED BY <2>1, <2>2
  <1> QED BY <1>1 DEF TypeInv, TypeOK, Results, Owned

LEMMA EventType ==
    ASSUME TypeInv, NEW kind \in EventKinds, NEW bound, Event(kind, bound)
    PROVE  env' \in [EventKinds -> Nat]
  BY DEF TypeInv, TypeOK, Event

LEMMA DispatchType ==
    ASSUME TypeInv, NEW r \in Runs, NEW e \in Executors, NEW w \in Workflows,
           NEW d \in BOOLEAN, Dispatch(r, e, w, d)
    PROVE  /\ runningMap' \in [Executors -> SUBSET Workflows]
           /\ \E s \in Runs : \E rr : Owned(rr) /\ run' = [run EXCEPT ![s] = rr]
  <1>1. "check" \in PCs
    BY DEF PCs, Registered, Body
  <1>2. (IF d THEN "armed" ELSE "off") \in {"off", "armed"}
    OBVIOUS
  <1>3. Owned([NewRun(e, w, "check") EXCEPT !.timer = IF d THEN "armed" ELSE "off"])
    BY <1>1, <1>2, RunOperations
  <1>4. Owned(FreeRun)
    BY RunOperations
  <1>5. runningMap' \in [Executors -> SUBSET Workflows]
    BY DEF Dispatch, TypeInv, TypeOK
  <1>6. CASE w \in runningMap[e]
    BY <1>4, <1>5, <1>6 DEF Dispatch
  <1>7. CASE w \notin runningMap[e]
    BY <1>3, <1>5, <1>7 DEF Dispatch
  <1> QED BY <1>6, <1>7

LEMMA TypeInvInit == Init => TypeInv
  <1> SUFFICES ASSUME Init PROVE TypeInv
    OBVIOUS
  <1>1. NoResults \in Results /\ NoResults \in [Steps -> Runs \cup {Null}]
    BY DEF NoResults, Results
  <1>2. NoRow \in RowType
    BY <1>1 DEF NoRow, RowType, Results
  <1>3. Owned(FreeRun) /\ FreeRun \in RunType
    BY RunOperations DEF Owned
  <1> QED BY <1>1, <1>2, <1>3 DEF Init, TypeInv, TypeOK, Results, FreeRun

\* Every step keeps the types; one case for each action.
LEMMA TypeInvNext ==
    ASSUME TypeInv, [Next]_vars PROVE TypeInv'
  <1> USE DEF Results
  <1>1. ASSUME NEW e \in Executors, NEW w \in Workflows, NEW r \in Runs, StartWorkflow(e, w, r)
        PROVE  TypeInv'
    <2>1. InsertedRow(w, e, "PENDING") \in RowType
      BY RowOperations DEF TypeInv, TypeOK
    <2>2. Dispatch(r, e, w, w \in Timed)
      BY <1>1 DEF StartWorkflow
    <2>3. /\ runningMap' \in [Executors -> SUBSET Workflows]
          /\ \E s \in Runs : \E rr : Owned(rr) /\ run' = [run EXCEPT ![s] = rr]
      <3>1. (w \in Timed) \in BOOLEAN
        OBVIOUS
      <3> QED BY <2>2, <3>1, DispatchType
    <2> QED BY <1>1, <2>1, <2>3, TypedStep DEF StartWorkflow, TypeInv, TypeOK
  <1>2. ASSUME NEW e \in Executors, NEW w \in Workflows, NEW r \in Runs,
               StartWorkflowAckLost(e, w, r)
        PROVE  TypeInv'
    <2>1. InsertedRow(w, e, "PENDING") \in RowType
      BY RowOperations DEF TypeInv, TypeOK
    <2>2. Owned(NewRun(e, w, "init"))
      BY RunOperations DEF PCs
    <2>3. env' \in [EventKinds -> Nat]
      BY <1>2, EventType DEF StartWorkflowAckLost, EventKinds
    <2> QED BY <1>2, <2>1, <2>2, <2>3, TypedStep DEF StartWorkflowAckLost, TypeInv, TypeOK
  <1>3. ASSUME NEW e \in Executors, NEW w \in Workflows, EnqueueWorkflow(e, w)
        PROVE  TypeInv'
    <2>1. InsertedRow(w, e, "ENQUEUED") \in RowType
      BY RowOperations DEF TypeInv, TypeOK
    <2> QED BY <1>3, <2>1, TypedStep DEF EnqueueWorkflow, TypeInv, TypeOK
  <1>4. ASSUME NEW e \in Executors, NEW w \in Workflows, NEW r \in Runs,
               FindAndMarkStartable(e, w, r)
        PROVE  TypeInv'
    <2>1. ClaimedRow(workflow_status[w], w, e) \in RowType
      BY RowOperations DEF TypeInv, TypeOK
    <2>2. Owned(NewRun(e, w, "claimed"))
      BY RunOperations DEF PCs
    <2> QED BY <1>4, <2>1, <2>2, TypedStep DEF FindAndMarkStartable, TypeInv, TypeOK
  <1>5. ASSUME NEW e \in Executors, NEW w \in Workflows, FindAndMarkAckLost(e, w)
        PROVE  TypeInv'
    <2>1. UndispatchedRow(ClaimedRow(workflow_status[w], w, e)) \in RowType
      BY RowOperations DEF TypeInv, TypeOK
    <2>2. env' \in [EventKinds -> Nat]
      BY <1>5, EventType DEF FindAndMarkAckLost, EventKinds
    <2> QED BY <1>5, <2>1, <2>2, TypedStep DEF FindAndMarkAckLost, TypeInv, TypeOK
  <1>6. ASSUME NEW r \in Runs, ExecuteWorkflowId(r) PROVE TypeInv'
    <2> DEFINE rr == [run[r] EXCEPT !.pc = "loaded",
                                    !.queued = workflow_status[run[r].wf].queued]
    <2>1. run[r].exec \in Executors /\ run[r].wf \in Workflows /\ Owned(run[r])
      BY <1>6 DEF ExecuteWorkflowId, TypeInv, TypeOK
    <2>2. workflow_status[run[r].wf].queued \in BOOLEAN
      BY <2>1 DEF TypeInv, TypeOK, RowType
    <2>3. Owned(rr)
      BY <2>1, <2>2 DEF Owned, RunType, PCs, InFlight
    <2>4. run' = [run EXCEPT ![r] = rr]
      BY <1>6 DEF ExecuteWorkflowId, TypeInv, TypeOK
    <2> HIDE DEF rr
    <2> QED BY <1>6, <2>3, <2>4, TypedStep DEF ExecuteWorkflowId, TypeInv, TypeOK
  <1>7. ASSUME NEW r \in Runs, run[r].pc \in {"init", "loaded"}
        PROVE  InitializedRow(r) \in RowType /\ run[r].exec \in Executors /\ run[r].wf \in Workflows
    <2>1. run[r].exec \in Executors /\ run[r].wf \in Workflows
      BY <1>7 DEF TypeInv, TypeOK
    <2>2. workflow_status[run[r].wf] \in RowType
      BY <2>1 DEF TypeInv, TypeOK
    <2>3. \A ex \in {"ENQUEUED", "PENDING"}, inc \in Nat :
              UpsertedRow(workflow_status[run[r].wf], run[r].exec, ex, inc) \in RowType
      BY <2>1, <2>2, RowOperations
    <2>4. \A row \in RowType : ExhaustedRow(row) \in RowType
      BY DEF ExhaustedRow, RowType, Settled
    <2>5. 0 \in Nat /\ 1 \in Nat
      OBVIOUS
    <2> QED BY <2>1, <2>3, <2>4, <2>5 DEF InitializedRow
  <1>8. ASSUME NEW r \in Runs, InitWorkflowStatus(r) PROVE TypeInv'
    <2>1. /\ InitializedRow(r) \in RowType /\ InitializedRow(r).deadline \in BOOLEAN
          /\ run[r].exec \in Executors /\ run[r].wf \in Workflows
      BY <1>7, <1>8 DEF InitWorkflowStatus, RowType
    <2>2. /\ runningMap' \in [Executors -> SUBSET Workflows]
          /\ \E s \in Runs : \E rr : Owned(rr) /\ run' = [run EXCEPT ![s] = rr]
      <3>1. CASE Exhausted(InitializedRow(r))
        BY <1>8, <3>1, RunOperations DEF InitWorkflowStatus, TypeInv, TypeOK
      <3>2. CASE ~Exhausted(InitializedRow(r))
        <4>1. Dispatch(r, run[r].exec, run[r].wf, InitializedRow(r).deadline)
          BY <1>8, <3>2 DEF InitWorkflowStatus
        <4> QED BY <2>1, <4>1, DispatchType
      <3> QED BY <3>1, <3>2
    <2>3. workflow_status' \in [Workflows -> RowType]
      BY <1>8, <2>1 DEF InitWorkflowStatus, TypeInv, TypeOK
    <2>4. UNCHANGED <<operation_outputs, recorder, up, env>>
      BY <1>8 DEF InitWorkflowStatus
    <2> QED BY <2>2, <2>3, <2>4, TypedStep DEF TypeInv, TypeOK
  <1>9. ASSUME NEW r \in Runs, InitWorkflowStatusAckLost(r) PROVE TypeInv'
    <2>1. InitializedRow(r) \in RowType
      BY <1>7, <1>9 DEF InitWorkflowStatusAckLost
    <2>2. env' \in [EventKinds -> Nat]
      BY <1>9, EventType DEF InitWorkflowStatusAckLost, EventKinds
    <2> QED BY <1>9, <2>1, <2>2, TypedStep DEF InitWorkflowStatusAckLost, TypeInv, TypeOK
  <1>10. ASSUME NEW r \in Runs, CheckStep(r) PROVE TypeInv'
    <2>1. /\ Owned(run[r]) /\ run[r] \in RunType /\ run[r].pc \in InFlight
          /\ run[r].wf \in Workflows /\ run[r].step \in Steps
      BY <1>10 DEF CheckStep, TypeInv, TypeOK, InFlight, Owned
    <2>2. Owned([run[r] EXCEPT !.pc = "unwind"]) /\ Owned([run[r] EXCEPT !.pc = "exec"])
      BY <2>1 DEF Owned, RunType, PCs, Registered, Body, InFlight
    <2>3. operation_outputs[run[r].wf][run[r].step] \in Values \cup {Null}
      BY <2>1 DEF TypeInv, TypeOK
    <2>4. Owned(Advanced(run[r], operation_outputs[run[r].wf][run[r].step]))
      BY <2>1, <2>3, RunOperations
    <2> QED BY <1>10, <2>2, <2>4, TypedStep DEF CheckStep, TypeInv, TypeOK
  <1>11. ASSUME NEW r \in Runs, NEW v \in Values, ExecuteStep(r, v) PROVE TypeInv'
    <2> DEFINE rr == [run[r] EXCEPT !.pc = "record", !.val = v]
    <2>0. Owned(run[r]) /\ run[r].pc \in InFlight
      BY <1>11 DEF ExecuteStep, TypeInv, InFlight
    <2>1. Owned(rr)
      BY <1>11, <2>0 DEF Owned, RunType, PCs, Registered, Body, InFlight
    <2>2. run' = [run EXCEPT ![r] = rr]
      BY <1>11 DEF ExecuteStep, TypeInv, TypeOK
    <2> HIDE DEF rr
    <2> QED BY <1>11, <2>1, <2>2, TypedStep DEF ExecuteStep, TypeInv, TypeOK
  <1>12. ASSUME NEW r \in Runs, NEW pc \in {"marker", "record", "unwind"},
                run[r].pc \in InFlight \cup {"return"}, pc = "unwind" \/ run[r].pc \in InFlight
         PROVE  Owned([run[r] EXCEPT !.pc = pc])
    <2>1. Owned(run[r])
      BY DEF TypeInv
    <2> QED BY <1>12, <2>1 DEF Owned, RunType, PCs, Registered, Body, InFlight
  <1>13. ASSUME NEW r \in Runs, RetriedStepCancelled(r) PROVE TypeInv'
    <2>1. Owned([run[r] EXCEPT !.pc = "unwind"])
      BY <1>12, <1>13 DEF RetriedStepCancelled, InFlight
    <2>2. run' = [run EXCEPT ![r] = [run[r] EXCEPT !.pc = "unwind"]]
      BY <1>13 DEF RetriedStepCancelled, TypeInv, TypeOK
    <2> QED BY <1>13, <2>1, <2>2, TypedStep DEF RetriedStepCancelled, TypeInv, TypeOK
  <1>14. ASSUME NEW r \in Runs, RecordStep(r) PROVE TypeInv'
    <2>1. Owned([run[r] EXCEPT !.pc = "marker"])
      BY <1>12, <1>14 DEF RecordStep, InFlight
    <2>2. run' = [run EXCEPT ![r] = [run[r] EXCEPT !.pc = "marker"]]
      BY <1>14 DEF RecordStep, TypeInv, TypeOK
    <2>3. run[r].wf \in Workflows /\ run[r].step \in Steps /\ run[r].val \in Values \cup {Null}
      BY <1>14 DEF RecordStep, TypeInv, TypeOK, Owned, InFlight, RunType
    <2>4. /\ operation_outputs' \in [Workflows -> Results]
          /\ recorder' \in [Workflows -> [Steps -> Runs \cup {Null}]]
      BY <1>14, <2>3 DEF RecordStep, TypeInv, TypeOK
    <2> QED BY <1>14, <2>1, <2>2, <2>4, TypedStep DEF RecordStep, TypeInv, TypeOK
  <1>15. ASSUME NEW r \in Runs, RecordStepAgain(r) PROVE TypeInv'
    <2>1. Owned([run[r] EXCEPT !.pc = "marker"])
      BY <1>12, <1>15 DEF RecordStepAgain, InFlight
    <2>2. run' = [run EXCEPT ![r] = [run[r] EXCEPT !.pc = "marker"]]
      BY <1>15 DEF RecordStepAgain, TypeInv, TypeOK
    <2> QED BY <1>15, <2>1, <2>2, TypedStep DEF RecordStepAgain, TypeInv, TypeOK
  <1>16. ASSUME NEW r \in Runs, RecordStepConflict(r) PROVE TypeInv'
    <2>1. Owned([run[r] EXCEPT !.pc = "unwind"])
      BY <1>12, <1>16 DEF RecordStepConflict, InFlight
    <2>2. Owned([run[r] EXCEPT !.pc = "conflict", !.timer = "off"])
      <3>1. Owned(run[r]) /\ run[r].pc \in InFlight
        BY <1>16 DEF RecordStepConflict, TypeInv, InFlight
      <3> QED BY <3>1 DEF Owned, RunType, PCs, Registered, InFlight
    <2> QED BY <1>16, <2>1, <2>2, TypedStep DEF RecordStepConflict, TypeInv, TypeOK
  <1>17. ASSUME NEW r \in Runs, ClaimMarker(r) PROVE TypeInv'
    <2>1. /\ Owned(run[r]) /\ run[r] \in RunType /\ run[r].pc \in InFlight
          /\ run[r].wf \in Workflows /\ run[r].exec \in Executors
          /\ run[r].val \in Values \cup {Null}
      BY <1>17 DEF ClaimMarker, TypeInv, TypeOK, InFlight, RunType
    <2>2. Owned(Advanced(run[r], run[r].val))
      BY <2>1, RunOperations
    <2>3. [workflow_status[run[r].wf] EXCEPT !.executor_id = run[r].exec] \in RowType
      <3>1. workflow_status[run[r].wf] \in RowType
        BY <2>1 DEF TypeInv, TypeOK
      <3> QED BY <2>1, <3>1 DEF RowType
    <2>4. workflow_status' = [workflow_status EXCEPT ![run[r].wf] =
              [workflow_status[run[r].wf] EXCEPT !.executor_id = run[r].exec]]
      BY <1>17, <2>1 DEF ClaimMarker, TypeInv, TypeOK
    <2>5. workflow_status' \in [Workflows -> RowType]
      BY <2>1, <2>3, <2>4 DEF TypeInv, TypeOK
    <2> QED BY <1>17, <2>2, <2>5, TypedStep DEF ClaimMarker, TypeInv, TypeOK
  <1>18. ASSUME NEW r \in Runs, RecordStepAckLost(r) PROVE TypeInv'
    <2>1. Owned([run[r] EXCEPT !.pc = "record"])
      BY <1>12, <1>18 DEF RecordStepAckLost, InFlight
    <2>2. run' = [run EXCEPT ![r] = [run[r] EXCEPT !.pc = "record"]]
      BY <1>18 DEF RecordStepAckLost, TypeInv, TypeOK
    <2>3. env' \in [EventKinds -> Nat]
      BY <1>18, EventType DEF RecordStepAckLost, EventKinds
    <2> QED BY <1>18, <2>1, <2>2, <2>3, TypedStep DEF RecordStepAckLost, TypeInv, TypeOK
  <1>19. ASSUME NEW r \in Runs, ReleaseRunningWorkflow(r), run[r].exec \in Executors
         PROVE  runningMap' \in [Executors -> SUBSET Workflows]
    BY <1>19 DEF ReleaseRunningWorkflow, TypeInv, TypeOK
  <1>20. ASSUME NEW r \in Runs, ReturnBody(r) PROVE TypeInv'
    <2>1. Owned([run[r] EXCEPT !.pc = "unwind"]) /\ run[r].exec \in Executors
      BY <1>12, <1>20 DEF ReturnBody, TypeInv, TypeOK
    <2>2. Owned([run[r] EXCEPT !.pc = "outcome", !.timer = "off"])
      <3>1. Owned(run[r]) /\ run[r].pc # "free"
        BY <1>20 DEF ReturnBody, TypeInv
      <3> QED BY <3>1 DEF Owned, RunType, PCs, InFlight
    <2>3. \/ run' = [run EXCEPT ![r] = [run[r] EXCEPT !.pc = "unwind"]]
          \/ run' = [run EXCEPT ![r] = [run[r] EXCEPT !.pc = "outcome", !.timer = "off"]]
      BY <1>20 DEF ReturnBody, TypeInv, TypeOK
    <2>4. runningMap' \in [Executors -> SUBSET Workflows]
      BY <1>19, <1>20, <2>1 DEF ReturnBody, TypeInv, TypeOK
    <2>5. \E s \in Runs : \E rr : Owned(rr) /\ run' = [run EXCEPT ![s] = rr]
      BY <2>1, <2>2, <2>3
    <2> QED BY <1>20, <2>4, <2>5, TypedStep DEF ReturnBody, TypeInv, TypeOK
  <1>21. ASSUME NEW r \in Runs, run[r].pc = "outcome",
                workflow_status' = [workflow_status EXCEPT ![run[r].wf] = FinishedRow(@, run[r].res)]
         PROVE  workflow_status' \in [Workflows -> RowType]
    <2>1. run[r].wf \in Workflows /\ run[r].exec \in Executors /\ run[r].res \in Results
      BY <1>21 DEF TypeInv, TypeOK, RunType
    <2>2. workflow_status[run[r].wf] \in RowType
      BY <2>1 DEF TypeInv, TypeOK
    <2>3. FinishedRow(workflow_status[run[r].wf], run[r].res) \in RowType
      BY <2>1, <2>2, RowOperations
    <2> QED BY <1>21, <2>1, <2>3 DEF TypeInv, TypeOK
  <1>22. ASSUME NEW r \in Runs, RecordWorkflowOutcome(r) PROVE TypeInv'
    BY <1>21, <1>22, RunOperations, TypedStep DEF RecordWorkflowOutcome, TypeInv, TypeOK
  <1>23. ASSUME NEW r \in Runs, RecordWorkflowOutcomeAckLost(r) PROVE TypeInv'
    <2>1. env' \in [EventKinds -> Nat]
      BY <1>23, EventType DEF RecordWorkflowOutcomeAckLost, EventKinds
    <2> QED BY <1>21, <1>23, <2>1, TypedStep DEF RecordWorkflowOutcomeAckLost, TypeInv, TypeOK
  <1>24. ASSUME NEW r \in Runs, AwaitWorkflowResult(r) \/ UnwindCancelled(r) PROVE TypeInv'
    <2>1. /\ run[r].exec \in Executors /\ ReleaseRunningWorkflow(r)
          /\ run' = [run EXCEPT ![r] = FreeRun]
          /\ UNCHANGED <<workflow_status, operation_outputs, recorder, up, env>>
      BY <1>24 DEF AwaitWorkflowResult, UnwindCancelled, TypeInv, TypeOK
    <2>2. runningMap' \in [Executors -> SUBSET Workflows]
      BY <1>19, <2>1
    <2> QED BY <2>1, <2>2, RunOperations, TypedStep DEF TypeInv, TypeOK
  <1>25. ASSUME NEW w \in Workflows
         PROVE  CancelledRow(workflow_status[w]) \in RowType /\ ResumedRow(workflow_status[w]) \in RowType
    <2>1. workflow_status[w] \in RowType
      BY DEF TypeInv, TypeOK
    <2>2. CancelledRow(workflow_status[w]) \in RowType
      BY <2>1 DEF CancelledRow, RowType, Settled
    <2>3. ResumedRow(workflow_status[w]) \in RowType
      BY <2>1 DEF ResumedRow, RowType
    <2> QED BY <2>2, <2>3
  <1>26. ASSUME NEW r \in Runs, TimeoutFires(r) PROVE TypeInv'
    <2>1. run[r].wf \in Workflows
      BY <1>26 DEF TimeoutFires, TypeInv, TypeOK, Body
    <2>2. Owned([run[r] EXCEPT !.timer = "fired"])
      BY DEF TypeInv, TypeOK, Owned, RunType
    <2>3. run' = [run EXCEPT ![r] = [run[r] EXCEPT !.timer = "fired"]]
      BY <1>26 DEF TimeoutFires, TypeInv, TypeOK
    <2> QED BY <1>25, <1>26, <2>1, <2>2, <2>3, TypedStep DEF TimeoutFires, TypeInv, TypeOK
  <1>27. ASSUME NEW w \in Workflows, CancelWorkflow(w) \/ ResumeWorkflow(w) PROVE TypeInv'
    <2>1. env' \in [EventKinds -> Nat]
      BY <1>27, EventType DEF CancelWorkflow, ResumeWorkflow, EventKinds
    <2>2. workflow_status' \in [Workflows -> RowType]
      BY <1>25, <1>27 DEF CancelWorkflow, ResumeWorkflow, TypeInv, TypeOK
    <2>3. UNCHANGED <<operation_outputs, recorder, up, runningMap, run>>
      BY <1>27 DEF CancelWorkflow, ResumeWorkflow
    <2> QED BY <2>1, <2>2, <2>3, TypedStep DEF TypeInv, TypeOK
  <1>28. ASSUME NEW e \in Executors, Crash(e) PROVE TypeInv'
    <2>1. env' \in [EventKinds -> Nat]
      BY <1>28, EventType DEF Crash, EventKinds
    <2>2. Owned(FreeRun) /\ FreeRun \in RunType /\ FreeRun.pc = "free"
      BY RunOperations DEF Owned, FreeRun
    <2>3. run' = [r \in Runs |-> IF run[r].exec = e THEN FreeRun ELSE run[r]]
      BY <1>28 DEF Crash
    <2>4. run' \in [Runs -> RunType] /\ \A r \in Runs : Owned(run[r])'
      BY <2>2, <2>3 DEF TypeInv, TypeOK, Owned
    <2> QED BY <1>28, <2>1, <2>4 DEF Crash, TypeInv, TypeOK, Owned
  <1>29. ASSUME NEW e \in Executors PROVE Reenqueued(workflow_status, e) \in [Workflows -> RowType]
    <2>1. \A row \in RowType : [row EXCEPT !.status = "ENQUEUED", !.queued = TRUE] \in RowType
      BY DEF RowType
    <2> QED BY <2>1 DEF TypeInv, TypeOK, Reenqueued
  <1>30. ASSUME NEW e \in Executors, Restart(e) PROVE TypeInv'
    BY <1>29, <1>30, TypedStep DEF Restart, TypeInv, TypeOK
  <1>31. ASSUME NEW e \in Executors, RecoverPendingWorkflows(e) PROVE TypeInv'
    <2>1. env' \in [EventKinds -> Nat]
      BY <1>31, EventType DEF RecoverPendingWorkflows, EventKinds
    <2> QED BY <1>29, <1>31, <2>1, TypedStep DEF RecoverPendingWorkflows, TypeInv, TypeOK
  <1>32. ASSUME UNCHANGED vars PROVE TypeInv'
    BY <1>32 DEF vars, TypeInv, TypeOK, Owned
  <1>33. ASSUME NEW r \in Runs, DispatchFails(r) \/ RejectInput(r) PROVE TypeInv'
    <2>1. run[r].wf \in Workflows /\ run[r].exec \in Executors
      BY <1>33 DEF DispatchFails, RejectInput, TypeInv, TypeOK
    <2>2. workflow_status[run[r].wf] \in RowType
      BY <2>1 DEF TypeInv, TypeOK
    <2>3. /\ UndispatchedRow(workflow_status[run[r].wf]) \in RowType
          /\ RejectedRow(workflow_status[run[r].wf]) \in RowType
      BY <2>1, <2>2, RowOperations
    <2>4. workflow_status' \in [Workflows -> RowType]
      BY <1>33, <2>3 DEF DispatchFails, RejectInput, TypeInv, TypeOK
    <2>5. env' \in [EventKinds -> Nat]
      BY <1>33, EventType DEF DispatchFails, RejectInput, EventKinds, TypeInv, TypeOK
    <2>6. /\ run' = [run EXCEPT ![r] = FreeRun]
          /\ UNCHANGED <<operation_outputs, recorder, up, runningMap>>
      BY <1>33 DEF DispatchFails, RejectInput
    <2> QED BY <2>4, <2>5, <2>6, RunOperations, TypedStep DEF TypeInv, TypeOK
  <1> QED
    BY <1>1, <1>2, <1>3, <1>4, <1>5, <1>6, <1>8, <1>9, <1>10, <1>11, <1>13, <1>14, <1>15, <1>16,
       <1>17, <1>18, <1>20, <1>22, <1>23, <1>24, <1>26, <1>27, <1>28, <1>30, <1>31, <1>32,
       <1>33
    DEF Next, RunStep, RunEvent

\* Every table, map and invocation has its type in every reachable state.
THEOREM TypeCorrect == Spec => []TypeOK
  <1>1. TypeInv /\ [Next]_vars => TypeInv'
    BY TypeInvNext
  <1>2. TypeInv => TypeOK
    BY DEF TypeInv
  <1> QED BY TypeInvInit, <1>1, <1>2, PTL DEF Spec

-----------------------------------------------------------------------------
(* Agreement.  ReplayAgreement is not inductive: that a run which finds a  *)
(* checkpoint with its own stamp takes its own value for the recorded one  *)
(* has to be carried along, and so has the shape of the log.               *)

Seen == Registered \cup {"outcome"}

\* What invocation r = rr knows of the checkpoints.
Agrees(r, rr, outputs, stamps) ==
    rr.pc \in Seen =>
        /\ \A i \in Steps : i < rr.step =>
               rr.res[i] = outputs[rr.wf][i] /\ rr.res[i] # Null
        /\ \A i \in Steps : ~(i < rr.step) => rr.res[i] = Null
        /\ rr.pc \in InFlight =>
               \A i \in Steps : i < rr.step => rr.res[i] \notin StepErrors
        /\ rr.pc \in {"record", "marker"} => rr.val \in Values
        /\ rr.pc = "exec" => stamps[rr.wf][rr.step] # r
        /\ rr.pc = "record" /\ stamps[rr.wf][rr.step] = r =>
               outputs[rr.wf][rr.step] = rr.val
        /\ rr.pc = "marker" => outputs[rr.wf][rr.step] = rr.val
        /\ rr.pc \in {"return", "outcome"} =>
               rr.step = NumSteps + 1
               \/ \E i \in Steps : i + 1 = rr.step /\ rr.res[i] \in StepErrors

\* A step has a checkpoint only after all the steps before it succeeded.
LogGrowsInOrder ==
    \A w \in Workflows : \A i, j \in Steps :
        operation_outputs[w][i] # Null /\ j < i =>
            operation_outputs[w][j] \in Values \ StepErrors

StampsMarkCheckpoints ==
    \A w \in Workflows, i \in Steps :
        operation_outputs[w][i] = Null => recorder[w][i] = Null

LogInv ==
    /\ \A r \in Runs : Agrees(r, run[r], operation_outputs, recorder)
    /\ LogGrowsInOrder
    /\ StampsMarkCheckpoints

LEMMA LogInvInit == Init => LogInv
  BY DEF Init, LogInv, Agrees, Seen, Registered, Body, FreeRun, NoResults,
         LogGrowsInOrder, StampsMarkCheckpoints

\* A step that writes no checkpoint and replaces at most one invocation.
LEMMA LogKept ==
    ASSUME TypeInv, LogInv, UNCHANGED <<operation_outputs, recorder>>,
           \/ UNCHANGED run
           \/ \E r \in Runs : \E rr : /\ Agrees(r, rr, operation_outputs, recorder)
                                      /\ run' = [run EXCEPT ![r] = rr]
    PROVE  LogInv'
  <1>1. \A r \in Runs : Agrees(r, run'[r], operation_outputs, recorder)
    <2>1. CASE UNCHANGED run
      BY <2>1 DEF LogInv
    <2>2. CASE \E r \in Runs : \E rr : /\ Agrees(r, rr, operation_outputs, recorder)
                                       /\ run' = [run EXCEPT ![r] = rr]
      <3>0. PICK r \in Runs : \E rr : /\ Agrees(r, rr, operation_outputs, recorder)
                                      /\ run' = [run EXCEPT ![r] = rr]
        BY <2>2
      <3>1. PICK rr : /\ Agrees(r, rr, operation_outputs, recorder)
                      /\ run' = [run EXCEPT ![r] = rr]
        BY <3>0
      <3>2. \A s \in Runs : run'[s] = IF s = r THEN rr ELSE run[s]
        BY <3>1 DEF TypeInv, TypeOK
      <3> QED BY <3>1, <3>2 DEF LogInv
    <2> QED BY <2>1, <2>2
  <1> QED BY <1>1 DEF LogInv, LogGrowsInOrder, StampsMarkCheckpoints

\* An invocation that has not begun, and one that has just begun, know nothing.
LEMMA FreshRunAgrees ==
    ASSUME NEW r \in Runs, NEW outputs, NEW stamps
    PROVE  /\ Agrees(r, FreeRun, outputs, stamps)
           /\ \A e, w, t : Agrees(r, [NewRun(e, w, "check") EXCEPT !.timer = t], outputs, stamps)
           /\ \A e, w : /\ Agrees(r, NewRun(e, w, "init"), outputs, stamps)
                        /\ Agrees(r, NewRun(e, w, "claimed"), outputs, stamps)
  <1>1. Agrees(r, FreeRun, outputs, stamps)
    BY DEF Agrees, FreeRun, Seen, Registered, Body
  <1>2. ASSUME NEW e, NEW w
        PROVE  /\ Agrees(r, NewRun(e, w, "init"), outputs, stamps)
               /\ Agrees(r, NewRun(e, w, "claimed"), outputs, stamps)
    BY DEF Agrees, NewRun, FreeRun, Seen, Registered, Body
  <1>3. ASSUME NEW e, NEW w, NEW t
        PROVE  Agrees(r, [NewRun(e, w, "check") EXCEPT !.timer = t], outputs, stamps)
    <2> DEFINE rr == [NewRun(e, w, "check") EXCEPT !.timer = t]
    <2>1. rr.pc = "check" /\ rr.step = 1 /\ \A i \in Steps : rr.res[i] = Null /\ ~(i < 1)
      BY DEF NewRun, FreeRun, NoResults, Steps
    <2> HIDE DEF rr
    <2>2. Agrees(r, rr, outputs, stamps)
      BY <2>1 DEF Agrees, InFlight
    <2> QED BY <2>2 DEF rr
  <1> QED BY <1>1, <1>2, <1>3

LEMMA DispatchAgrees ==
    ASSUME TypeInv, NEW r \in Runs, NEW e, NEW w, NEW d, Dispatch(r, e, w, d)
    PROVE  \E s \in Runs : \E rr : /\ Agrees(s, rr, operation_outputs, recorder)
                                   /\ run' = [run EXCEPT ![s] = rr]
  <1>1. CASE w \in runningMap[e]
    BY <1>1, FreshRunAgrees DEF Dispatch
  <1>2. CASE w \notin runningMap[e]
    BY <1>2, FreshRunAgrees DEF Dispatch
  <1> QED BY <1>1, <1>2

\* The invocation goes on with the recorded result of its current step.
LEMMA AdvancedAgrees ==
    ASSUME TypeInv, LogInv, NEW r \in Runs, run[r].pc \in InFlight,
           NEW v \in Values, operation_outputs[run[r].wf][run[r].step] = v
    PROVE  Agrees(r, Advanced(run[r], v), operation_outputs, recorder)
  <1> DEFINE rr == Advanced(run[r], v)
             k == run[r].step
  <1>1. /\ run[r] \in RunType /\ k \in Steps /\ run[r].res \in Results
        /\ Agrees(r, run[r], operation_outputs, recorder) /\ run[r].pc \in Seen
    BY DEF TypeInv, TypeOK, Owned, RunType, Results, LogInv, InFlight, Seen, Registered, Body
  <1>2. v # Null /\ k \in Nat /\ NumSteps \in Nat
    BY <1>1, ConstantsAssumption DEF Steps
  <1>3. /\ rr.res = [run[r].res EXCEPT ![k] = v] /\ rr.step = k + 1 /\ rr.wf = run[r].wf
        /\ rr.pc = IF v \in StepErrors \/ k = NumSteps THEN "return" ELSE "check"
    BY <1>1 DEF Advanced, RunType
  <1> HIDE DEF rr
  <1>4. \A i \in Steps : rr.res[i] = IF i = k THEN v ELSE run[r].res[i]
    BY <1>1, <1>3 DEF Results
  <1>5. \A i \in Steps : i \in Nat /\ (i < k + 1 <=> i < k \/ i = k)
    BY <1>1 DEF Steps
  <1>6. \A i \in Steps : i < rr.step => rr.res[i] = operation_outputs[rr.wf][i] /\ rr.res[i] # Null
    BY <1>1, <1>2, <1>3, <1>4, <1>5 DEF Agrees
  <1>7. \A i \in Steps : ~(i < rr.step) => rr.res[i] = Null
    BY <1>1, <1>3, <1>4, <1>5 DEF Agrees
  <1>8. rr.pc \in InFlight => \A i \in Steps : i < rr.step => rr.res[i] \notin StepErrors
    BY <1>1, <1>3, <1>4, <1>5 DEF Agrees, InFlight
  <1>9. rr.pc \in {"return", "outcome"} =>
            rr.step = NumSteps + 1 \/ \E i \in Steps : i + 1 = rr.step /\ rr.res[i] \in StepErrors
    BY <1>1, <1>3, <1>4
  <1>10. rr.pc \notin {"record", "marker", "exec"}
    BY <1>3
  <1>11. Agrees(r, rr, operation_outputs, recorder)
    BY <1>6, <1>7, <1>8, <1>9, <1>10 DEF Agrees
  <1> QED BY <1>11 DEF rr

\* Recording a new checkpoint, at a step all the runs before it succeeded at.
LEMMA LogRecorded ==
    ASSUME TypeInv, LogInv, NEW r \in Runs, RecordStep(r) PROVE LogInv'
  <1> DEFINE w == run[r].wf
             k == run[r].step
             v == run[r].val
  <1>1. /\ w \in Workflows /\ k \in Steps /\ v \in Values /\ v # Null
        /\ Agrees(r, run[r], operation_outputs, recorder) /\ run[r].pc = "record"
        /\ operation_outputs[w][k] = Null
    <2>1. /\ w \in Workflows /\ k \in Steps /\ run[r].pc = "record"
          /\ Agrees(r, run[r], operation_outputs, recorder) /\ operation_outputs[w][k] = Null
      BY DEF RecordStep, TypeInv, TypeOK, Owned, InFlight, LogInv
    <2>2. v \in Values
      BY <2>1 DEF Agrees, Seen, Registered, Body
    <2> QED BY <2>1, <2>2, ConstantsAssumption
  <1>2. \A x \in Workflows, i \in Steps :
            /\ operation_outputs'[x][i] = IF x = w /\ i = k THEN v ELSE operation_outputs[x][i]
            /\ recorder'[x][i] = IF x = w /\ i = k THEN r ELSE recorder[x][i]
    BY <1>1 DEF RecordStep, TypeInv, TypeOK
  <1>3. \A s \in Runs : run'[s] = IF s = r THEN [run[r] EXCEPT !.pc = "marker"] ELSE run[s]
    BY DEF RecordStep, TypeInv, TypeOK
  <1>4. \A i \in Steps : i < k => operation_outputs[w][i] \in Values \ StepErrors
    <2> SUFFICES ASSUME NEW i \in Steps, i < k PROVE operation_outputs[w][i] \in Values \ StepErrors
      OBVIOUS
    <2>1. /\ run[r].res[i] = operation_outputs[w][i] /\ run[r].res[i] # Null
          /\ run[r].res[i] \notin StepErrors
      BY <1>1 DEF Agrees, Seen, Registered, Body, InFlight
    <2>2. operation_outputs[w][i] \in Values \cup {Null}
      BY <1>1 DEF TypeInv, TypeOK
    <2> QED BY <2>1, <2>2
  <1>5. LogGrowsInOrder'
    <2> SUFFICES ASSUME NEW x \in Workflows, NEW i \in Steps, NEW j \in Steps,
                        operation_outputs'[x][i] # Null, j < i
                 PROVE  operation_outputs'[x][j] \in Values \ StepErrors
      BY DEF LogGrowsInOrder
    <2>1. CASE x = w /\ i = k
      <3>1. j # k
        BY <2>1 DEF Steps
      <3> QED BY <1>2, <1>4, <2>1, <3>1
    <2>2. CASE ~(x = w /\ i = k)
      <3>1. operation_outputs[x][i] # Null
        BY <1>2, <2>2
      <3>2. operation_outputs[x][j] \in Values \ StepErrors
        BY <3>1 DEF LogInv, LogGrowsInOrder
      <3>3. ~(x = w /\ j = k)
        BY <1>1, <3>2, ConstantsAssumption
      <3> QED BY <1>2, <3>2, <3>3
    <2> QED BY <2>1, <2>2
  <1>6. StampsMarkCheckpoints'
    BY <1>1, <1>2 DEF StampsMarkCheckpoints, LogInv
  <1>7. ASSUME NEW s \in Runs, s # r
        PROVE  Agrees(s, run[s], operation_outputs', recorder')
    <2> SUFFICES ASSUME run[s].pc \in Seen
                 PROVE  Agrees(s, run[s], operation_outputs', recorder')
      BY DEF Agrees
    <2>0. \A x \in Workflows, i \in Steps : recorder'[x][i] = s =>
              recorder[x][i] = s /\ operation_outputs'[x][i] = operation_outputs[x][i]
      BY <1>2, <1>7
    <2>1. /\ run[s].wf \in Workflows /\ Agrees(s, run[s], operation_outputs, recorder)
          /\ run[s].pc \in InFlight => run[s].step \in Steps
      BY DEF TypeInv, TypeOK, Owned, Seen, Registered, Body, LogInv
    <2>2. \A i \in Steps : i < run[s].step =>
              run[s].res[i] = operation_outputs'[run[s].wf][i] /\ run[s].res[i] # Null
      BY <1>1, <1>2, <2>1 DEF Agrees
    <2>3. run[s].pc = "exec" => recorder'[run[s].wf][run[s].step] # s
      BY <2>0, <2>1 DEF Agrees, InFlight
    <2>4. run[s].pc = "record" /\ recorder'[run[s].wf][run[s].step] = s =>
              operation_outputs'[run[s].wf][run[s].step] = run[s].val
      BY <2>0, <2>1 DEF Agrees, InFlight
    <2>5. ASSUME run[s].pc = "marker"
          PROVE  operation_outputs'[run[s].wf][run[s].step] = run[s].val
      <3>1. /\ operation_outputs[run[s].wf][run[s].step] = run[s].val /\ run[s].val \in Values
            /\ run[s].step \in Steps
        BY <2>1, <2>5 DEF Agrees, InFlight
      <3>2. run[s].val # Null
        BY <3>1, ConstantsAssumption
      <3> QED BY <1>1, <1>2, <2>1, <3>1, <3>2
    <2> QED BY <2>1, <2>2, <2>3, <2>4, <2>5 DEF Agrees
  <1>8. Agrees(r, [run[r] EXCEPT !.pc = "marker"], operation_outputs', recorder')
    <2> DEFINE rr == [run[r] EXCEPT !.pc = "marker"]
    <2>1. /\ rr.pc = "marker" /\ rr.step = k /\ rr.wf = w /\ rr.val = v /\ rr.res = run[r].res
      BY DEF TypeInv, TypeOK, RunType
    <2> HIDE DEF rr
    <2>2. operation_outputs'[w][k] = v
      BY <1>1, <1>2
    <2>3. \A i \in Steps : i < k => i # k
      BY <1>1 DEF Steps
    <2>4. \A i \in Steps : i < k => rr.res[i] = operation_outputs'[w][i] /\ rr.res[i] # Null
      BY <1>1, <1>2, <2>1, <2>3 DEF Agrees, Seen, Registered, Body
    <2>5. /\ \A i \in Steps : ~(i < k) => rr.res[i] = Null
          /\ \A i \in Steps : i < k => rr.res[i] \notin StepErrors
      BY <1>1, <2>1 DEF Agrees, Seen, Registered, Body, InFlight
    <2>6. Agrees(r, rr, operation_outputs', recorder')
      BY <1>1, <2>1, <2>2, <2>4, <2>5 DEF Agrees
    <2> QED BY <2>6 DEF rr
  <1> QED BY <1>3, <1>5, <1>6, <1>7, <1>8 DEF LogInv

\* A change of an invocation that keeps what it knows.
LEMMA MovedAgrees ==
    ASSUME TypeInv, LogInv, NEW r \in Runs, NEW rr,
           run[r].pc \in Seen,
           rr.wf = run[r].wf, rr.step = run[r].step, rr.res = run[r].res,
           \/ rr.pc \in {"unwind", "conflict"}
           \/ rr.pc = run[r].pc /\ rr.val = run[r].val
           \/ rr.pc = "outcome" /\ run[r].pc = "return"
           \/ rr.pc = "exec" /\ run[r].pc = "check" /\ recorder[rr.wf][rr.step] = Null
           \/ rr.pc = "record" /\ run[r].pc = "exec" /\ rr.val \in Values
           \/ /\ rr.pc = "marker" /\ run[r].pc = "record" /\ rr.val = run[r].val
              /\ recorder[rr.wf][rr.step] = r
           \/ rr.pc = "record" /\ run[r].pc = "marker" /\ rr.val = run[r].val
    PROVE  Agrees(r, rr, operation_outputs, recorder)
  <1>1. Agrees(r, run[r], operation_outputs, recorder)
    BY DEF LogInv
  <1>2. r # Null
    BY ConstantsAssumption
  <1> QED BY <1>1, <1>2 DEF Agrees, InFlight

\* Every step keeps LogInv when no two executors finish a step in one millisecond.
LEMMA LogInvNext ==
    ASSUME ~SameMs, TypeInv, LogInv, [Next]_vars PROVE LogInv'
  <1>0. \A r \in Runs : run[r] \in RunType /\ run \in [Runs -> RunType]
    BY DEF TypeInv, TypeOK
  <1>1. ASSUME NEW e \in Executors, NEW w \in Workflows, NEW r \in Runs,
               \/ StartWorkflow(e, w, r) \/ StartWorkflowAckLost(e, w, r)
               \/ FindAndMarkStartable(e, w, r)
        PROVE  LogInv'
    <2>1. CASE StartWorkflow(e, w, r)
      <3>1. Dispatch(r, e, w, w \in Timed) /\ UNCHANGED <<operation_outputs, recorder>>
        BY <2>1 DEF StartWorkflow
      <3> QED BY <3>1, DispatchAgrees, LogKept
    <2>2. CASE StartWorkflowAckLost(e, w, r)
      BY <2>2, FreshRunAgrees, LogKept DEF StartWorkflowAckLost
    <2>3. CASE FindAndMarkStartable(e, w, r)
      BY <2>3, FreshRunAgrees, LogKept DEF FindAndMarkStartable
    <2> QED BY <1>1, <2>1, <2>2, <2>3
  <1>2. ASSUME UNCHANGED <<operation_outputs, recorder, run>> PROVE LogInv'
    BY <1>2, LogKept
  <1>3. ASSUME NEW r \in Runs, ExecuteWorkflowId(r) PROVE LogInv'
    <2> DEFINE rr == [run[r] EXCEPT !.pc = "loaded",
                                    !.queued = workflow_status[run[r].wf].queued]
    <2>1. Agrees(r, rr, operation_outputs, recorder)
      BY <1>0 DEF Agrees, RunType, Seen, Registered, Body
    <2>2. run' = [run EXCEPT ![r] = rr] /\ UNCHANGED <<operation_outputs, recorder>>
      BY <1>0, <1>3 DEF ExecuteWorkflowId
    <2> HIDE DEF rr
    <2> QED BY <2>1, <2>2, LogKept
  <1>4. ASSUME NEW r \in Runs, InitWorkflowStatus(r) PROVE LogInv'
    <2>1. UNCHANGED <<operation_outputs, recorder>>
      BY <1>4 DEF InitWorkflowStatus
    <2>2. CASE Exhausted(InitializedRow(r))
      BY <1>4, <2>1, <2>2, FreshRunAgrees, LogKept DEF InitWorkflowStatus
    <2>3. CASE ~Exhausted(InitializedRow(r))
      <3>1. Dispatch(r, run[r].exec, run[r].wf, InitializedRow(r).deadline)
        BY <1>4, <2>3 DEF InitWorkflowStatus
      <3> QED BY <2>1, <3>1, DispatchAgrees, LogKept
    <2> QED BY <2>2, <2>3
  <1>5. ASSUME NEW r \in Runs, CheckStep(r) PROVE LogInv'
    <2>1. /\ run[r].pc = "check" /\ run[r].pc \in Seen /\ run[r].pc \in InFlight
          /\ run[r].wf \in Workflows /\ run[r].step \in Steps
          /\ UNCHANGED <<operation_outputs, recorder>>
      BY <1>5 DEF CheckStep, Seen, Registered, Body, InFlight, TypeInv, TypeOK, Owned
    <2>2. CASE IsCancelled(run[r].wf)
      <3> DEFINE rr == [run[r] EXCEPT !.pc = "unwind"]
      <3>1. rr.pc = "unwind" /\ rr.wf = run[r].wf /\ rr.step = run[r].step /\ rr.res = run[r].res
        BY <1>0 DEF RunType
      <3>2. run' = [run EXCEPT ![r] = rr]
        BY <1>5, <2>2 DEF CheckStep
      <3> HIDE DEF rr
      <3> QED BY <2>1, <3>1, <3>2, MovedAgrees, LogKept
    <2>3. CASE ~IsCancelled(run[r].wf) /\ operation_outputs[run[r].wf][run[r].step] # Null
      <3>1. operation_outputs[run[r].wf][run[r].step] \in Values
        BY <2>1, <2>3 DEF TypeInv, TypeOK
      <3>2. run' = [run EXCEPT ![r] =
                       Advanced(run[r], operation_outputs[run[r].wf][run[r].step])]
        BY <1>5, <2>3 DEF CheckStep
      <3> QED BY <2>1, <3>1, <3>2, AdvancedAgrees, LogKept
    <2>4. CASE ~IsCancelled(run[r].wf) /\ operation_outputs[run[r].wf][run[r].step] = Null
      <3> DEFINE rr == [run[r] EXCEPT !.pc = "exec"]
      <3>1. rr.pc = "exec" /\ rr.wf = run[r].wf /\ rr.step = run[r].step /\ rr.res = run[r].res
        BY <1>0 DEF RunType
      <3>2. run' = [run EXCEPT ![r] = rr]
        BY <1>5, <2>4 DEF CheckStep
      <3>3. recorder[run[r].wf][run[r].step] = Null
        BY <2>1, <2>4 DEF LogInv, StampsMarkCheckpoints
      <3> HIDE DEF rr
      <3> QED BY <2>1, <3>1, <3>2, <3>3, MovedAgrees, LogKept
    <2> QED BY <2>2, <2>3, <2>4
  <1>6. ASSUME NEW r \in Runs, NEW v \in Values, ExecuteStep(r, v) PROVE LogInv'
    <2> DEFINE rr == [run[r] EXCEPT !.pc = "record", !.val = v]
    <2>1. /\ rr.pc = "record" /\ rr.wf = run[r].wf /\ rr.step = run[r].step
          /\ rr.res = run[r].res /\ rr.val = v
      BY <1>0 DEF RunType
    <2>2. /\ run' = [run EXCEPT ![r] = rr] /\ UNCHANGED <<operation_outputs, recorder>>
          /\ run[r].pc = "exec" /\ run[r].pc \in Seen
      BY <1>0, <1>6 DEF ExecuteStep, Seen, Registered, Body
    <2> HIDE DEF rr
    <2> QED BY <2>1, <2>2, MovedAgrees, LogKept
  <1>7. ASSUME NEW r \in Runs, RetriedStepCancelled(r) PROVE LogInv'
    <2> DEFINE rr == [run[r] EXCEPT !.pc = "unwind"]
    <2>1. rr.pc = "unwind" /\ rr.wf = run[r].wf /\ rr.step = run[r].step /\ rr.res = run[r].res
      BY <1>0 DEF RunType
    <2>2. /\ run' = [run EXCEPT ![r] = rr] /\ UNCHANGED <<operation_outputs, recorder>>
          /\ run[r].pc \in Seen
      BY <1>0, <1>7 DEF RetriedStepCancelled, Seen, Registered, Body
    <2> HIDE DEF rr
    <2> QED BY <2>1, <2>2, MovedAgrees, LogKept
  <1>8. ASSUME NEW r \in Runs, RecordStep(r) PROVE LogInv'
    BY <1>8, LogRecorded
  <1>9. ASSUME NEW r \in Runs, RecordStepAgain(r) PROVE LogInv'
    <2> DEFINE rr == [run[r] EXCEPT !.pc = "marker"]
    <2>1. /\ rr.pc = "marker" /\ rr.wf = run[r].wf /\ rr.step = run[r].step
          /\ rr.res = run[r].res /\ rr.val = run[r].val
      BY <1>0 DEF RunType
    <2>2. /\ run' = [run EXCEPT ![r] = rr] /\ UNCHANGED <<operation_outputs, recorder>>
          /\ run[r].pc = "record" /\ run[r].pc \in Seen /\ recorder[run[r].wf][run[r].step] = r
      BY <1>0, <1>9 DEF RecordStepAgain, OwnStamp, Seen, Registered, Body
    <2> HIDE DEF rr
    <2> QED BY <2>1, <2>2, MovedAgrees, LogKept
  <1>10. ASSUME NEW r \in Runs, RecordStepConflict(r) PROVE LogInv'
    <2> DEFINE rr == IF run[r].timer = "fired" THEN [run[r] EXCEPT !.pc = "unwind"]
                     ELSE [run[r] EXCEPT !.pc = "conflict", !.timer = "off"]
    <2>1. /\ rr.pc \in {"unwind", "conflict"} /\ rr.wf = run[r].wf /\ rr.step = run[r].step
          /\ rr.res = run[r].res
      BY <1>0 DEF RunType
    <2>2. /\ run' = [run EXCEPT ![r] = rr] /\ UNCHANGED <<operation_outputs, recorder>>
          /\ run[r].pc \in Seen
      BY <1>10 DEF RecordStepConflict, Seen, Registered, Body
    <2> HIDE DEF rr
    <2> QED BY <2>1, <2>2, MovedAgrees, LogKept
  <1>11. ASSUME NEW r \in Runs, ClaimMarker(r) PROVE LogInv'
    <2>1. /\ run[r].pc = "marker" /\ run[r].pc \in InFlight /\ run[r].pc \in Seen
          /\ run' = [run EXCEPT ![r] = Advanced(run[r], run[r].val)]
          /\ UNCHANGED <<operation_outputs, recorder>>
      BY <1>11 DEF ClaimMarker, InFlight, Seen, Registered, Body
    <2>2. run[r].val \in Values /\ operation_outputs[run[r].wf][run[r].step] = run[r].val
      BY <2>1 DEF LogInv, Agrees
    <2> QED BY <2>1, <2>2, AdvancedAgrees, LogKept
  <1>12. ASSUME NEW r \in Runs, RecordStepAckLost(r) PROVE LogInv'
    <2> DEFINE rr == [run[r] EXCEPT !.pc = "record"]
    <2>1. /\ rr.pc = "record" /\ rr.wf = run[r].wf /\ rr.step = run[r].step
          /\ rr.res = run[r].res /\ rr.val = run[r].val
      BY <1>0 DEF RunType
    <2>2. /\ run' = [run EXCEPT ![r] = rr] /\ UNCHANGED <<operation_outputs, recorder>>
          /\ run[r].pc = "marker" /\ run[r].pc \in Seen
      BY <1>0, <1>12 DEF RecordStepAckLost, Seen, Registered, Body
    <2> HIDE DEF rr
    <2> QED BY <2>1, <2>2, MovedAgrees, LogKept
  <1>13. ASSUME NEW r \in Runs, ReturnBody(r) PROVE LogInv'
    <2> DEFINE rr == IF run[r].timer = "fired" THEN [run[r] EXCEPT !.pc = "unwind"]
                     ELSE [run[r] EXCEPT !.pc = "outcome", !.timer = "off"]
    <2>1. /\ rr.pc \in {"unwind", "outcome"} /\ rr.wf = run[r].wf /\ rr.step = run[r].step
          /\ rr.res = run[r].res
      BY <1>0 DEF RunType
    <2>2. /\ run' = [run EXCEPT ![r] = rr] /\ UNCHANGED <<operation_outputs, recorder>>
          /\ run[r].pc = "return" /\ run[r].pc \in Seen
      BY <1>0, <1>13 DEF ReturnBody, Seen, Registered, Body
    <2> HIDE DEF rr
    <2> QED BY <2>1, <2>2, MovedAgrees, LogKept
  <1>14. ASSUME NEW r \in Runs,
                \/ RecordWorkflowOutcome(r) \/ AwaitWorkflowResult(r) \/ UnwindCancelled(r)
                \/ DispatchFails(r) \/ RejectInput(r)
         PROVE  LogInv'
    <2>1. run' = [run EXCEPT ![r] = FreeRun] /\ UNCHANGED <<operation_outputs, recorder>>
      BY <1>14 DEF RecordWorkflowOutcome, AwaitWorkflowResult, UnwindCancelled, DispatchFails,
          RejectInput
    <2> QED BY <2>1, FreshRunAgrees, LogKept
  <1>15. ASSUME NEW r \in Runs, TimeoutFires(r) PROVE LogInv'
    <2> DEFINE rr == [run[r] EXCEPT !.timer = "fired"]
    <2>1. /\ rr.pc = run[r].pc /\ rr.wf = run[r].wf /\ rr.step = run[r].step
          /\ rr.res = run[r].res /\ rr.val = run[r].val
      BY <1>0 DEF RunType
    <2>2. /\ run' = [run EXCEPT ![r] = rr] /\ UNCHANGED <<operation_outputs, recorder>>
          /\ run[r].pc \in Seen
      BY <1>0, <1>15 DEF TimeoutFires, Seen, Registered, Body
    <2> HIDE DEF rr
    <2> QED BY <2>1, <2>2, MovedAgrees, LogKept
  <1>16. ASSUME NEW e \in Executors, Crash(e) PROVE LogInv'
    <2>1. /\ run' = [r \in Runs |-> IF run[r].exec = e THEN FreeRun ELSE run[r]]
          /\ UNCHANGED <<operation_outputs, recorder>>
      BY <1>16 DEF Crash
    <2>2. \A r \in Runs : Agrees(r, run'[r], operation_outputs, recorder)
      BY <2>1, FreshRunAgrees DEF LogInv
    <2> QED BY <2>1, <2>2 DEF LogInv, LogGrowsInOrder, StampsMarkCheckpoints
  <1>17. ASSUME NEW r \in Runs, RunStep(r) \/ RunEvent(r) PROVE LogInv'
    <2>1. ASSUME InitWorkflowStatusAckLost(r) \/ RecordWorkflowOutcomeAckLost(r) PROVE LogInv'
      BY <1>2, <2>1 DEF InitWorkflowStatusAckLost, RecordWorkflowOutcomeAckLost
    <2> QED BY <1>3, <1>4, <1>5, <1>6, <1>7, <1>8, <1>9, <1>10, <1>11, <1>12, <1>13, <1>14,
               <1>15, <1>17, <2>1 DEF RunStep, RunEvent
  <1>18. ASSUME NEW e \in Executors, NEW w \in Workflows,
                EnqueueWorkflow(e, w) \/ FindAndMarkAckLost(e, w)
         PROVE  LogInv'
    BY <1>2, <1>18 DEF EnqueueWorkflow, FindAndMarkAckLost
  <1>19. ASSUME NEW w \in Workflows, CancelWorkflow(w) \/ ResumeWorkflow(w) PROVE LogInv'
    BY <1>2, <1>19 DEF CancelWorkflow, ResumeWorkflow
  <1>20. ASSUME NEW e \in Executors, Restart(e) \/ RecoverPendingWorkflows(e) PROVE LogInv'
    BY <1>2, <1>20 DEF Restart, RecoverPendingWorkflows
  <1>21. ASSUME UNCHANGED vars PROVE LogInv'
    BY <1>2, <1>21 DEF vars
  <1> QED BY <1>1, <1>16, <1>17, <1>18, <1>19, <1>20, <1>21 DEF Next

\* Whatever crashes, recoveries, cancellations and lost acknowledgments there are,
\* all runs of a workflow see the results in operation_outputs, as long as
\* completed_at stamps tell the runs of a step apart.
THEOREM RunsAgree == ASSUME ~SameMs PROVE Spec => []ReplayAgreement
  <1>1. TypeInv /\ LogInv /\ [Next]_vars => TypeInv' /\ LogInv'
    BY TypeInvNext, LogInvNext
  <1>2. TypeInv /\ LogInv => ReplayAgreement
    <2> SUFFICES ASSUME TypeInv, LogInv, NEW r \in Runs, run[r].pc \in Seen,
                        NEW i \in 1 .. run[r].step - 1
                 PROVE  run[r].res[i] = operation_outputs[run[r].wf][i]
      BY DEF ReplayAgreement, Seen
    <2>1. run[r].step \in 1 .. NumSteps + 1 /\ Agrees(r, run[r], operation_outputs, recorder)
      BY DEF TypeInv, TypeOK, RunType, LogInv
    <2>2. i \in Steps /\ i < run[r].step
      BY <2>1, ConstantsAssumption DEF Steps
    <2> QED BY <2>1, <2>2 DEF Agrees
  <1> QED BY TypeInvInit, LogInvInit, <1>1, <1>2, PTL DEF Spec

-----------------------------------------------------------------------------
(* Recovery, and that a workflow has one runner as long as recovery is     *)
(* only asked for executors that are dead and nobody resumes a workflow:   *)
(* what an invocation can do, seen from recovery.                          *)

\* To the row of its workflow: end it, and put its own executor ID there.
RowByRun(r) ==
    LET old == workflow_status[run[r].wf]
        new == workflow_status'[run[r].wf]
    IN  /\ \A w \in Workflows \ {run[r].wf} : workflow_status'[w] = workflow_status[w]
        /\ new.status = old.status \/ new.status \in Settled
        /\ new.executor_id \in {old.executor_id, run[r].exec}
        /\ run[r].pc = "loaded" /\ old.status # "ENQUEUED" =>
               new.recovery_attempts = old.recovery_attempts + 1
        /\ run[r].pc # "loaded" => new.recovery_attempts = old.recovery_attempts
        /\ new.status = "MAX_RECOVERY_ATTEMPTS_EXCEEDED" =>
               new.status = old.status \/ Exhausted(new)

\* initWorkflowStatus lets the invocation go on to the workflow function.
Admitted(r) == run[r].pc \in {"init", "loaded"} /\ ~Exhausted(workflow_status'[run[r].wf])

\* To itself: go on for the same workflow, or end.
RunByRun(r) ==
    LET rr == run'[r]
        new == workflow_status'[run[r].wf]
    IN  /\ run[r].pc # "free" /\ \A s \in Runs \ {r} : run'[s] = run[s]
        /\ \/ rr.pc # "free" /\ rr.wf = run[r].wf /\ rr.exec = run[r].exec
           \/ /\ rr.pc = "free"
              /\ \/ new.status # "PENDING" \/ run[r].pc \in {"conflict", "unwind"}
                 \/ run[r].pc \in {"init", "loaded"} /\ run[r].wf \in runningMap[run[r].exec]
                 \/ run[r].pc = "claimed" /\ new.undispatched
        /\ rr.pc \in Registered => run[r].pc \in Registered \/ Admitted(r)
        /\ rr.pc = "init" => run[r].pc = "init"
        /\ rr.pc \in {"claimed", "loaded"} => run[r].pc \in {"claimed", "loaded"}
        /\ rr.pc = "unwind" \/ rr.timer = "fired" =>
               run[r].pc = "unwind" \/ run[r].timer = "fired" \/ new.status # "PENDING"

\* To the counts of events: an upsert that is repeated was not acknowledged.
EventsByRun(r) ==
    /\ env'["crashes"] = env["crashes"]
    /\ \/ env'["lostAcks"] = env["lostAcks"]
       \/ env'["lostAcks"] = env["lostAcks"] + 1
    /\ run[r].pc = "loaded" /\ run'[r].pc \in {"claimed", "loaded"} =>
           env'["lostAcks"] = env["lostAcks"] + 1

RunAction(r) == UNCHANGED up /\ RowByRun(r) /\ RunByRun(r) /\ EventsByRun(r)

\* The row stays as it is, and the invocation goes on.
LEMMA GoesOn ==
    ASSUME TypeInv, NEW r \in Runs, NEW rr, run' = [run EXCEPT ![r] = rr],
           UNCHANGED <<workflow_status, up>>, EventsByRun(r),
           run[r].pc \notin {"free", "loaded"}, rr.wf = run[r].wf, rr.exec = run[r].exec,
           rr.pc \notin {"free", "init", "claimed"},
           rr.pc \in Registered => run[r].pc \in Registered,
           rr.pc = "loaded" => run[r].pc = "claimed",
           rr.pc = "unwind" \/ rr.timer = "fired" =>
               \/ run[r].pc = "unwind" \/ run[r].timer = "fired"
               \/ workflow_status[run[r].wf].status = "CANCELLED"
    PROVE  RunAction(r)
  <1>1. run'[r] = rr /\ \A s \in Runs \ {r} : run'[s] = run[s]
    BY DEF TypeInv, TypeOK
  <1>2. RowByRun(r)
    BY DEF RowByRun
  <1>3. RunByRun(r)
    BY <1>1 DEF RunByRun, Settled
  <1> QED BY <1>2, <1>3 DEF RunAction

\* What initWorkflowStatus leaves of a row.
LEMMA InitializedRowFacts ==
    ASSUME TypeInv, NEW r \in Runs, run[r].pc \in {"init", "loaded"}
    PROVE  LET old == workflow_status[run[r].wf]
               new == InitializedRow(r)
           IN  /\ old \in RowType /\ run[r].wf \in Workflows
               /\ new.status = old.status \/ new.status = "MAX_RECOVERY_ATTEMPTS_EXCEEDED"
               /\ new.executor_id \in {old.executor_id, run[r].exec}
               /\ run[r].pc = "init" => new.recovery_attempts = old.recovery_attempts
               /\ run[r].pc = "loaded" /\ old.status # "ENQUEUED" =>
                      new.recovery_attempts = old.recovery_attempts + 1
               /\ Exhausted(new) => new.status # "PENDING"
               /\ new.status = "MAX_RECOVERY_ATTEMPTS_EXCEEDED" =>
                      new.status = old.status \/ Exhausted(new)
  <1> DEFINE old == workflow_status[run[r].wf]
             inc == IF run[r].pc = "init" THEN 0 ELSE 1
             ex == IF run[r].pc = "init" THEN "PENDING"
                   ELSE IF run[r].queued THEN "ENQUEUED" ELSE "PENDING"
             up1 == UpsertedRow(old, run[r].exec, ex, inc)
  <1>1. run[r].wf \in Workflows /\ old \in RowType
    BY DEF TypeInv, TypeOK
  <1>2. InitializedRow(r) = IF Exhausted(up1) THEN ExhaustedRow(up1) ELSE up1
    BY DEF InitializedRow
  <1>3. inc \in Nat /\ (run[r].pc = "init" => inc = 0) /\ (run[r].pc = "loaded" => inc = 1)
    OBVIOUS
  <1> HIDE DEF inc, ex, old
  <1>4. PICK u : u = up1
    OBVIOUS
  <1>5. /\ u.status = old.status /\ u.executor_id \in {old.executor_id, run[r].exec}
        /\ u.recovery_attempts = IF old.status = "ENQUEUED" THEN old.recovery_attempts
                                 ELSE old.recovery_attempts + inc
        /\ u = [status |-> u.status, executor_id |-> u.executor_id,
                recovery_attempts |-> u.recovery_attempts, queued |-> u.queued,
                deadline |-> u.deadline, outcome |-> u.outcome,
                undispatched |-> u.undispatched]
    BY <1>1, <1>4 DEF UpsertedRow, RowType
  <1>6. old.recovery_attempts \in Nat
    BY <1>1 DEF RowType
  <1>7. /\ ExhaustedRow(u).status # "PENDING"
        /\ ExhaustedRow(u).status \in {u.status, "MAX_RECOVERY_ATTEMPTS_EXCEEDED"}
        /\ ExhaustedRow(u).executor_id = u.executor_id
        /\ ExhaustedRow(u).recovery_attempts = u.recovery_attempts
    BY <1>5 DEF ExhaustedRow
  <1> HIDE DEF up1
  <1>8. PICK new : new = InitializedRow(r)
    OBVIOUS
  <1>9. /\ new.status \in {u.status, "MAX_RECOVERY_ATTEMPTS_EXCEEDED"}
        /\ new.executor_id = u.executor_id /\ new.recovery_attempts = u.recovery_attempts
        /\ Exhausted(u) => new.status # "PENDING"
        /\ ~Exhausted(u) => new.status = u.status
    BY <1>2, <1>4, <1>7, <1>8
  <1>10. Exhausted(new) <=> Exhausted(u)
    BY <1>9 DEF Exhausted
  <1> QED BY <1>1, <1>3, <1>5, <1>6, <1>8, <1>9, <1>10 DEF old

LEMMA InitRunAction ==
    ASSUME TypeInv, NEW r \in Runs, InitWorkflowStatus(r) \/ InitWorkflowStatusAckLost(r)
    PROVE  RunAction(r)
  <1> DEFINE w == run[r].wf
             e == run[r].exec
  <1>0. /\ run \in [Runs -> RunType] /\ workflow_status \in [Workflows -> RowType]
        /\ env \in [EventKinds -> Nat]
    BY DEF TypeInv, TypeOK
  <1>1. run[r].pc \in {"init", "loaded"} /\ UNCHANGED up /\ w \in Workflows
    BY DEF InitWorkflowStatus, InitWorkflowStatusAckLost, TypeInv, TypeOK
  <1>2. PICK new : new = InitializedRow(r)
    OBVIOUS
  <1>3. workflow_status' = [workflow_status EXCEPT ![w] = new]
    BY <1>2 DEF InitWorkflowStatus, InitWorkflowStatusAckLost
  <1>4. workflow_status'[w] = new /\ \A x \in Workflows \ {w} : workflow_status'[x] = workflow_status[x]
    BY <1>0, <1>1, <1>3
  <1>5. /\ new.status = workflow_status[w].status \/ new.status = "MAX_RECOVERY_ATTEMPTS_EXCEEDED"
        /\ new.executor_id \in {workflow_status[w].executor_id, e}
        /\ run[r].pc = "init" => new.recovery_attempts = workflow_status[w].recovery_attempts
        /\ run[r].pc = "loaded" /\ workflow_status[w].status # "ENQUEUED" =>
               new.recovery_attempts = workflow_status[w].recovery_attempts + 1
        /\ Exhausted(new) => new.status # "PENDING"
        /\ new.status = "MAX_RECOVERY_ATTEMPTS_EXCEEDED" =>
               new.status = workflow_status[w].status \/ Exhausted(new)
    BY <1>1, <1>2, InitializedRowFacts
  <1>6. RowByRun(r)
    BY <1>1, <1>4, <1>5 DEF RowByRun, Settled
  <1>7. CASE InitWorkflowStatusAckLost(r)
    <2>1. UNCHANGED run
      BY <1>7 DEF InitWorkflowStatusAckLost
    <2>2. EventsByRun(r)
      BY <1>0, <1>7 DEF InitWorkflowStatusAckLost, Event, EventsByRun, EventKinds
    <2>3. RunByRun(r)
      BY <1>1, <2>1 DEF RunByRun, Registered, Body
    <2> QED BY <1>1, <1>6, <2>2, <2>3 DEF RunAction
  <1>8. CASE InitWorkflowStatus(r)
    <2>1. UNCHANGED env
      BY <1>8 DEF InitWorkflowStatus
    <2>2. \/ /\ Exhausted(new) \/ w \in runningMap[e]
             /\ run' = [run EXCEPT ![r] = FreeRun]
          \/ /\ ~Exhausted(new)
             /\ run' = [run EXCEPT ![r] =
                    [NewRun(e, w, "check") EXCEPT !.timer = IF new.deadline THEN "armed" ELSE "off"]]
      BY <1>2, <1>8 DEF InitWorkflowStatus, Dispatch
    <2>3. CASE (Exhausted(new) \/ w \in runningMap[e]) /\ run' = [run EXCEPT ![r] = FreeRun]
      <3>1. run'[r] = FreeRun /\ \A s \in Runs \ {r} : run'[s] = run[s]
        BY <1>0, <2>3
      <3>2. FreeRun.pc = "free" /\ FreeRun.timer = "off"
        BY DEF FreeRun
      <3>3. EventsByRun(r)
        BY <2>1, <3>1, <3>2 DEF EventsByRun
      <3>4. RunByRun(r)
        BY <1>1, <1>4, <1>5, <2>3, <3>1, <3>2 DEF RunByRun, Registered, Body
      <3> QED BY <1>1, <1>6, <3>3, <3>4 DEF RunAction
    <2>4. ASSUME ~Exhausted(new), NEW t \in {"off", "armed"},
                 run' = [run EXCEPT ![r] = [NewRun(e, w, "check") EXCEPT !.timer = t]]
          PROVE  RunAction(r)
      <3>1. PICK rr : rr = [NewRun(e, w, "check") EXCEPT !.timer = t]
        OBVIOUS
      <3>2. rr.pc = "check" /\ rr.exec = e /\ rr.wf = w /\ rr.timer = t
        BY <3>1 DEF NewRun, FreeRun
      <3>3. run'[r] = rr /\ \A s \in Runs \ {r} : run'[s] = run[s]
        BY <1>0, <2>4, <3>1
      <3>4. EventsByRun(r)
        BY <2>1, <3>2, <3>3 DEF EventsByRun
      <3>5. Admitted(r)
        BY <1>1, <1>4, <2>4 DEF Admitted
      <3>6. RunByRun(r)
        BY <1>1, <2>4, <3>2, <3>3, <3>5 DEF RunByRun
      <3> QED BY <1>1, <1>6, <3>4, <3>6 DEF RunAction
    <2> QED BY <2>2, <2>3, <2>4
  <1> QED BY <1>7, <1>8

LEMMA RunActions ==
    ASSUME TypeInv, NEW r \in Runs, RunStep(r) \/ RunEvent(r)
    PROVE  RunAction(r)
  <1>0. /\ run \in [Runs -> RunType] /\ run[r] \in RunType
        /\ workflow_status \in [Workflows -> RowType] /\ env \in [EventKinds -> Nat]
        /\ run[r].pc # "free" => run[r].wf \in Workflows
    BY DEF TypeInv, TypeOK
  <1>1. ASSUME UNCHANGED env, run[r].pc # "loaded" PROVE EventsByRun(r)
    BY <1>1 DEF EventsByRun
  <1>2. CASE ExecuteWorkflowId(r)
    <2> DEFINE rr == [run[r] EXCEPT !.pc = "loaded",
                                    !.queued = workflow_status[run[r].wf].queued]
    <2>1. /\ rr.pc = "loaded" /\ rr.exec = run[r].exec /\ rr.wf = run[r].wf
          /\ rr.timer = run[r].timer
      BY <1>0 DEF RunType
    <2>2. run' = [run EXCEPT ![r] = rr] /\ UNCHANGED <<workflow_status, up>>
      BY <1>0, <1>2 DEF ExecuteWorkflowId
    <2>3. run[r].pc = "claimed" /\ EventsByRun(r)
      BY <1>1, <1>2 DEF ExecuteWorkflowId
    <2> HIDE DEF rr
    <2> QED BY <2>1, <2>2, <2>3, GoesOn DEF Registered, Body
  \* A registered invocation goes on.
  <1>3. ASSUME NEW rr, run' = [run EXCEPT ![r] = rr], UNCHANGED <<workflow_status, up, env>>,
               run[r].pc \in Registered, rr.pc \in Registered \cup {"outcome"},
               rr.wf = run[r].wf, rr.exec = run[r].exec,
               rr.pc = "unwind" \/ rr.timer = "fired" =>
                   \/ run[r].pc = "unwind" \/ run[r].timer = "fired"
                   \/ workflow_status[run[r].wf].status = "CANCELLED"
        PROVE  RunAction(r)
    <2>1. EventsByRun(r) /\ run[r].pc \notin {"free", "loaded"}
          /\ rr.pc \notin {"free", "init", "claimed", "loaded"}
      BY <1>1, <1>3 DEF Registered, Body
    <2> QED BY <1>3, <2>1, GoesOn
  <1>4. ASSUME NEW v, run[r].pc \in InFlight
        PROVE  LET rr == Advanced(run[r], v)
               IN  /\ rr.pc \in Registered /\ rr.exec = run[r].exec /\ rr.wf = run[r].wf
                   /\ rr.timer = run[r].timer /\ rr.pc # "unwind"
    BY <1>0 DEF Advanced, RunType, Registered, Body
  <1>5. ASSUME NEW pc \in Registered
        PROVE  LET rr == [run[r] EXCEPT !.pc = pc]
               IN  rr.pc = pc /\ rr.exec = run[r].exec /\ rr.wf = run[r].wf /\ rr.timer = run[r].timer
    BY <1>0 DEF RunType
  <1>6. CASE CheckStep(r)
    <2>1. /\ UNCHANGED <<workflow_status, up, env>> /\ run[r].pc \in InFlight
          /\ run[r].pc \in Registered /\ "unwind" \in Registered /\ "exec" \in Registered
      BY <1>6 DEF CheckStep, InFlight, Registered, Body
    <2>2. \/ /\ run' = [run EXCEPT ![r] = [run[r] EXCEPT !.pc = "unwind"]]
             /\ workflow_status[run[r].wf].status = "CANCELLED"
          \/ run' = [run EXCEPT ![r] = [run[r] EXCEPT !.pc = "exec"]]
          \/ run' = [run EXCEPT ![r] = Advanced(run[r], operation_outputs[run[r].wf][run[r].step])]
      BY <1>6 DEF CheckStep, IsCancelled
    <2>3. CASE /\ run' = [run EXCEPT ![r] = [run[r] EXCEPT !.pc = "unwind"]]
               /\ workflow_status[run[r].wf].status = "CANCELLED"
      BY <1>3, <1>4, <1>5, <2>1, <2>3
    <2>4. CASE run' = [run EXCEPT ![r] = [run[r] EXCEPT !.pc = "exec"]]
      BY <1>3, <1>4, <1>5, <2>1, <2>4
    <2>5. CASE run' = [run EXCEPT ![r] = Advanced(run[r], operation_outputs[run[r].wf][run[r].step])]
      <3>1. PICK rr : rr = Advanced(run[r], operation_outputs[run[r].wf][run[r].step])
        OBVIOUS
      <3>2. /\ rr.pc \in Registered /\ rr.exec = run[r].exec /\ rr.wf = run[r].wf
            /\ rr.timer = run[r].timer /\ rr.pc # "unwind"
        BY <1>4, <2>1, <3>1
      <3> QED BY <1>3, <2>1, <2>5, <3>1, <3>2
    <2> QED BY <2>2, <2>3, <2>4, <2>5
  <1>7. ASSUME NEW v, ExecuteStep(r, v) PROVE RunAction(r)
    <2> DEFINE rr == [run[r] EXCEPT !.pc = "record", !.val = v]
    <2>1. /\ rr.pc = "record" /\ rr.exec = run[r].exec /\ rr.wf = run[r].wf
          /\ rr.timer = run[r].timer /\ run[r].pc \in Registered /\ "record" \in Registered
      BY <1>0, <1>7 DEF ExecuteStep, RunType, Registered, Body
    <2>2. run' = [run EXCEPT ![r] = rr] /\ UNCHANGED <<workflow_status, up, env>>
      BY <1>0, <1>7 DEF ExecuteStep
    <2> HIDE DEF rr
    <2> QED BY <1>3, <2>1, <2>2
  <1>8. CASE RetriedStepCancelled(r) \/ RecordStep(r) \/ RecordStepAgain(r)
    <2>1. /\ run[r].pc \in Registered /\ UNCHANGED <<workflow_status, up, env>>
          /\ \E pc \in Registered :
                 /\ run' = [run EXCEPT ![r] = [run[r] EXCEPT !.pc = pc]]
                 /\ pc = "unwind" => workflow_status[run[r].wf].status = "CANCELLED"
      BY <1>0, <1>8 DEF RetriedStepCancelled, RecordStep, RecordStepAgain, IsCancelled,
          Registered, Body
    <2> QED BY <1>3, <1>5, <2>1
  <1>9. CASE RecordStepConflict(r)
    <2> DEFINE rr == IF run[r].timer = "fired" THEN [run[r] EXCEPT !.pc = "unwind"]
                     ELSE [run[r] EXCEPT !.pc = "conflict", !.timer = "off"]
    <2>1. /\ rr.pc \in {"unwind", "conflict"} /\ rr.exec = run[r].exec /\ rr.wf = run[r].wf
          /\ rr.pc = "unwind" \/ rr.timer = "fired" => run[r].timer = "fired"
      BY <1>0 DEF RunType
    <2>2. /\ run' = [run EXCEPT ![r] = rr] /\ UNCHANGED <<workflow_status, up, env>>
          /\ run[r].pc \in Registered
      BY <1>9 DEF RecordStepConflict, Registered, Body
    <2> HIDE DEF rr
    <2> QED BY <1>3, <2>1, <2>2 DEF Registered
  <1>10. CASE RecordStepAckLost(r)
    <2> DEFINE rr == [run[r] EXCEPT !.pc = "record"]
    <2>1. /\ run' = [run EXCEPT ![r] = rr] /\ UNCHANGED <<workflow_status, up>>
          /\ run[r].pc = "marker"
      BY <1>0, <1>10 DEF RecordStepAckLost
    <2>2. /\ rr.pc = "record" /\ rr.exec = run[r].exec /\ rr.wf = run[r].wf
          /\ rr.timer = run[r].timer
      BY <1>0 DEF RunType
    <2>3. EventsByRun(r)
      BY <1>0, <1>10 DEF RecordStepAckLost, Event, EventsByRun, EventKinds
    <2> HIDE DEF rr
    <2> QED BY <2>1, <2>2, <2>3, GoesOn DEF Registered, Body
  <1>11. CASE ReturnBody(r)
    <2>1. /\ UNCHANGED <<workflow_status, up, env>> /\ run[r].pc = "return"
          /\ \/ run[r].timer = "fired" /\ run' = [run EXCEPT ![r] = [run[r] EXCEPT !.pc = "unwind"]]
             \/ run' = [run EXCEPT ![r] = [run[r] EXCEPT !.pc = "outcome", !.timer = "off"]]
      BY <1>0, <1>11 DEF ReturnBody
    <2>2. LET rr == [run[r] EXCEPT !.pc = "outcome", !.timer = "off"]
          IN  rr.pc = "outcome" /\ rr.exec = run[r].exec /\ rr.wf = run[r].wf /\ rr.timer = "off"
      BY <1>0 DEF RunType
    <2>3. run[r].pc \in Registered /\ "unwind" \in Registered
      BY <2>1 DEF Registered, Body
    <2>4. CASE run[r].timer = "fired" /\ run' = [run EXCEPT ![r] = [run[r] EXCEPT !.pc = "unwind"]]
      BY <1>3, <1>5, <2>1, <2>3, <2>4
    <2>5. CASE run' = [run EXCEPT ![r] = [run[r] EXCEPT !.pc = "outcome", !.timer = "off"]]
      BY <1>3, <2>1, <2>2, <2>3, <2>5
    <2> QED BY <2>1, <2>4, <2>5
  \* The invocation writes the row of its workflow.
  <1>12. ASSUME NEW new, workflow_status' = [workflow_status EXCEPT ![run[r].wf] = new],
                UNCHANGED up, run[r].pc \notin {"free", "loaded"},
                new.status = workflow_status[run[r].wf].status
                    \/ new.status \in {"SUCCESS", "ERROR", "CANCELLED"},
                new.executor_id \in {workflow_status[run[r].wf].executor_id, run[r].exec},
                new.recovery_attempts = workflow_status[run[r].wf].recovery_attempts
         PROVE  RowByRun(r) /\ workflow_status'[run[r].wf] = new
    <2>1. /\ workflow_status'[run[r].wf] = new
          /\ \A w \in Workflows \ {run[r].wf} : workflow_status'[w] = workflow_status[w]
      BY <1>0, <1>12
    <2> QED BY <1>12, <2>1 DEF RowByRun, Settled
  <1>13. CASE ClaimMarker(r)
    <2> DEFINE rr == Advanced(run[r], run[r].val)
               new == [workflow_status[run[r].wf] EXCEPT !.executor_id = run[r].exec]
    <2>1. /\ run' = [run EXCEPT ![r] = rr] /\ UNCHANGED <<up, env>> /\ run[r].pc = "marker"
          /\ workflow_status' = [workflow_status EXCEPT ![run[r].wf] = new]
      BY <1>0, <1>13 DEF ClaimMarker
    <2>2. /\ rr.pc \in Registered /\ rr.exec = run[r].exec /\ rr.wf = run[r].wf
          /\ rr.timer = run[r].timer /\ rr.pc # "unwind" /\ run[r].pc \in Registered
      BY <1>4, <2>1 DEF InFlight, Registered, Body
    <2>3. /\ new.status = workflow_status[run[r].wf].status /\ new.executor_id = run[r].exec
          /\ new.recovery_attempts = workflow_status[run[r].wf].recovery_attempts
      BY <1>0, <2>1 DEF RowType
    <2> HIDE DEF rr, new
    <2>4. RowByRun(r)
      BY <1>12, <2>1, <2>3
    <2>5. run'[r] = rr /\ \A s \in Runs \ {r} : run'[s] = run[s]
      BY <1>0, <2>1
    <2>6. RunByRun(r)
      BY <2>1, <2>2, <2>5 DEF RunByRun, Registered, Body
    <2> QED BY <1>1, <2>1, <2>4, <2>6 DEF RunAction
  <1>14. CASE TimeoutFires(r)
    <2> DEFINE rr == [run[r] EXCEPT !.timer = "fired"]
               new == CancelledRow(workflow_status[run[r].wf])
    <2>1. /\ run' = [run EXCEPT ![r] = rr] /\ UNCHANGED <<up, env>> /\ run[r].pc \in Registered
          /\ workflow_status' = [workflow_status EXCEPT ![run[r].wf] = new]
      BY <1>0, <1>14 DEF TimeoutFires, Registered
    <2>2. rr.pc = run[r].pc /\ rr.exec = run[r].exec /\ rr.wf = run[r].wf
      BY <1>0 DEF RunType
    <2>3. run[r].pc \notin {"free", "loaded", "claimed", "init"} /\ run[r].wf \in Workflows
      BY <1>0, <2>1 DEF Registered, Body
    <2>4. /\ new.status \in {"NONE", "SUCCESS", "ERROR", "CANCELLED"}
          /\ new.status = workflow_status[run[r].wf].status \/ new.status = "CANCELLED"
          /\ new.executor_id = workflow_status[run[r].wf].executor_id
          /\ new.recovery_attempts = workflow_status[run[r].wf].recovery_attempts
      BY <1>0, <2>3 DEF CancelledRow, RowType
    <2> HIDE DEF rr, new
    <2>5. RowByRun(r) /\ workflow_status'[run[r].wf] = new
      BY <1>12, <2>1, <2>3, <2>4
    <2>6. run'[r] = rr /\ \A s \in Runs \ {r} : run'[s] = run[s]
      BY <1>0, <2>1
    <2>7. RunByRun(r)
      BY <2>1, <2>2, <2>3, <2>4, <2>5, <2>6 DEF RunByRun, Settled
    <2> QED BY <1>1, <2>1, <2>3, <2>5, <2>7 DEF RunAction
  <1>15. CASE RecordWorkflowOutcome(r) \/ RecordWorkflowOutcomeAckLost(r)
    <2> DEFINE new == FinishedRow(workflow_status[run[r].wf], run[r].res)
    <2>1. /\ UNCHANGED up /\ run[r].pc = "outcome"
          /\ workflow_status' = [workflow_status EXCEPT ![run[r].wf] = new]
          /\ run' = run \/ run' = [run EXCEPT ![r] = FreeRun]
      BY <1>0, <1>15 DEF RecordWorkflowOutcome, RecordWorkflowOutcomeAckLost
    <2>2. /\ new.status \in {"SUCCESS", "ERROR", "CANCELLED"}
          /\ new.executor_id = workflow_status[run[r].wf].executor_id
          /\ new.recovery_attempts = workflow_status[run[r].wf].recovery_attempts
      BY <1>0, <2>1 DEF FinishedRow, RowType
    <2>3. EventsByRun(r)
      BY <1>0, <1>15, <2>1 DEF RecordWorkflowOutcome, RecordWorkflowOutcomeAckLost, Event,
          EventsByRun, EventKinds
    <2> HIDE DEF new
    <2>4. RowByRun(r) /\ workflow_status'[run[r].wf] = new
      BY <1>12, <2>1, <2>2
    <2>5. /\ run'[r] = run[r] \/ run'[r] = FreeRun
          /\ \A s \in Runs \ {r} : run'[s] = run[s]
      BY <1>0, <2>1
    <2>6. FreeRun.pc = "free" /\ FreeRun.timer = "off"
      BY DEF FreeRun
    <2>7. ASSUME run'[r] = FreeRun PROVE RunByRun(r)
      <3>1. workflow_status'[run[r].wf].status # "PENDING" /\ run[r].pc # "free"
        BY <2>1, <2>2, <2>4
      <3> QED BY <2>5, <2>6, <2>7, <3>1 DEF RunByRun, Registered, Body
    <2>8. ASSUME run'[r] = run[r] PROVE RunByRun(r)
      <3>1. run[r].pc \notin {"free", "init", "claimed", "loaded", "unwind"}
        BY <2>1
      <3>2. workflow_status'[run[r].wf].status # "PENDING"
        BY <2>2, <2>4
      <3> QED BY <2>5, <2>8, <3>1, <3>2 DEF RunByRun
    <2>9. RunByRun(r)
      BY <2>5, <2>7, <2>8
    <2> QED BY <2>1, <2>3, <2>4, <2>9 DEF RunAction
  <1>16. CASE AwaitWorkflowResult(r) \/ UnwindCancelled(r)
    <2>1. /\ run' = [run EXCEPT ![r] = FreeRun] /\ UNCHANGED <<workflow_status, up, env>>
          /\ run[r].pc \in {"conflict", "unwind"}
      BY <1>16 DEF AwaitWorkflowResult, UnwindCancelled
    <2>2. run'[r] = FreeRun /\ \A s \in Runs \ {r} : run'[s] = run[s]
      BY <1>0, <2>1
    <2>3. RunByRun(r)
      BY <2>1, <2>2 DEF RunByRun, FreeRun, Registered, Body
    <2>4. RowByRun(r)
      BY <2>1 DEF RowByRun
    <2> QED BY <1>1, <2>1, <2>3, <2>4 DEF RunAction
  <1>17. CASE InitWorkflowStatus(r) \/ InitWorkflowStatusAckLost(r)
    BY <1>17, InitRunAction
  <1>18. CASE DispatchFails(r) \/ RejectInput(r)
    <2> DEFINE old == workflow_status[run[r].wf]
    <2>1. /\ run' = [run EXCEPT ![r] = FreeRun] /\ UNCHANGED up /\ run[r].pc = "claimed"
          /\ run[r].wf \in Workflows /\ old \in RowType
      BY <1>0, <1>18 DEF DispatchFails, RejectInput
    <2>2. run'[r] = FreeRun /\ \A s \in Runs \ {r} : run'[s] = run[s]
      BY <1>0, <2>1
    <2>3. FreeRun.pc = "free" /\ FreeRun.timer = "off"
      BY DEF FreeRun
    <2>4. PICK new : /\ workflow_status' = [workflow_status EXCEPT ![run[r].wf] = new]
                     /\ new = UndispatchedRow(old) \/ new = RejectedRow(old)
      BY <1>18 DEF DispatchFails, RejectInput
    <2>5. /\ new.executor_id = old.executor_id /\ new.recovery_attempts = old.recovery_attempts
          /\ \/ new.status = old.status /\ (new.undispatched \/ new.status # "PENDING")
             \/ new.status = "ERROR"
      BY <2>1, <2>4 DEF UndispatchedRow, RejectedRow, RowType
    <2>6. /\ workflow_status'[run[r].wf] = new
          /\ \A x \in Workflows \ {run[r].wf} : workflow_status'[x] = workflow_status[x]
      BY <1>0, <2>1, <2>4
    <2>7. RowByRun(r)
      BY <2>1, <2>5, <2>6 DEF RowByRun, Settled
    <2>8. RunByRun(r)
      BY <2>1, <2>2, <2>3, <2>5, <2>6 DEF RunByRun, Registered, Body
    <2>9. EventsByRun(r)
      BY <1>0, <1>18, <2>1 DEF DispatchFails, RejectInput, Event, EventKinds, EventsByRun
    <2> QED BY <2>1, <2>7, <2>8, <2>9 DEF RunAction
  <1> QED BY <1>2, <1>6, <1>7, <1>8, <1>9, <1>10, <1>11, <1>13, <1>14, <1>15, <1>16, <1>17, <1>18
          DEF RunStep, RunEvent

-----------------------------------------------------------------------------
(* What else can happen, seen from recovery.                               *)

\* Nothing failed that would count as a disruption.
NoDisruption == env'["crashes"] = env["crashes"] /\ env'["lostAcks"] = env["lostAcks"]

\* A workflow is started, or taken from the queue.
Begins(e, w, r) ==
    LET old == workflow_status[w]
        new == workflow_status'[w]
    IN  /\ UNCHANGED up /\ up[e] /\ run[r].pc = "free"
        /\ \A s \in Runs \ {r} : run'[s] = run[s]
        /\ \A x \in Workflows \ {w} : workflow_status'[x] = workflow_status[x]
        /\ new.status = "PENDING" /\ new.executor_id = e
        /\ \/ old.status = "NONE" /\ new.recovery_attempts = 1 /\ run'[r].pc # "claimed"
           \/ /\ old.status = "ENQUEUED" /\ new.recovery_attempts = old.recovery_attempts
              /\ run'[r].pc = "claimed"
        /\ \/ run'[r].pc = "free" /\ w \in runningMap[e]
           \/ /\ run'[r].pc \in {"check", "init", "claimed"} /\ run'[r].timer # "fired"
              /\ run'[r].wf = w /\ run'[r].exec = e
        /\ env'["crashes"] = env["crashes"]
        /\ env'["lostAcks"] = env["lostAcks"] \/ env'["lostAcks"] = env["lostAcks"] + 1

\* A workflow is enqueued, claimed by a poll that does not learn of it, or cancelled.
RowChanges(w) ==
    LET old == workflow_status[w]
        new == workflow_status'[w]
    IN  /\ UNCHANGED <<up, run>> /\ NoDisruption
        /\ \A x \in Workflows \ {w} : workflow_status'[x] = workflow_status[x]
        /\ \/ old.status = "NONE" /\ new.status = "ENQUEUED" /\ new.recovery_attempts = 0
           \/ /\ old.status = "ENQUEUED" /\ new.status = "PENDING" /\ new.undispatched
              /\ new.recovery_attempts = old.recovery_attempts
              /\ new.executor_id \in Executors /\ up[new.executor_id]
           \/ /\ new.status \in {old.status, "CANCELLED"} /\ old.status # "NONE"
              /\ new.executor_id = old.executor_id
              /\ new.recovery_attempts = old.recovery_attempts
              /\ new.undispatched = old.undispatched

\* The workflows of an executor that is down return to the queue.
Sweep(e) ==
    /\ ~up[e] /\ UNCHANGED run /\ NoDisruption
    /\ \A w \in Workflows :
           IF workflow_status[w].status = "PENDING" /\ workflow_status[w].executor_id = e
           THEN /\ workflow_status'[w].status = "ENQUEUED"
                /\ workflow_status'[w].recovery_attempts = workflow_status[w].recovery_attempts
           ELSE workflow_status'[w] = workflow_status[w]
    /\ up' = up \/ up' = [up EXCEPT ![e] = TRUE]

Fails(e) ==
    /\ UNCHANGED workflow_status
    /\ \A x \in Executors : up'[x] <=> up[x] /\ x # e
    /\ \A s \in Runs : run'[s] = IF run[s].exec = e THEN FreeRun ELSE run[s]
    /\ env'["crashes"] = env["crashes"] + 1 /\ env'["lostAcks"] = env["lostAcks"]

RecoveryStep ==
    \/ \E r \in Runs : RunAction(r)
    \/ \E e \in Executors, w \in Workflows, r \in Runs : Begins(e, w, r)
    \/ \E w \in Workflows : RowChanges(w)
    \/ \E e \in Executors : Sweep(e) \/ Fails(e)
    \/ UNCHANGED vars

LEMMA BeginActions ==
    ASSUME TypeInv, NEW e \in Executors, NEW w \in Workflows, NEW r \in Runs,
           \/ StartWorkflow(e, w, r) \/ StartWorkflowAckLost(e, w, r)
           \/ FindAndMarkStartable(e, w, r)
    PROVE  Begins(e, w, r)
  <1>0. /\ run \in [Runs -> RunType] /\ workflow_status \in [Workflows -> RowType]
        /\ env \in [EventKinds -> Nat]
    BY DEF TypeInv, TypeOK
  <1>1. UNCHANGED up /\ up[e] /\ run[r].pc = "free"
    BY DEF StartWorkflow, StartWorkflowAckLost, FindAndMarkStartable
  <1>2. /\ env'["crashes"] = env["crashes"]
        /\ env'["lostAcks"] = env["lostAcks"] \/ env'["lostAcks"] = env["lostAcks"] + 1
    BY <1>0 DEF StartWorkflow, StartWorkflowAckLost, FindAndMarkStartable, Event, EventKinds
  <1>3. ASSUME NEW rr, run' = [run EXCEPT ![r] = rr],
               NEW new, workflow_status' = [workflow_status EXCEPT ![w] = new],
               new.status = "PENDING", new.executor_id = e,
               \/ /\ workflow_status[w].status = "NONE" /\ new.recovery_attempts = 1
                  /\ rr.pc # "claimed"
               \/ /\ workflow_status[w].status = "ENQUEUED"
                  /\ new.recovery_attempts = workflow_status[w].recovery_attempts
                  /\ rr.pc = "claimed",
               \/ rr.pc = "free" /\ w \in runningMap[e]
               \/ /\ rr.pc \in {"check", "init", "claimed"} /\ rr.timer # "fired"
                  /\ rr.wf = w /\ rr.exec = e
        PROVE  Begins(e, w, r)
    <2>1. run'[r] = rr /\ \A s \in Runs \ {r} : run'[s] = run[s]
      BY <1>0, <1>3
    <2>2. /\ workflow_status'[w] = new
          /\ \A x \in Workflows \ {w} : workflow_status'[x] = workflow_status[x]
      BY <1>0, <1>3
    <2> QED BY <1>1, <1>2, <1>3, <2>1, <2>2 DEF Begins
  <1>4. FreeRun.pc = "free"
    BY DEF FreeRun
  <1>5. PICK ins : ins = InsertedRow(w, e, "PENDING")
    OBVIOUS
  <1>6. ins.status = "PENDING" /\ ins.executor_id = e /\ ins.recovery_attempts = 1
    BY <1>5 DEF InsertedRow
  <1>7. CASE StartWorkflow(e, w, r)
    <2>1. /\ workflow_status[w].status = "NONE"
          /\ workflow_status' = [workflow_status EXCEPT ![w] = ins]
          /\ Dispatch(r, e, w, w \in Timed)
      BY <1>5, <1>7 DEF StartWorkflow
    <2>2. CASE w \in runningMap[e]
      <3>1. run' = [run EXCEPT ![r] = FreeRun]
        BY <2>1, <2>2 DEF Dispatch
      <3> QED BY <1>3, <1>4, <1>6, <2>1, <2>2, <3>1
    <2>3. CASE w \notin runningMap[e]
      <3>1. PICK t \in {"armed", "off"} : t = IF w \in Timed THEN "armed" ELSE "off"
        OBVIOUS
      <3>2. PICK rr : rr = [NewRun(e, w, "check") EXCEPT !.timer = t]
        OBVIOUS
      <3>3. rr.pc = "check" /\ rr.wf = w /\ rr.exec = e /\ rr.timer = t
        BY <3>2 DEF NewRun, FreeRun
      <3>4. run' = [run EXCEPT ![r] = rr]
        BY <2>1, <2>3, <3>1, <3>2 DEF Dispatch
      <3> QED BY <1>3, <1>6, <2>1, <3>1, <3>3, <3>4
    <2> QED BY <2>2, <2>3
  <1>8. CASE StartWorkflowAckLost(e, w, r)
    <2>1. PICK rr : rr = NewRun(e, w, "init")
      OBVIOUS
    <2>2. /\ workflow_status[w].status = "NONE"
          /\ workflow_status' = [workflow_status EXCEPT ![w] = ins]
          /\ run' = [run EXCEPT ![r] = rr]
      BY <1>5, <1>8, <2>1 DEF StartWorkflowAckLost
    <2>3. rr.pc = "init" /\ rr.wf = w /\ rr.exec = e /\ rr.timer = "off"
      BY <2>1 DEF NewRun, FreeRun
    <2> QED BY <1>3, <1>6, <2>2, <2>3
  <1>9. CASE FindAndMarkStartable(e, w, r)
    <2>1. PICK new : new = ClaimedRow(workflow_status[w], w, e)
      OBVIOUS
    <2>2. /\ new.status = "PENDING" /\ new.executor_id = e
          /\ new.recovery_attempts = workflow_status[w].recovery_attempts
      BY <1>0, <2>1 DEF ClaimedRow, RowType
    <2>3. PICK rr : rr = NewRun(e, w, "claimed")
      OBVIOUS
    <2>4. /\ workflow_status[w].status = "ENQUEUED"
          /\ workflow_status' = [workflow_status EXCEPT ![w] = new]
          /\ run' = [run EXCEPT ![r] = rr]
      BY <1>9, <2>1, <2>3 DEF FindAndMarkStartable
    <2>5. rr.pc = "claimed" /\ rr.wf = w /\ rr.exec = e /\ rr.timer = "off"
      BY <2>3 DEF NewRun, FreeRun
    <2> QED BY <1>3, <2>2, <2>4, <2>5
  <1> QED BY <1>7, <1>8, <1>9

LEMMA RowActions ==
    ASSUME TypeInv, NEW w \in Workflows,
           CancelWorkflow(w) \/ \E e \in Executors : EnqueueWorkflow(e, w) \/ FindAndMarkAckLost(e, w)
    PROVE  RowChanges(w)
  <1>0. workflow_status \in [Workflows -> RowType] /\ env \in [EventKinds -> Nat]
    BY DEF TypeInv, TypeOK
  <1>1. UNCHANGED <<up, run>>
    BY DEF CancelWorkflow, EnqueueWorkflow, FindAndMarkAckLost
  <1>2. NoDisruption
    BY <1>0 DEF CancelWorkflow, EnqueueWorkflow, FindAndMarkAckLost, Event, EventKinds, NoDisruption
  <1>3. ASSUME NEW new, workflow_status' = [workflow_status EXCEPT ![w] = new]
        PROVE  /\ workflow_status'[w] = new
               /\ \A x \in Workflows \ {w} : workflow_status'[x] = workflow_status[x]
    BY <1>0, <1>3
  <1>4. ASSUME NEW e \in Executors, EnqueueWorkflow(e, w) PROVE RowChanges(w)
    <2>1. PICK new : new = InsertedRow(w, e, "ENQUEUED")
      OBVIOUS
    <2>2. new.status = "ENQUEUED" /\ new.recovery_attempts = 0
      BY <2>1 DEF InsertedRow
    <2>3. /\ workflow_status[w].status = "NONE"
          /\ workflow_status' = [workflow_status EXCEPT ![w] = new]
      BY <1>4, <2>1 DEF EnqueueWorkflow
    <2> QED BY <1>1, <1>2, <1>3, <2>2, <2>3 DEF RowChanges
  <1>5. ASSUME NEW e \in Executors, FindAndMarkAckLost(e, w) PROVE RowChanges(w)
    <2>1. PICK new : new = UndispatchedRow(ClaimedRow(workflow_status[w], w, e))
      OBVIOUS
    <2>2. /\ new.status = "PENDING" /\ new.executor_id = e /\ new.undispatched
          /\ new.recovery_attempts = workflow_status[w].recovery_attempts
      BY <1>0, <2>1 DEF UndispatchedRow, ClaimedRow, RowType
    <2>3. /\ workflow_status[w].status = "ENQUEUED" /\ up[e]
          /\ workflow_status' = [workflow_status EXCEPT ![w] = new]
      BY <1>5, <2>1 DEF FindAndMarkAckLost
    <2> QED BY <1>1, <1>2, <1>3, <2>2, <2>3 DEF RowChanges
  <1>6. CASE CancelWorkflow(w)
    <2>1. PICK new : new = CancelledRow(workflow_status[w])
      OBVIOUS
    <2>2. /\ new.status \in {workflow_status[w].status, "CANCELLED"}
          /\ new.executor_id = workflow_status[w].executor_id
          /\ new.recovery_attempts = workflow_status[w].recovery_attempts
          /\ new.undispatched = workflow_status[w].undispatched
      BY <1>0, <2>1 DEF CancelledRow, RowType
    <2>3. /\ workflow_status[w].status # "NONE"
          /\ workflow_status' = [workflow_status EXCEPT ![w] = new]
      BY <1>6, <2>1 DEF CancelWorkflow
    <2> QED BY <1>1, <1>2, <1>3, <2>2, <2>3 DEF RowChanges
  <1> QED BY <1>4, <1>5, <1>6

LEMMA RecoverySteps ==
    ASSUME TypeInv, ~SweepLive, MaxResumes = 0, [Next]_vars
    PROVE  RecoveryStep
  <1>0. /\ run \in [Runs -> RunType] /\ workflow_status \in [Workflows -> RowType]
        /\ up \in [Executors -> BOOLEAN] /\ env \in [EventKinds -> Nat]
    BY DEF TypeInv, TypeOK
  <1>1. ASSUME NEW e \in Executors, Restart(e) \/ RecoverPendingWorkflows(e) PROVE RecoveryStep
    <2>1. /\ ~up[e] /\ UNCHANGED run /\ workflow_status' = Reenqueued(workflow_status, e)
          /\ up' = up \/ up' = [up EXCEPT ![e] = TRUE]
      BY <1>1 DEF Restart, RecoverPendingWorkflows
    <2>2. NoDisruption
      BY <1>0, <1>1 DEF Restart, RecoverPendingWorkflows, Event, EventKinds, NoDisruption
    <2>3. ASSUME NEW w \in Workflows, workflow_status[w].status = "PENDING",
                 workflow_status[w].executor_id = e
          PROVE  /\ workflow_status'[w].status = "ENQUEUED"
                 /\ workflow_status'[w].recovery_attempts = workflow_status[w].recovery_attempts
      <3>1. workflow_status'[w] = [workflow_status[w] EXCEPT !.status = "ENQUEUED", !.queued = TRUE]
        BY <2>1, <2>3 DEF Reenqueued
      <3> QED BY <1>0, <3>1 DEF RowType
    <2>4. ASSUME NEW w \in Workflows,
                 ~(workflow_status[w].status = "PENDING" /\ workflow_status[w].executor_id = e)
          PROVE  workflow_status'[w] = workflow_status[w]
      BY <2>1, <2>4 DEF Reenqueued
    <2>5. Sweep(e)
      BY <2>1, <2>2, <2>3, <2>4 DEF Sweep
    <2> QED BY <2>5 DEF RecoveryStep
  <1>2. ASSUME NEW e \in Executors, Crash(e) PROVE RecoveryStep
    <2>1. \A x \in Executors : up'[x] <=> up[x] /\ x # e
      BY <1>0, <1>2 DEF Crash
    <2>2. env'["crashes"] = env["crashes"] + 1 /\ env'["lostAcks"] = env["lostAcks"]
      BY <1>0, <1>2 DEF Crash, Event, EventKinds
    <2>3. Fails(e)
      BY <1>2, <2>1, <2>2 DEF Crash, Fails
    <2> QED BY <2>3 DEF RecoveryStep
  <1>3. ASSUME NEW w \in Workflows, ResumeWorkflow(w) PROVE FALSE
    BY <1>0, <1>3 DEF ResumeWorkflow, Event, EventKinds
  <1>4. ASSUME NEW r \in Runs, RunStep(r) \/ RunEvent(r) PROVE RecoveryStep
    BY <1>4, RunActions DEF RecoveryStep
  <1>5. ASSUME NEW e \in Executors, NEW w \in Workflows, NEW r \in Runs,
               \/ StartWorkflow(e, w, r) \/ StartWorkflowAckLost(e, w, r)
               \/ FindAndMarkStartable(e, w, r)
        PROVE  RecoveryStep
    BY <1>5, BeginActions DEF RecoveryStep
  <1>6. ASSUME NEW w \in Workflows,
               \/ CancelWorkflow(w)
               \/ \E e \in Executors : EnqueueWorkflow(e, w) \/ FindAndMarkAckLost(e, w)
        PROVE  RecoveryStep
    BY <1>6, RowActions DEF RecoveryStep
  <1>7. CASE UNCHANGED vars
    BY <1>7 DEF RecoveryStep
  <1> QED BY <1>1, <1>2, <1>3, <1>4, <1>5, <1>6, <1>7 DEF Next

-----------------------------------------------------------------------------
(* One runner.                                                             *)

\* An invocation, from the claim to the outcome, is on an executor that is alive and
\* that the row names, and the workflow is not in the queue meanwhile: so neither a
\* poll nor the recovery of a dead executor finds it.  A PENDING row names an executor.
SoleInv ==
    /\ \A r \in Runs : run[r].pc # "free" =>
           /\ up[run[r].exec]
           /\ workflow_status[run[r].wf].status \notin {"NONE", "ENQUEUED"}
           /\ workflow_status[run[r].wf].executor_id = run[r].exec
    /\ \A r, s \in Runs :
           run[r].pc # "free" /\ run[s].pc # "free" /\ run[r].wf = run[s].wf => r = s
    /\ \A w \in Workflows : workflow_status[w].status = "PENDING" =>
           workflow_status[w].executor_id \in Executors

LEMMA SoleNext ==
    ASSUME TypeInv, SoleInv, RecoveryStep PROVE SoleInv'
  <1>0. /\ \A r \in Runs : run[r].pc # "free" => run[r].wf \in Workflows /\ run[r].exec \in Executors
        /\ up \in [Executors -> BOOLEAN]
    BY DEF TypeInv, TypeOK
  <1>1. ASSUME NEW r \in Runs, RunAction(r) PROVE SoleInv'
    <2>1. \A s \in Runs : run'[s].pc # "free" =>
              run[s].pc # "free" /\ run'[s].wf = run[s].wf /\ run'[s].exec = run[s].exec
      BY <1>1 DEF RunAction, RunByRun
    <2>2. run[r].pc # "free"
      BY <1>1 DEF RunAction, RunByRun
    <2>3. \A s \in Runs \ {r} : run[s].pc # "free" =>
              workflow_status'[run[s].wf] = workflow_status[run[s].wf]
      BY <1>0, <1>1, <2>2 DEF RunAction, RowByRun, SoleInv
    <2>4. /\ workflow_status'[run[r].wf].status \notin {"NONE", "ENQUEUED"}
          /\ workflow_status'[run[r].wf].executor_id = run[r].exec
      BY <1>1, <2>2 DEF RunAction, RowByRun, SoleInv, Settled
    <2>5. UNCHANGED up
      BY <1>1 DEF RunAction
    <2>6. \A x \in Workflows : workflow_status'[x].status = "PENDING" =>
              workflow_status'[x].executor_id \in Executors
      BY <1>0, <1>1, <2>2, <2>4 DEF RunAction, RowByRun, SoleInv
    <2> QED BY <2>1, <2>2, <2>3, <2>4, <2>5, <2>6 DEF SoleInv
  <1>2. ASSUME NEW e \in Executors, NEW w \in Workflows, NEW r \in Runs, Begins(e, w, r)
        PROVE  SoleInv'
    <2>1. \A s \in Runs : run[s].pc # "free" => run[s].wf # w
      BY <1>2 DEF Begins, SoleInv
    <2>2. \A s \in Runs \ {r} : run'[s] = run[s]
      BY <1>2 DEF Begins
    <2>3. /\ run'[r].pc # "free" => run'[r].wf = w /\ run'[r].exec = e
          /\ workflow_status'[w].status = "PENDING" /\ workflow_status'[w].executor_id = e
          /\ UNCHANGED up /\ up[e]
          /\ \A x \in Workflows \ {w} : workflow_status'[x] = workflow_status[x]
      BY <1>2 DEF Begins
    <2>4. ASSUME NEW s \in Runs, run'[s].pc # "free"
          PROVE  /\ up'[run'[s].exec]
                 /\ workflow_status'[run'[s].wf].status \notin {"NONE", "ENQUEUED"}
                 /\ workflow_status'[run'[s].wf].executor_id = run'[s].exec
      <3>1. CASE s = r
        BY <2>3, <2>4, <3>1
      <3>2. CASE s # r
        <4>1. run'[s] = run[s] /\ run[s].wf \in Workflows \ {w}
          BY <1>0, <2>1, <2>2, <2>4, <3>2
        <4> QED BY <2>3, <2>4, <4>1 DEF SoleInv
      <3> QED BY <3>1, <3>2
    <2>5. ASSUME NEW s \in Runs, NEW t \in Runs, run'[s].pc # "free", run'[t].pc # "free",
                 run'[s].wf = run'[t].wf
          PROVE  s = t
      BY <2>1, <2>2, <2>3, <2>5 DEF SoleInv
    <2>6. \A x \in Workflows : workflow_status'[x].status = "PENDING" =>
              workflow_status'[x].executor_id \in Executors
      BY <2>3 DEF SoleInv
    <2> QED BY <2>4, <2>5, <2>6 DEF SoleInv
  <1>3. ASSUME NEW w \in Workflows, RowChanges(w) PROVE SoleInv'
    <2>1. UNCHANGED <<up, run>>
      BY <1>3 DEF RowChanges
    <2>2. \A s \in Runs : run[s].pc # "free" =>
              /\ workflow_status'[run[s].wf].status \notin {"NONE", "ENQUEUED"}
              /\ workflow_status'[run[s].wf].executor_id = run[s].exec
      BY <1>0, <1>3 DEF RowChanges, SoleInv
    <2>3. \A x \in Workflows : workflow_status'[x].status = "PENDING" =>
              workflow_status'[x].executor_id \in Executors
      BY <1>3 DEF RowChanges, SoleInv
    <2> QED BY <2>1, <2>2, <2>3 DEF SoleInv
  <1>4. ASSUME NEW e \in Executors, Sweep(e) PROVE SoleInv'
    <2>1. UNCHANGED run
      BY <1>4 DEF Sweep
    <2>2. \A s \in Runs : run[s].pc # "free" => workflow_status'[run[s].wf] = workflow_status[run[s].wf]
      BY <1>0, <1>4 DEF Sweep, SoleInv
    <2>3. \A x \in Executors : up[x] => up'[x]
      BY <1>0, <1>4 DEF Sweep
    <2>4. \A x \in Workflows : workflow_status'[x].status = "PENDING" =>
              workflow_status'[x] = workflow_status[x]
      BY <1>4 DEF Sweep
    <2> QED BY <1>0, <2>1, <2>2, <2>3, <2>4 DEF SoleInv
  <1>5. ASSUME NEW e \in Executors, Fails(e) PROVE SoleInv'
    <2>1. FreeRun.pc = "free"
      BY DEF FreeRun
    <2>2. \A s \in Runs : run'[s].pc # "free" => run'[s] = run[s] /\ run[s].exec # e
      BY <1>5, <2>1 DEF Fails
    <2> QED BY <1>0, <1>5, <2>2 DEF Fails, SoleInv
  <1>6. CASE UNCHANGED vars
    BY <1>6 DEF vars, SoleInv
  <1> QED BY <1>1, <1>2, <1>3, <1>4, <1>5, <1>6 DEF RecoveryStep

LEMMA SoleInit == Init => SoleInv
  BY DEF Init, SoleInv, FreeRun, NoRow

\* While recovery is asked for dead executors only, and nobody resumes a workflow,
\* the atomic dequeue and the sweep of a restart admit one runner of a workflow on
\* all executors together.
THEOREM OneRunnerOnly == ASSUME ~SweepLive, MaxResumes = 0 PROVE Spec => []OneRunner
  <1>1. TypeInv /\ SoleInv /\ [Next]_vars => TypeInv' /\ SoleInv'
    BY TypeInvNext, RecoverySteps, SoleNext
  <1>2. SoleInv => OneRunner
    BY DEF SoleInv, OneRunner, Registered, Body
  <1> QED BY TypeInvInit, SoleInit, <1>1, <1>2, PTL DEF Spec

===============================================================================
