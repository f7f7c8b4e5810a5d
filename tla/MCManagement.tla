---------------------------- MODULE MCManagement ----------------------------
(***************************************************************************)
(* A small database and the requests made of it: a tree of three active    *)
(* workflows left by another executor, one that succeeded and one that was *)
(* cancelled, two of them created in the same millisecond.                 *)
(***************************************************************************)
EXTENDS Management

Row(status, queue, executor, parent, created, started, completed, steps) ==
  [status |-> status, name |-> IF parent = Null THEN "top" ELSE "child", queue_name |-> queue,
   executor_id |-> executor, application_version |-> "v1", parent_workflow_id |-> parent,
   forked_from |-> Null, was_forked_from |-> FALSE, attributes |-> {},
   created_at |-> created, started_at |-> started, completed_at |-> completed, steps |-> steps]

Done(failed, t) == [name |-> "step", failed |-> failed, started_at |-> t, completed_at |-> t + 1]

Marker == [name |-> "child", failed |-> FALSE, started_at |-> NoTime, completed_at |-> NoTime]

MCTables == {
  [wf |-> [p |-> Row("PENDING", Null, "other", Null, 1, 1, NoTime,
                     <<Done(TRUE, 1), Marker, Done(FALSE, 2)>>),
           c |-> Row("ENQUEUED", "q", Null, "p", 2, NoTime, NoTime, <<>>),
           g |-> Row("PENDING", "q", "other", "c", 3, 3, NoTime, <<>>),
           s |-> Row("SUCCESS", Null, "local", Null, 1, 1, 3, <<Done(FALSE, 1)>>),
           x |-> Row("CANCELLED", Null, "other", Null, 2, NoTime, 3, <<>>)],
   sched |-> "ACTIVE",
   vers |-> [v1 |-> 1, v2 |-> 2]]}

Imported == [i |-> Row("SUCCESS", Null, "other", Null, 1, 1, 2, <<Done(FALSE, 1)>>)]

From(modes) == [modes |-> modes, step |-> 1, name |-> "child"]

\* Requests that act.
Acting ==
  ("recovery" :> Recovery(<<"other", "third">>)) @@
  ("cancel" :> Cancel({"p", "s"}, FALSE)) @@
  ("cancelTree" :> Cancel({"p"}, TRUE)) @@
  ("delete" :> Delete({"x"}, FALSE)) @@
  ("deleteMiddle" :> Delete({"c"}, FALSE)) @@
  ("deleteTree" :> Delete({"p"}, TRUE)) @@
  ("resume" :> Resume({"p", "s", "x"})) @@
  ("restart" :> Restart("s", "f")) @@
  ("restartLost" :> Restart("lost", "f")) @@
  ("fork" :> ForkWorkflow("p", "f", 2)) @@
  ("forkFromFailure" :> ForkFromFailure("p", "f", From({"fromLastFailure"}))) @@
  ("forkFromLast" :> ForkFromFailure("p", "f", From({"fromLastStep"}))) @@
  ("forkFromStep" :> ForkFromFailure("p", "f", From({"fromStep"}))) @@
  ("forkFromName" :> ForkFromFailure("p", "f", From({"fromStepName"}))) @@
  ("forkFromBoth" :> ForkFromFailure("p", "f", From({"fromLastStep", "fromStep"}))) @@
  ("forkStepless" :> ForkFromFailure("x", "f", From({"fromLastFailure"}))) @@
  ("retention" :> Retention(2, 2, 2)) @@
  ("import" :> ImportWorkflow(Imported)) @@
  ("pause" :> PauseSchedule) @@
  ("unpause" :> ResumeSchedule) @@
  ("backfill" :> BackfillSchedule(<<"b1", "b2">>)) @@
  ("trigger" :> TriggerSchedule("b1")) @@
  ("setVersion" :> SetLatestApplicationVersion("v1")) @@
  ("httpRecovery" :> WorkflowRecovery(<<"other">>)) @@
  ("httpGc" :> GarbageCollect(3, 0)) @@
  ("httpTimeout" :> GlobalTimeout(3)) @@
  ("httpCancel" :> CancelRoute("p")) @@
  ("httpResume" :> ResumeRoute("x")) @@
  ("httpRestart" :> RestartRoute("p", "h")) @@
  ("httpFork" :> ForkRoute("p", "h", 1))

\* Requests that only read, or are refused.
Asking ==
  ("info" :> ExecutorInfo) @@ ("list" :> ListWorkflows(NoFilter)) @@
  ("listRefused" :> ListWorkflows([NoFilter EXCEPT !.in = [status |-> {}]])) @@
  ("listQueued" :> ListQueuedWorkflows(NoFilter)) @@ ("get" :> GetWorkflow) @@
  ("pending" :> ExistPendingWorkflows) @@ ("steps" :> ListSteps("p")) @@
  ("metrics" :> GetMetrics(TRUE)) @@ ("metricsUnknown" :> GetMetrics(FALSE)) @@
  ("export" :> ExportWorkflow("p", FALSE)) @@ ("exportTree" :> ExportWorkflow("p", TRUE)) @@
  ("alert" :> Alert(FALSE)) @@ ("alertThrows" :> Alert(TRUE)) @@
  ("schedules" :> ListSchedules) @@ ("schedule" :> GetSchedule) @@
  ("versions" :> ListApplicationVersions) @@ ("events" :> GetWorkflowEvents) @@
  ("notifications" :> GetWorkflowNotifications) @@ ("streams" :> GetWorkflowStreams) @@
  ("aggregates" :> GetWorkflowAggregates({"status"}, Null, {})) @@
  ("aggregatesRefused" :> GetWorkflowAggregates({}, Null, {"count"})) @@
  ("stepAggregates" :> GetStepAggregates({}, 2, {})) @@
  ("queues" :> ListQueues) @@ ("queue" :> GetQueue) @@ ("unknown" :> UnknownMessage) @@
  ("httpHealth" :> Health) @@ ("httpPerf" :> Perf) @@ ("httpConductor" :> ConductorStatus) @@
  ("httpOptions" :> Options) @@ ("httpNoRoute" :> NoRoute) @@
  ("httpMetadata" :> QueueMetadata) @@ ("httpDeactivate" :> Deactivate) @@
  ("httpForkBad" :> ForkRoute("p", "h", Null)) @@ ("httpSteps" :> StepsRoute("p")) @@
  ("httpList" :> ListRoute(NoFilter)) @@ ("httpQueued" :> QueuedRoute(NoFilter)) @@
  ("httpGet" :> GetRoute("x"))

MCRequests == Acting @@ Asking

Plan(requests, faults, failures, engine, stop) ==
  [requests |-> requests, faults |-> faults, failures |-> failures, engine |-> engine,
   stop |-> stop]

\* Every request with one fault of each kind and a shutdown; pairs of requests
\* with a failure and the engine running; and the connection alone with four
\* faults.
MCPlans ==
  {Plan(<<r>>, 1, 1, 0, TRUE) : r \in DOMAIN MCRequests}
    \cup {Plan(<<r, q>>, 0, 1, 1, FALSE) :
            r \in {"cancelTree", "deleteTree", "recovery", "retention", "httpTimeout"},
            q \in {"resume", "httpCancel", "deleteMiddle", "recovery", "fork", "backfill",
                   "exportTree", "httpGet", "cancelTree"}}
    \cup {Plan(<<"backfill", "setVersion">>, 0, 1, 0, FALSE), Plan(<<>>, 4, 0, 0, TRUE),
          Plan(<<"cancel">>, 2, 0, 0, TRUE)}
=============================================================================
