------------------------------ MODULE Handlers ------------------------------
(***************************************************************************)
(* The management operations that the Conductor connection                 *)
(* (conductor/conductor.ts, the cases of its message switch) and the admin *)
(* server (adminserver.ts, its routes) offer: for each, the sequence of    *)
(* database statements it awaits, what its answer promises and how it      *)
(* answers when one of them throws.                                        *)
(*                                                                         *)
(* A handler is a sequence of statements because other handlers and the    *)
(* engine run between any two of them.  Execute gives the effect of one    *)
(* statement on the database: the new database, the statements that follow *)
(* from what was read, and what the handler will say ("none": go on).      *)
(***************************************************************************)
EXTENDS Observability

CONSTANTS AppVersion,     \* globalParams.appVersion
          Now             \* Date.now(), later than every time in the table

INTERNAL_QUEUE == "internal"

Finished == {"SUCCESS", "ERROR"}

Effect(d, then, say) == [d |-> d, then |-> then, say |-> say]

Read(d) == Effect(d, <<>>, "none")

Throw(d) == Effect(d, <<>>, "error")

\* UPDATE workflow_status SET ... WHERE workflow_uuid IN ws.
Updated(d, ws, New(_)) ==
  [d EXCEPT !.wf = [w \in DOMAIN d.wf |-> IF w \in ws THEN New(d.wf[w]) ELSE d.wf[w]]]

Existing(d, ids) == ids \cap DOMAIN d.wf

(***************************************************************************)
(* The statements                                                          *)
(***************************************************************************)

reenqueueWorkflowsForRecovery(d, executor) ==
  Effect(Updated(d, {w \in DOMAIN d.wf : /\ d.wf[w].status = "PENDING"
                                     /\ d.wf[w].executor_id = executor
                                     /\ d.wf[w].application_version = AppVersion},
             LAMBDA r : [r EXCEPT !.status = "ENQUEUED", !.started_at = NoTime,
                                  !.queue_name = IF @ = Null THEN INTERNAL_QUEUE ELSE @]),
         <<>>, "none")

Cancelled(d, ids) ==
  Updated(d, {w \in Existing(d, ids) : d.wf[w].status \notin Finished},
      LAMBDA r : [r EXCEPT !.status = "CANCELLED", !.queue_name = Null,
                           !.started_at = NoTime, !.completed_at = Now])

Children(d, ids) == {w \in DOMAIN d.wf : d.wf[w].parent_workflow_id \in ids}

cancelStatement(ids, cascade, visited) ==
  [do |-> "cancel", ids |-> ids, cascade |-> cascade, visited |-> visited]

cancelWorkflows(d, ids, cascade, visited) ==
  Effect(Cancelled(d, ids),
         IF cascade THEN <<[do |-> "children", ids |-> ids, visited |-> visited]>> ELSE <<>>,
         "none")

\* The cascade that stops at the first level.
nextLevelNone(d, ids, visited) == Read(d)

nextLevel(d, ids, visited) ==
  LET frontier == Children(d, ids) \ visited
  IN  Effect(d, IF frontier = {} THEN <<>>
                ELSE <<cancelStatement(frontier, TRUE, visited \cup frontier)>>, "none")

\* getWorkflowChildren level by level; "last" is done with all that was found.
descend(d, frontier, found, last) ==
  LET next == Children(d, frontier) \ found
  IN  Effect(d, IF next # {}
                THEN <<[do |-> "descend", ids |-> next, found |-> found \cup next, last |-> last]>>
                ELSE <<[do |-> last, ids |-> found]>>, "none")

deleteWorkflows(d, ids) ==
  Effect([d EXCEPT !.wf = [w \in DOMAIN d.wf \ ids |-> d.wf[w]]], <<>>, "none")

resumeWorkflows(d, ids) ==
  Effect(Updated(d, {w \in Existing(d, ids) : d.wf[w].status \notin Finished},
             LAMBDA r : [r EXCEPT !.status = "ENQUEUED", !.queue_name = INTERNAL_QUEUE,
                                  !.started_at = NoTime, !.completed_at = NoTime]),
         <<>>, "none")

\* The row bulkForkWorkflows inserts: the steps before the start are copied.
ForkRow(r, w, startStep) ==
  [r EXCEPT !.status = "ENQUEUED", !.queue_name = INTERNAL_QUEUE, !.forked_from = w,
            !.was_forked_from = FALSE, !.parent_workflow_id = Null, !.executor_id = Null,
            !.created_at = Now, !.started_at = NoTime, !.completed_at = NoTime,
            !.steps = SubSeq(@, 1, Min({startStep, Len(@)}))]

\* One transaction: it throws, and does nothing, if the original is not there
\* or the new ID is taken.
bulkForkWorkflows(d, w, new, startStep) ==
  IF w \notin DOMAIN d.wf \/ new \in DOMAIN d.wf THEN Throw(d)
  ELSE Effect([d EXCEPT !.wf = (new :> ForkRow(d.wf[w], w, startStep)) @@
                               [@ EXCEPT ![w].was_forked_from = TRUE]], <<>>, "none")

\* Where to start: from.modes are the options given, exactly one of them; the
\* step is a function ID, from 0, of the last failed step or else the last one,
\* of the last one, of the last one of a name, or the one given.
StartSteps(steps, from) ==
  LET all == DOMAIN steps
      failed == {i \in all : steps[i].failed}
      at == CASE "fromLastFailure" \in from.modes -> IF failed # {} THEN failed ELSE all
              [] "fromLastStep" \in from.modes    -> all
              [] "fromStepName" \in from.modes    -> {i \in all : steps[i].name = from.name}
              [] "fromStep" \in from.modes        -> {from.step + 1}
  IN  IF at = {} THEN {} ELSE {Max(at) - 1}

forkFromFailure(d, w, new, from) ==
  LET start == StartSteps(IF w \in DOMAIN d.wf THEN d.wf[w].steps ELSE <<>>, from)
  IN  IF Cardinality(from.modes) # 1 \/ start = {} THEN Throw(d)
      ELSE Effect(d, <<[do |-> "fork", id |-> w, new |-> new, startStep |-> Max(start)]>>, "none")

\* One workflow after the other, outside any transaction.
exportWorkflow(d, ids) ==
  LET w == CHOOSE v \in ids : TRUE
  IN  IF w \notin DOMAIN d.wf THEN Throw(d)
      ELSE Effect(d, IF ids = {w} THEN <<>> ELSE <<[do |-> "export", ids |-> ids \ {w}]>>, "none")

importWorkflow(d, rows) ==
  IF Existing(d, DOMAIN rows) # {} THEN Throw(d)
  ELSE Effect([d EXCEPT !.wf = rows @@ @], <<>>, "none")

\* The rows threshold: created_at of the n-th newest row, if there are n.
RowsCutoff(d, cutoff, n) ==
  IF n = 0 \/ Cardinality(DOMAIN d.wf) < n THEN cutoff
  ELSE Max({cutoff,
            Max({d.wf[w].created_at : w \in {v \in DOMAIN d.wf :
                   Cardinality({u \in DOMAIN d.wf : d.wf[u].created_at >= d.wf[v].created_at})
                     >= n}})})

garbageCollect(d, cutoff) ==
  Effect([d EXCEPT !.wf = [w \in {v \in DOMAIN d.wf : \/ d.wf[v].created_at >= cutoff
                                                       \/ d.wf[v].status \in Queued}
                           |-> d.wf[w]]], <<>>, "none")

\* One listing of globalTimeout and the cancellations it leads to.
timeoutList(d, status, cutoff) ==
  {Effect(d, [i \in DOMAIN s |-> cancelStatement({s[i]}, FALSE, {s[i]})], "none") :
     s \in listWorkflows(d.wf, [NoFilter EXCEPT !.in = [status |-> {status}],
                                                !.to = [created_at |-> cutoff]],
                         FALSE, 0, 0)}

setScheduleStatus(d, status) ==
  Effect([d EXCEPT !.sched = IF @ = Null THEN Null ELSE status], <<>>, "none")

\* getSchedule: a schedule that is not there ends a backfill or a trigger.
needSchedule(d) == IF d.sched = Null THEN Throw(d) ELSE Read(d)

\* The version that enqueueScheduledWorkflow stamps is read before the insert;
\* without any version that throws.
latestVersion(d, new) ==
  IF DOMAIN d.vers = {} THEN {Throw(d)}
  ELSE {Effect(d, <<[do |-> "enqueue", new |-> new, version |-> v]>>, "none") :
          v \in getLatestApplicationVersion(d.vers)}

ScheduledRow(version) ==
  [status |-> "ENQUEUED", name |-> "scheduled", queue_name |-> INTERNAL_QUEUE,
   executor_id |-> Null, application_version |-> version, parent_workflow_id |-> Null,
   forked_from |-> Null, was_forked_from |-> FALSE, attributes |-> {}, created_at |-> Now,
   started_at |-> NoTime, completed_at |-> NoTime, steps |-> <<>>]

\* initWorkflowStatus leaves a row that is there as it is.
enqueueScheduledWorkflow(d, new, version) ==
  Effect([d EXCEPT !.wf = IF new \in DOMAIN @ THEN @ ELSE (new :> ScheduledRow(version)) @@ @],
         <<>>, "none")

setVersion(d, v) ==
  Effect([d EXCEPT !.vers = updateApplicationVersionTimestamp(@, v, Now)], <<>>, "none")

\* getWorkflowStatus; a workflow that is missing ends the handler with "miss".
getWorkflow(d, w, miss) == IF w \in DOMAIN d.wf THEN Read(d) ELSE Effect(d, <<>>, miss)

\* What the statement st of a handler does to the database d.
Execute(d, st) ==
  CASE st.do = "reenqueue" -> {reenqueueWorkflowsForRecovery(d, st.executor)}
    [] st.do = "cancel"    -> {cancelWorkflows(d, st.ids, st.cascade, st.visited)}
    [] st.do = "children"  -> {nextLevel(d, st.ids, st.visited)}
    [] st.do = "descend"   -> {descend(d, st.ids, st.found, st.last)}
    [] st.do = "delete"    -> {deleteWorkflows(d, st.ids)}
    [] st.do = "resume"    -> {resumeWorkflows(d, st.ids)}
    [] st.do = "fork"      -> {bulkForkWorkflows(d, st.id, st.new, st.startStep)}
    [] st.do = "forkFrom"  -> {forkFromFailure(d, st.id, st.new, st.from)}
    [] st.do = "export"    -> {exportWorkflow(d, st.ids)}
    [] st.do = "import"    -> {importWorkflow(d, st.rows)}
    [] st.do = "rows"      -> {Effect(d, <<[do |-> "gc", cutoff |-> RowsCutoff(d, st.cutoff, st.n)]>>,
                                      "none")}
    [] st.do = "gc"        -> {garbageCollect(d, st.cutoff)}
    [] st.do = "list"      -> timeoutList(d, st.status, st.cutoff)
    [] st.do = "schedule"  -> {setScheduleStatus(d, st.status)}
    [] st.do = "need"      -> {needSchedule(d)}
    [] st.do = "version"   -> latestVersion(d, st.new)
    [] st.do = "enqueue"   -> {enqueueScheduledWorkflow(d, st.new, st.version)}
    [] st.do = "setVersion" -> {setVersion(d, st.name)}
    [] st.do = "get"       -> {getWorkflow(d, st.id, st.miss)}
    [] st.do = "throw"     -> {Throw(d)}
    [] st.do \in {"read", "count", "destroy"} -> {Read(d)}

\* @dbRetry repeats these after a lost connection instead of throwing.
Retried(st) == st.do \in {"get", "enqueue", "count"}

(***************************************************************************)
(* The requests.  "goal" and "ids" say what an answer "ok" promises, for   *)
(* the workflows named and, if "deep", their descendants, or for those     *)
(* created by "cutoff" (global timeout) or before "collect" (garbage       *)
(* collection).  "caught" is what the catch around the handler's          *)
(* statements answers: "failed" (the success flag cleared, and the error   *)
(* message), "empty" (no ID or no rows, and the message) or "500"; a       *)
(* handler that "swallows" goes on when a statement threw.                 *)
(***************************************************************************)

Request(via, program, goal, ids, caught) ==
  [via |-> via, program |-> program, goal |-> goal, ids |-> ids, deep |-> FALSE,
   cutoff |-> 0, collect |-> 0, swallows |-> FALSE, caught |-> caught, answer |-> "ok"]

Query(via, program, caught) == Request(via, program, "none", {}, caught)

Reading == <<[do |-> "read"]>>

\* EXECUTOR_INFO: answered at once.
ExecutorInfo == Query("socket", <<>>, "empty")

RecoveryProgram(executors) ==
  [i \in DOMAIN executors |-> [do |-> "reenqueue", executor |-> executors[i]]]

Recovery(executors) ==
  Request("socket", RecoveryProgram(executors), "recovered", Range(executors), "failed")

Cancel(ids, children) ==
  [Request("socket", <<cancelStatement(ids, children, ids)>>, "cancelled", ids, "failed")
     EXCEPT !.deep = children]

DeleteProgram(ids, children) ==
  IF children THEN <<[do |-> "descend", ids |-> ids, found |-> ids, last |-> "delete"]>>
  ELSE <<[do |-> "delete", ids |-> ids]>>

Delete(ids, children) ==
  [Request("socket", DeleteProgram(ids, children), "deleted", ids, "failed")
     EXCEPT !.deep = children]

Resume(ids) == Request("socket", <<[do |-> "resume", ids |-> ids]>>, "resumed", ids, "failed")

ForkProgram(w, new, startStep) ==
  <<[do |-> "fork", id |-> w, new |-> new, startStep |-> startStep]>>

Restart(w, new) == Request("socket", ForkProgram(w, new, 0), "inserted", {new}, "failed")

\* The catch that leaves the ID the request asked for in the response.
ForkWorkflowKeepsId(w, new, startStep) ==
  Request("socket", ForkProgram(w, new, startStep), "inserted", {new}, "ok")

\* The new ID, which the request may give, is cleared by the catch.
ForkWorkflow(w, new, startStep) ==
  Request("socket", ForkProgram(w, new, startStep), "inserted", {new}, "empty")

ForkFromFailure(w, new, from) ==
  Request("socket", <<[do |-> "forkFrom", id |-> w, new |-> new, from |-> from]>>, "inserted", {new},
          "empty")

\* A list given empty makes the query fail.
ListProgram(f) == IF ListRefused(f) THEN <<[do |-> "throw"]>> ELSE Reading

ListWorkflows(f) == Query("socket", ListProgram(f), "empty")

ListQueuedWorkflows(f) == Query("socket", ListProgram(f), "empty")

GetWorkflow == Query("socket", Reading, "empty")

ExistPendingWorkflows == Query("socket", Reading, "empty")

\* A workflow that is not there has no steps: no output and no error.
StepsProgram(w) == <<[do |-> "get", id |-> w, miss |-> "ok"], [do |-> "read"]>>

ListSteps(w) == Query("socket", StepsProgram(w), "empty")

TimeoutProgram(cutoff) ==
  <<[do |-> "list", status |-> "PENDING", cutoff |-> cutoff],
    [do |-> "list", status |-> "ENQUEUED", cutoff |-> cutoff],
    [do |-> "list", status |-> "DELAYED", cutoff |-> cutoff]>>

CollectProgram(cutoff, n) ==
  IF n = 0 THEN <<[do |-> "gc", cutoff |-> cutoff]>>
  ELSE <<[do |-> "rows", cutoff |-> cutoff, n |-> n]>>

\* Garbage collection, then, if a cutoff is given for it, the global timeout.
Retention(cutoff, n, timeout) ==
  [Request("socket", CollectProgram(cutoff, n) \o
                       (IF timeout = 0 THEN <<>> ELSE TimeoutProgram(timeout)), "retained", {}, "failed")
     EXCEPT !.cutoff = timeout, !.collect = cutoff]

\* A metric class that is not known is an error, without a query.
GetMetrics(known) ==
  IF known THEN Query("socket", <<[do |-> "count"], [do |-> "count"]>>, "empty")
  ELSE [Query("socket", <<>>, "empty") EXCEPT !.answer = "error"]

ExportProgram(w, children) ==
  IF children THEN <<[do |-> "descend", ids |-> {w}, found |-> {w}, last |-> "export"]>>
  ELSE <<[do |-> "export", ids |-> {w}]>>

ExportWorkflow(w, children) == Query("socket", ExportProgram(w, children), "empty")

ImportWorkflow(rows) ==
  Request("socket", <<[do |-> "import", rows |-> rows]>>, "inserted", DOMAIN rows, "failed")

\* The application's handler may throw; without one the alert is only logged.
Alert(throws) == Query("socket", IF throws THEN <<[do |-> "throw"]>> ELSE <<>>, "failed")

ListSchedules == Query("socket", Reading, "empty")

GetSchedule == Query("socket", Reading, "empty")

PauseSchedule ==
  Request("socket", <<[do |-> "schedule", status |-> "PAUSED"]>>, "schedule", {"PAUSED"}, "failed")

ResumeSchedule ==
  Request("socket", <<[do |-> "schedule", status |-> "ACTIVE"]>>, "schedule", {"ACTIVE"}, "failed")

TriggerProgram(new) == <<[do |-> "need"], [do |-> "version", new |-> new]>>

\* One workflow per slot of the interval; "slots" are their IDs.
BackfillSchedule(slots) ==
  Request("socket", <<[do |-> "need"]>> \o
                      [i \in DOMAIN slots |-> [do |-> "version", new |-> slots[i]]],
          "inserted", Range(slots), "empty")

TriggerSchedule(new) == Request("socket", TriggerProgram(new), "inserted", {new}, "empty")

ListApplicationVersions == Query("socket", Reading, "empty")

SetLatestApplicationVersion(v) ==
  Request("socket", <<[do |-> "setVersion", name |-> v]>>, "latest", {v}, "failed")

GetWorkflowEvents == Query("socket", Reading, "empty")

GetWorkflowNotifications == Query("socket", Reading, "empty")

GetWorkflowStreams == Query("socket", Reading, "empty")

\* Without any select flag the count is selected, for older clients.
GetWorkflowAggregates(groupBy, bucket, select) ==
  Query("socket", IF AggregateRefused(groupBy, bucket, IF select = {} THEN {"count"} ELSE select)
                  THEN <<[do |-> "throw"]>> ELSE Reading, "empty")

GetStepAggregates(groupBy, bucket, select) ==
  Query("socket", IF AggregateRefused(groupBy, bucket, IF select = {} THEN {"count"} ELSE select)
                  THEN <<[do |-> "throw"]>> ELSE Reading, "empty")

ListQueues == Query("socket", Reading, "empty")

GetQueue == Query("socket", Reading, "empty")

UnknownMessage == [Query("socket", <<>>, "empty") EXCEPT !.answer = "error"]

(***************************************************************************)
(* The routes of the admin server                                          *)
(***************************************************************************)

Health == Query("http", <<>>, "500")

Perf == Query("http", <<>>, "500")

ConductorStatus == Query("http", <<>>, "500")

Options == Query("http", <<>>, "500")

NoRoute == [Query("http", <<>>, "500") EXCEPT !.answer = "notfound"]

\* The queues of the database, if they can be read, and those of the process.
QueueMetadata == [Query("http", Reading, "500") EXCEPT !.swallows = TRUE]

WorkflowRecovery(executors) ==
  Request("http", RecoveryProgram(executors), "recovered", Range(executors), "500")

\* deactivateEventReceivers: a listener that fails to stop is only logged.
Deactivate == [Query("http", <<[do |-> "destroy"]>>, "500") EXCEPT !.swallows = TRUE]

GarbageCollect(cutoff, n) ==
  [Request("http", CollectProgram(cutoff, n), "retained", {}, "500") EXCEPT !.collect = cutoff]

GlobalTimeout(cutoff) ==
  [Request("http", TimeoutProgram(cutoff), "retained", {}, "500") EXCEPT !.cutoff = cutoff]

CancelRoute(w) == Request("http", <<cancelStatement({w}, FALSE, {w})>>, "cancelled", {w}, "500")

ResumeRoute(w) == Request("http", <<[do |-> "resume", ids |-> {w}]>>, "resumed", {w}, "500")

RestartRoute(w, new) == Request("http", ForkProgram(w, new, 0), "inserted", {new}, "500")

\* Without a start step the request is refused before anything is done.
ForkRoute(w, new, startStep) ==
  IF startStep = Null THEN [Query("http", <<>>, "500") EXCEPT !.answer = "bad"]
  ELSE Request("http", ForkProgram(w, new, startStep), "inserted", {new}, "500")

StepsRoute(w) == Query("http", StepsProgram(w), "500")

ListRoute(f) == Query("http", ListProgram(f), "500")

QueuedRoute(f) == Query("http", ListProgram(f), "500")

GetRoute(w) == Query("http", <<[do |-> "get", id |-> w, miss |-> "notfound"]>>, "500")
=============================================================================
