------------------------------ MODULE Lineage ------------------------------
(* A family of workflows and the operations that act on several of them: a
   parent starts a child, waits for it and publishes; meanwhile operators
   cancel the tree, delete it, time out old workflows, collect garbage, fork
   the Root, export it and import it again.  Each operation of an operator is
   a sequence of statements (of transactions, except for fork and import) that
   interleaves with the runs.  Sources: system_database.ts (cancelWorkflows,
   getWorkflowChildren, deleteWorkflows, bulkForkWorkflows, exportWorkflow,
   importWorkflow, garbageCollect, awaitWorkflowResult, awaitWorkflowIds),
   workflow_management.ts (globalTimeout), dbos-executor.ts
   (internalWorkflow, runInternalStep), workflow.ts (handles).

   One process runs the workflows; an operator is a client, an admin request or
   another process.  Function IDs are counted from 1.  Left to Execution:
   resume, timeouts of one workflow, several executors.                       *)
EXTENDS Integers, SequencesExt, TLC

CONSTANTS
  Other,          \* a finished workflow, the replacement child of a fork
  Program,        \* function: the calls a workflow makes, in order
  Child,          \* function: the ID of the child it starts
  Starts,         \* bound: the start steps given to forkWorkflow
  Plans,          \* bound: a root, the ID of its fork, and the operations and crashes considered together, each once
  Null

Family == DOMAIN Program
Operators == {"cancel", "timeout", "delete", "gc", "fork", "export", "import"}

VARIABLES
  row,        \* workflow_status.status, "none" without a row
  created,    \* workflow_status.created_at: order of first insertion, 0 before
  ops,        \* operation_outputs: checkpoints by function ID
  streams,    \* streams: the function IDs that wrote, in order of offset
  history,    \* workflow_events_history: the function IDs that wrote
  event,      \* workflow_events: the function ID whose value stands, 0 if none
  pc, fn,     \* a run: where it is, and the call it is at
  handle,     \* the child a run has a handle of
  held,       \* ... with the promise of the child's run
  op,         \* the operations under way, by kind
  archive,    \* what an export returned
  plan,       \* the root the operators act on, its fork, and what is still to be done
  swept, late, torn   \* history variables, see the properties

tables == <<row, ops, streams, history, event>>
runs == <<pc, fn, handle, held>>
marks == <<swept, late, torn>>
vars == <<tables, created, runs, op, archive, plan, marks>>

Root == plan.root
Fork == plan.fork
Idle == [kind |-> "idle"]
Active(s) == s \in {"ENQUEUED", "PENDING"}
Calls(w) == 1 .. Len(Program[w])
Checkpoint(result, child) == [result |-> result, child |-> child]

\* created_at of a row inserted now.
Now == 1 + Max({created[w] : w \in Family})

\* The update of was_forked_from holds the row of the original until the fork
\* commits: no other status update and no deletion gets past it.
Locked(w) == w = Root /\ op["fork"] # Idle /\ op["fork"].at # "insert"

-----------------------------------------------------------------------------
(* The run of a workflow *)

Goto(w, place) == pc' = [pc EXCEPT ![w] = place]
Ended == {"none", "done", "failed", "cancelled"}

\* The next call; a run keeps nothing else.
Proceed(w) == fn' = [fn EXCEPT ![w] = @ + 1] /\ Goto(w, "call")

\* recordOperationResult: the foreign key refuses a checkpoint without a row.
Record(w, result, child) ==
  ops' = [ops EXCEPT ![w] = @ @@ (fn[w] :> Checkpoint(result, child))]

\* #getOperationResultAndThrowIfCancelled: Throws, Replayed, or neither.
Throws(w) == row[w] = "CANCELLED"
Replayed(w) == fn[w] \in DOMAIN ops[w]

At(w, call) == pc[w] = "call" /\ fn[w] \in Calls(w) /\ Program[w][fn[w]] = call

\* A call that is replayed or meets the cancellation writes nothing.
Replay(w, place) ==
  /\ IF Throws(w) THEN Goto(w, "cancelled") /\ UNCHANGED fn
     ELSE Replayed(w) /\ fn' = [fn EXCEPT ![w] = @ + 1] /\ Goto(w, place)
  /\ UNCHANGED <<tables, created, op, archive, plan, marks>>

\* A replayed start gives the handle of the recorded child, without a promise.
Retrieve(w) ==
  /\ handle' = [handle EXCEPT ![w] = IF Replayed(w) THEN ops[w][fn[w]].child ELSE @]
  /\ held' = [held EXCEPT ![w] = FALSE]

\* internalWorkflow of the child: the check against the parent.
ChildCheck(w) ==
  /\ At(w, "child")
  /\ \/ Replay(w, "call") /\ Retrieve(w)
     \/ /\ ~Throws(w) /\ ~Replayed(w) /\ Goto(w, "insert")
        /\ UNCHANGED <<tables, created, fn, handle, held, op, archive, plan, marks>>

\* initWorkflowStatus of the child, whose ID is made of the parent's and the
\* function ID: only the call that inserts the row will run it.  When a row of
\* that ID was deleted under its run, the run goes on with the new row.
ChildInsert(w) ==
  /\ pc[w] = "insert"
  /\ Goto(w, "record")
  /\ held' = [held EXCEPT ![w] = row[Child[w]] = "none"]
  /\ row' = [row EXCEPT ![Child[w]] = IF @ = "none" THEN "PENDING" ELSE @]
  /\ created' = [created EXCEPT ![Child[w]] = IF @ = 0 THEN Now ELSE @]
  /\ torn' = IF held'[w] /\ pc[Child[w]] \notin Ended THEN torn \cup {Child[w]} ELSE torn
  /\ late' = IF row[w] = "PENDING" \/ ~held'[w] THEN late ELSE late \cup {Child[w]}
  /\ UNCHANGED <<ops, streams, history, event, fn, handle, op, archive, plan, swept>>

\* The child is recorded and started; without the parent's row the call throws
\* and the inserted child is not run.
ChildRecord(w) ==
  /\ pc[w] = "record"
  /\ IF row[w] = "none"
     THEN Goto(w, "fail") /\ UNCHANGED <<ops, fn, handle>>
     ELSE /\ Record(w, "ok", Child[w]) /\ handle' = [handle EXCEPT ![w] = Child[w]]
          /\ pc' = [pc EXCEPT ![w] = "call", ![Child[w]] = IF held[w] THEN "call" ELSE @]
          /\ fn' = [fn EXCEPT ![w] = @ + 1, ![Child[w]] = IF held[w] THEN 1 ELSE @]
  /\ UNCHANGED <<row, streams, history, event, created, held, op, archive, plan, swept, late, torn>>

\* writeStream and setEvent: check, write and checkpoint in one transaction.
Publish(w, call) ==
  /\ At(w, call)
  /\ \/ Replay(w, "call") /\ UNCHANGED <<handle, held>>
     \/ /\ ~Throws(w) /\ ~Replayed(w)
        /\ IF row[w] = "none"
           THEN Goto(w, "fail") /\ UNCHANGED <<ops, streams, history, event, fn>>
           ELSE /\ Record(w, "ok", Null)
                /\ streams' = [streams EXCEPT ![w] = IF call = "stream" THEN Append(@, fn[w]) ELSE @]
                /\ history' = [history EXCEPT ![w] = IF call = "event" THEN @ \cup {fn[w]} ELSE @]
                /\ event' = [event EXCEPT ![w] = IF call = "event" THEN fn[w] ELSE @]
                /\ Proceed(w)
        /\ UNCHANGED <<row, created, handle, held, op, archive, plan, swept, late, torn>>

\* getResult and waitAll are internal steps: the check, then the wait.
AwaitCheck(w, call) ==
  /\ At(w, call)
  /\ \/ Replay(w, IF Replayed(w) /\ ops[w][fn[w]].result = "err" THEN "fail" ELSE "call")
        /\ UNCHANGED <<handle, held>>
     \/ /\ ~Throws(w) /\ ~Replayed(w) /\ Goto(w, "await")
        /\ UNCHANGED <<tables, created, fn, handle, held, op, archive, plan, marks>>

-----------------------------------------------------------------------------
\* The promise of the child's run has settled, or the polled row has.
SettledByOutcome(w) ==
  IF held[w] /\ Program[w][fn[w]] = "getResult"
  THEN pc[handle[w]] \in {"done", "cancelled", "failed"}
  ELSE row[handle[w]] \in {"SUCCESS", "ERROR"}

Settled(w) ==
  IF held[w] /\ Program[w][fn[w]] = "getResult"
  THEN pc[handle[w]] \in {"done", "cancelled", "failed"}
  ELSE row[handle[w]] \in {"SUCCESS", "ERROR", "CANCELLED"}

\* getResult throws what the child threw; waitAll only returns.
Result(w) ==
  IF Program[w][fn[w]] = "waitAll" \/ (held[w] /\ pc[handle[w]] = "done")
     \/ (~held[w] /\ row[handle[w]] = "SUCCESS")
  THEN "ok" ELSE "err"

\* A poll ends with the caller's own cancellation, which is not recorded, or
\* with the child's outcome, which is.
AwaitEnds(w) ==
  /\ pc[w] = "await"
  /\ \/ /\ Throws(w) /\ ~(held[w] /\ Program[w][fn[w]] = "getResult")
        /\ Goto(w, "cancelled") /\ UNCHANGED <<ops, fn>>
     \/ /\ Settled(w)
        /\ IF row[w] = "none"
           THEN Goto(w, "fail") /\ UNCHANGED <<ops, fn>>
           ELSE /\ Record(w, Result(w), Null)
                /\ IF Result(w) = "ok" THEN Proceed(w) ELSE Goto(w, "fail") /\ UNCHANGED fn
  /\ UNCHANGED <<row, streams, history, event, created, handle, held, op, archive, plan, swept, late, torn>>

\* recordWorkflowOutput and recordWorkflowError never overwrite CANCELLED, and
\* write nothing without a row.
Finish(w) ==
  /\ ~Locked(w)
  /\ \/ pc[w] = "call" /\ fn[w] \notin Calls(w)
     \/ pc[w] = "fail"
  /\ LET failed == pc[w] = "fail"
     IN  /\ Goto(w, IF row[w] = "CANCELLED" THEN "cancelled" ELSE IF failed THEN "failed" ELSE "done")
         /\ row' = [row EXCEPT ![w] = IF @ \in {"none", "CANCELLED"} THEN @
                                      ELSE IF failed THEN "ERROR" ELSE "SUCCESS"]
  /\ UNCHANGED <<ops, streams, history, event, created, fn, handle, held, op, archive, plan, marks>>

Run(w) ==
  \/ ChildCheck(w) \/ ChildInsert(w) \/ ChildRecord(w)
  \/ Publish(w, "stream") \/ Publish(w, "event")
  \/ AwaitCheck(w, "getResult") \/ AwaitCheck(w, "waitAll") \/ AwaitEnds(w) \/ Finish(w)

\* A forked workflow waits in the internal queue.
Dequeue(w) ==
  /\ row[w] = "ENQUEUED"
  /\ row' = [row EXCEPT ![w] = "PENDING"]
  /\ Goto(w, "call") /\ fn' = [fn EXCEPT ![w] = 1]
  /\ UNCHANGED <<ops, streams, history, event, created, handle, held, op, archive, plan, marks>>

\* The process ends and starts again; it recovers the PENDING workflows.
Crash ==
  /\ "crash" \in plan.todo /\ plan' = [plan EXCEPT !.todo = @ \ {"crash"}]
  /\ pc' = [w \in Family |-> IF row[w] = "PENDING" THEN "call" ELSE "none"]
  /\ fn' = [w \in Family |-> 1]
  /\ handle' = [w \in Family |-> Null] /\ held' = [w \in Family |-> FALSE]
  /\ UNCHANGED <<tables, created, op, archive, marks>>

-----------------------------------------------------------------------------
(* Operators: cancelWorkflows, globalTimeout *)

Set(o, value) == op' = [op EXCEPT ![o] = value]
Begin(o, kind) == o = kind /\ kind \in plan.todo /\ plan' = [plan EXCEPT !.todo = @ \ {kind}]
Doing(o, kind, at) == op[o].kind = kind /\ op[o].at = at /\ UNCHANGED plan

\* #getDirectChildren: parent_workflow_id survives the parent's row.
Children(ids) == {w \in Family : row[w] # "none" /\ \E p \in ids : Child[p] = w}

\* #cancelWorkflows.
Cancelled(ids) ==
  row' = [w \in Family |-> IF w \in ids /\ (Active(row[w]) \/ row[w] = "CANCELLED")
                           THEN "CANCELLED" ELSE row[w]]

\* The children of a level are read before the level is cancelled.
CancelLevelLate(o) ==
  /\ \/ /\ Begin(o, "cancel") /\ ~Locked(Root) /\ UNCHANGED <<row, swept>>
        /\ Set(o, [kind |-> "cancel", at |-> "children", level |-> {Root}, seen |-> {}, next |-> {}])
     \/ /\ Doing(o, "cancel", "children") /\ UNCHANGED <<row, swept>>
        /\ Set(o, [op[o] EXCEPT !.at = "cancel", !.next = Children(op[o].level), !.seen = @ \cup op[o].level])
     \/ /\ Doing(o, "cancel", "cancel") /\ ~(Locked(Root) /\ Root \in op[o].level) /\ Cancelled(op[o].level)
        /\ IF op[o].next = {} THEN Set(o, Idle) /\ swept' = swept \cup op[o].seen
           ELSE Set(o, [op[o] EXCEPT !.at = "children", !.level = op[o].next]) /\ UNCHANGED swept
  /\ UNCHANGED <<ops, streams, history, event, created, runs, archive, late, torn>>

\* cancelWorkflows with cancelChildren: a level is cancelled, then its children
\* are read, which make the next level.
CancelLevel(o) ==
  /\ \/ /\ Begin(o, "cancel") /\ ~Locked(Root) /\ Cancelled({Root}) /\ UNCHANGED swept
        /\ \E cancelChildren \in BOOLEAN :
             Set(o, IF cancelChildren
                    THEN [kind |-> "cancel", at |-> "children", level |-> {Root}, seen |-> {Root}]
                    ELSE Idle)
     \/ /\ Doing(o, "cancel", "children") /\ UNCHANGED row
        /\ LET level == Children(op[o].level) \ op[o].seen
           IN  IF level = {} THEN Set(o, Idle) /\ swept' = swept \cup op[o].seen
               ELSE /\ Set(o, [op[o] EXCEPT !.at = "cancel", !.level = level, !.seen = @ \cup level])
                    /\ UNCHANGED swept
     \/ /\ Doing(o, "cancel", "cancel") /\ Cancelled(op[o].level)
        /\ Set(o, [op[o] EXCEPT !.at = "children"]) /\ UNCHANGED swept
  /\ UNCHANGED <<ops, streams, history, event, created, runs, archive, late, torn>>

\* globalTimeout lists the workflows of one status (older than a cutoff that all
\* of them are), cancels each, oldest first, then goes on to the next status;
\* here nothing is ever DELAYED.
TimeoutList(status) == {w \in Family : row[w] = status}

GlobalTimeout(o) ==
  /\ \/ /\ Begin(o, "timeout") /\ UNCHANGED row
        /\ Set(o, [kind |-> "timeout", at |-> "PENDING", ids |-> TimeoutList("PENDING")])
     \/ /\ \E at \in {"PENDING", "ENQUEUED", "DELAYED"} : Doing(o, "timeout", at)
        /\ \/ \E w \in op[o].ids :
                 /\ ~Locked(w) /\ \A v \in op[o].ids : created[w] <= created[v]
                 /\ Cancelled({w})
                 /\ Set(o, [op[o] EXCEPT !.ids = @ \ {w}])
           \/ /\ op[o].ids = {} /\ UNCHANGED row
              /\ LET next == IF op[o].at = "PENDING" THEN "ENQUEUED" ELSE "DELAYED"
                 IN  Set(o, IF op[o].at = "DELAYED" THEN Idle
                            ELSE [op[o] EXCEPT !.at = next, !.ids = TimeoutList(next)])
  /\ UNCHANGED <<ops, streams, history, event, created, runs, archive, marks>>

-----------------------------------------------------------------------------
(* deleteWorkflows, garbageCollect *)

\* DELETE of status rows; the foreign keys cascade.  The runs go on.  An export
\* that has still to read one of them is marked.
Removed(ids) ==
  /\ row' = [w \in Family |-> IF w \in ids THEN "none" ELSE row[w]]
  /\ ops' = [w \in Family |-> IF w \in ids THEN <<>> ELSE ops[w]]
  /\ streams' = [w \in Family |-> IF w \in ids THEN <<>> ELSE streams[w]]
  /\ history' = [w \in Family |-> IF w \in ids THEN {} ELSE history[w]]
  /\ event' = [w \in Family |-> IF w \in ids THEN 0 ELSE event[w]]
  /\ torn' = torn \ ids

Marked(o, next, ids) ==
  op' = [p \in Operators |->
           IF p = o THEN next
           ELSE IF op[p].kind = "export" /\ op[p].now \in ids THEN [op[p] EXCEPT !.exact = FALSE]
           ELSE op[p]]

\* deleteWorkflows with deleteChildren: all descendants are read level by
\* level, then one statement deletes.
DeleteWorkflows(o) ==
  \/ /\ Begin(o, "delete")
     /\ \E at \in {"children", "delete"} :
          Set(o, [kind |-> "delete", at |-> at, level |-> {Root}, seen |-> {Root}])
     /\ UNCHANGED <<tables, created, runs, archive, marks>>
  \/ /\ Doing(o, "delete", "children")
     /\ LET level == Children(op[o].level) \ op[o].seen
        IN  Set(o, [op[o] EXCEPT !.at = IF level = {} THEN "delete" ELSE @,
                                 !.level = level, !.seen = @ \cup level])
     /\ UNCHANGED <<tables, created, runs, archive, marks>>
  \/ /\ Doing(o, "delete", "delete") /\ ~Locked(Root)
     /\ Removed(op[o].seen) /\ Marked(o, Idle, op[o].seen)
     /\ UNCHANGED <<created, runs, archive, swept, late>>

\* ORDER BY created_at DESC LIMIT 1 OFFSET k - 1 names the oldest of these.
Newest(k) ==
  LET Rows == {w \in Family : row[w] # "none"}
  IN  {w \in Rows : Cardinality({v \in Rows : created[v] > created[w]}) < k}

\* The cutoff of garbageCollect: the time given, here now, or the creation of
\* the k-th newest row; with fewer rows than k there is none.
Cutoff(k) ==
  IF k = 0 THEN Now
  ELSE IF Cardinality(Newest(k)) < k THEN 0
  ELSE Min({created[w] : w \in Newest(k)} \cup {Now})

GarbageCollect(o) ==
  \/ /\ Begin(o, "gc")
     /\ \E k \in 0 .. 2 :
          Set(o, [kind |-> "gc", at |-> "delete", cutoff |-> Cutoff(k)])
     /\ UNCHANGED <<tables, created, runs, archive, marks>>
  \/ /\ Doing(o, "gc", "delete")
     /\ LET ids == {w \in Family : created[w] < op[o].cutoff /\ row[w] \in {"SUCCESS", "ERROR", "CANCELLED"}}
        IN  (\A w \in ids : ~Locked(w)) /\ Removed(ids) /\ Marked(o, Idle, ids)
     /\ UNCHANGED <<created, runs, archive, swept, late>>

-----------------------------------------------------------------------------
(* forkWorkflow and forkFromFailure: one transaction of several statements,
   each of which sees what has been committed when it starts *)

\* A start step is a function ID counted from 0: the fork copies the calls
\* 1 .. s.  forkFromFailure reads it from the checkpoints: the last failure or
\* else the last step, the last step, or the last step of a name.
FailureSteps ==
  LET Steps == DOMAIN ops[Root]
      Failures == {i \in Steps : ops[Root][i].result = "err"}
      Named == {i \in Steps : Program[Root][i] = "event"}
  IN  {Max(S) - 1 : S \in {IF Failures # {} THEN Failures ELSE Steps, Steps, Named} \ {{}}}

ForkPlan(o) ==
  /\ Begin(o, "fork")
  /\ \E s \in Starts, replace \in BOOLEAN :
       Set(o, [kind |-> "fork", at |-> "insert", start |-> s, replace |-> replace])
  /\ UNCHANGED <<tables, created, runs, archive, marks>>

ForkFromFailure(o) ==
  /\ Begin(o, "fork")
  /\ \E s \in FailureSteps :
       Set(o, [kind |-> "fork", at |-> "insert", start |-> s, replace |-> FALSE])
  /\ UNCHANGED <<tables, created, runs, archive, marks>>

\* The original's row is read, the row of the fork written and the original
\* marked, which locks it: what happens between these statements of the
\* transaction is what may also happen before or after them.
ForkInsert(o) ==
  /\ Doing(o, "fork", "insert")
  /\ Set(o, IF row[Root] = "none" THEN Idle
            ELSE [ops |-> << >>, streams |-> << >>, history |-> {}, event |-> 0, exact |-> TRUE,
                  at |-> IF op[o].start = 0 THEN "commit" ELSE "ops"] @@ op[o])
  /\ UNCHANGED <<tables, created, runs, archive, marks>>

\* The run of the original may write behind the copy, but only calls it has not
\* yet made: exact says that none of those is to be copied.
ForkOps(o) ==
  LET copied == {i \in DOMAIN ops[Root] : i <= op[o].start}
      Copy(i) == IF op[o].replace /\ ops[Root][i].child # Null
                 THEN [ops[Root][i] EXCEPT !.child = Other] ELSE ops[Root][i]
  IN  /\ Doing(o, "fork", "ops")
      /\ Set(o, [op[o] EXCEPT !.at = "streams", !.ops = [i \in copied |-> Copy(i)],
                   !.exact = copied = 1 .. op[o].start \/ pc[Root] \in Ended])
      /\ UNCHANGED <<tables, created, runs, archive, marks>>

\* Streams copied whole.
ForkStreamsAll(o) ==
  /\ Doing(o, "fork", "streams")
  /\ Set(o, [op[o] EXCEPT !.at = "history", !.streams = streams[Root]])
  /\ UNCHANGED <<tables, created, runs, archive, marks>>

ForkStreams(o) ==
  /\ Doing(o, "fork", "streams")
  /\ Set(o, [op[o] EXCEPT !.at = "history", !.streams = SelectSeq(streams[Root], LAMBDA i : i <= op[o].start)])
  /\ UNCHANGED <<tables, created, runs, archive, marks>>

ForkHistory(o) ==
  /\ Doing(o, "fork", "history")
  /\ Set(o, [op[o] EXCEPT !.at = "events", !.history = {i \in history[Root] : i <= op[o].start}])
  /\ UNCHANGED <<tables, created, runs, archive, marks>>

\* The latest version of the event before the start step, from the history.
ForkEvents(o) ==
  /\ Doing(o, "fork", "events")
  /\ Set(o, [op[o] EXCEPT !.at = "commit",
               !.event = Max({0} \cup {i \in history[Root] : i <= op[o].start})])
  /\ UNCHANGED <<tables, created, runs, archive, marks>>

ForkCommit(o) ==
  /\ Doing(o, "fork", "commit") /\ Set(o, Idle)
  /\ row' = [row EXCEPT ![Fork] = "ENQUEUED"]
  /\ created' = [created EXCEPT ![Fork] = Now]
  /\ ops' = [ops EXCEPT ![Fork] = op[o].ops]
  /\ streams' = [streams EXCEPT ![Fork] = op[o].streams]
  /\ history' = [history EXCEPT ![Fork] = op[o].history]
  /\ event' = [event EXCEPT ![Fork] = op[o].event]
  /\ torn' = IF op[o].exact THEN torn ELSE torn \cup {Fork}
  /\ UNCHANGED <<runs, archive, swept, late>>

ForkWorkflow(o) ==
  \/ ForkPlan(o) \/ ForkFromFailure(o) \/ ForkInsert(o) \/ ForkOps(o) \/ ForkStreams(o)
  \/ ForkHistory(o) \/ ForkEvents(o) \/ ForkCommit(o)

-----------------------------------------------------------------------------
(* exportWorkflow and importWorkflow *)

\* The tables in the order of the SELECTs, each a statement of its own.
ExportOrder == <<"status", "ops", "events", "history", "streams">>

Column(w, table) ==
  CASE table = "status" -> row[w] [] table = "ops" -> ops[w] [] table = "events" -> event[w]
    [] table = "history" -> history[w] [] table = "streams" -> streams[w]

ExportBegin(o) ==
  /\ Begin(o, "export")
  /\ \E at \in {"children", "read"} :
       Set(o, [kind |-> "export", at |-> at, todo |-> <<>>, now |-> Root, level |-> {Root},
               read |-> << >>, data |-> << >>, exact |-> TRUE])
  /\ UNCHANGED <<tables, created, runs, archive, marks>>

ExportChildren(o) ==
  /\ Doing(o, "export", "children")
  /\ LET level == Children(op[o].level)
     IN  Set(o, [op[o] EXCEPT !.at = IF level = {} THEN "read" ELSE @, !.level = level,
                              !.todo = @ \o SetToSeq(level)])
  /\ UNCHANGED <<tables, created, runs, archive, marks>>

\* The next SELECT.  A missing status row throws; after the last table of the
\* last workflow the export returns.  exact: the workflow had ended when its
\* status was read and was not removed during the export.
ExportRead(o) ==
  LET w == op[o].now
      k == 1 + Cardinality(DOMAIN op[o].read)
      table == ExportOrder[k]
      read == op[o].read @@ (table :> Column(w, table))
      exact == op[o].exact /\ (table = "status" => ~Active(row[w]))
      data == op[o].data @@ (w :> (read @@ ("exact" :> exact)))
  IN  /\ Doing(o, "export", "read")
      /\ IF table = "status" /\ row[w] = "none" THEN Set(o, Idle) /\ UNCHANGED archive
         ELSE IF k < Len(ExportOrder)
         THEN Set(o, [op[o] EXCEPT !.read = read, !.exact = exact]) /\ UNCHANGED archive
         ELSE IF op[o].todo # <<>>
         THEN /\ Set(o, [op[o] EXCEPT !.read = << >>, !.exact = TRUE, !.data = data,
                                      !.now = Head(op[o].todo), !.todo = Tail(@)])
              /\ UNCHANGED archive
         ELSE Set(o, Idle) /\ archive' = data
      /\ UNCHANGED <<tables, created, runs, marks>>

ExportWorkflow(o) == ExportBegin(o) \/ ExportChildren(o) \/ ExportRead(o)

\* One transaction: a row that exists rolls all of it back.
ImportWorkflow(o) ==
  LET ids == DOMAIN archive
  IN  /\ Begin(o, "import") /\ ids # {} /\ \A w \in ids : row[w] = "none"
      /\ row' = [w \in Family |-> IF w \in ids THEN archive[w].status ELSE row[w]]
      /\ ops' = [w \in Family |-> IF w \in ids THEN archive[w].ops ELSE ops[w]]
      /\ streams' = [w \in Family |-> IF w \in ids THEN archive[w].streams ELSE streams[w]]
      /\ history' = [w \in Family |-> IF w \in ids THEN archive[w].history ELSE history[w]]
      /\ event' = [w \in Family |-> IF w \in ids THEN archive[w].events ELSE event[w]]
      /\ torn' = torn \cup {w \in ids : ~archive[w].exact}
      /\ swept' = {}
      /\ UNCHANGED <<created, runs, op, archive, late>>

-----------------------------------------------------------------------------

\* The root has just been started.
Init ==
  /\ plan \in Plans
  /\ row = [w \in Family |-> IF w = Root THEN "PENDING" ELSE IF w = Other THEN "SUCCESS" ELSE "none"]
  /\ created = [w \in Family |-> IF w = Root THEN 2 ELSE IF w = Other THEN 1 ELSE 0]
  /\ ops = [w \in Family |-> << >>]
  /\ streams = [w \in Family |-> <<>>]
  /\ history = [w \in Family |-> {}]
  /\ event = [w \in Family |-> 0]
  /\ pc = [w \in Family |-> IF w = Root THEN "call" ELSE "none"]
  /\ fn = [w \in Family |-> 1]
  /\ handle = [w \in Family |-> Null]
  /\ held = [w \in Family |-> FALSE]
  /\ op = [o \in Operators |-> Idle]
  /\ archive = << >>
  /\ swept = {} /\ late = {} /\ torn = {}

Operate(o) ==
  \/ CancelLevel(o) \/ GlobalTimeout(o) \/ DeleteWorkflows(o) \/ GarbageCollect(o)
  \/ ForkWorkflow(o) \/ ExportWorkflow(o) \/ ImportWorkflow(o)

Next ==
  \/ \E w \in Family : Run(w) \/ Dequeue(w)
  \/ \E o \in Operators : Operate(o)
  \/ Crash

Spec == Init /\ [][Next]_vars

\* Some run, queued workflow or operation under way goes on: all of them make
\* finitely many steps, so no one of them is held up for ever.
Progress ==
  \/ \E w \in Family : Run(w) \/ Dequeue(w)
  \/ \E o \in Operators : op[o] # Idle /\ Operate(o)

FairSpec == Spec /\ WF_vars(Progress)

-----------------------------------------------------------------------------
(* Properties *)

\* A workflow, its parent and its grandparent.
Above(w) == {w} \cup {p \in Family : Child[p] = w} \cup
            {p \in Family : \E q \in Family : Child[p] = q /\ Child[q] = w}

\* cancelWorkflows with cancelChildren reads the children of a level only after
\* it has cancelled the level: once it has returned, a descendant that is still
\* active is one that a parent past its cancellation check inserted late, or a
\* descendant of such a one (or its way to the root has been deleted).
OnlyLateChildrenEscape ==
  \A w \in Family :
    /\ Active(row[w]) /\ Above(w) \cap swept # {}
    /\ \A a \in Above(w) : row[a] # "none"
    => Above(w) \cap late # {}

\* The calls of a kind among the checkpoints of a workflow.
Made(w, call) == {i \in DOMAIN ops[w] : Program[w][i] = call}

Exact(w) ==
  /\ Range(streams[w]) = Made(w, "stream") /\ IsInjective(streams[w])
  /\ history[w] = Made(w, "event")
  /\ event[w] = Max({0} \cup history[w])

\* A run, a fork from a step its original has passed and an import of a finished
\* workflow leave the stream, the event history and the current event of a
\* workflow as its checkpoints say, whatever ran beside the copy; and a finished
\* workflow, imported or not, has a checkpoint of every call it made.
CopiesAgree ==
  \A w \in Family \ torn :
    /\ row[w] # "none" => Exact(w)
    /\ row[w] = "SUCCESS" /\ w # Other => DOMAIN ops[w] = Calls(w)

\* Every row that is waited for exists, and none is an import nobody runs.
Awaitable == torn = {} /\ \A w \in Family : pc[w] = "await" => row[handle[w]] # "none"

\* In the end no workflow waits for another (awaitWorkflowResult,
\* awaitWorkflowIds or the promise of its run), unless an awaited row has been
\* deleted: neither a cancellation of the awaited workflow nor a crash leaves a
\* parent waiting.
AwaitReturns == <>[](Awaitable => \A w \in Family : pc[w] # "await")
=============================================================================
