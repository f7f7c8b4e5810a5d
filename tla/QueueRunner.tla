---------------------------- MODULE QueueRunner ----------------------------
(***************************************************************************)
(* WFQueueRunner: the loop of one process that polls its queues.  One      *)
(* scheduler reconciles the queues it knows with the queues table, moves   *)
(* delayed workflows onto their queues and starts due polls in a bounded   *)
(* number of lanes; polls run beside it, adjust their own interval and     *)
(* wake it.  Other processes register, reconfigure and delete queues.      *)
(*                                                                         *)
(* Time is relative: a queue counts the ticks to its next poll, and the    *)
(* queues whose time has come stand in the sequence overdue in the order   *)
(* their time came, which is the order of nextPollAt.  A configuration is  *)
(* its minPollingIntervalMs; what a poll does to the queue's rows is the   *)
(* subject of module Dequeue, here it starts the work it finds.            *)
(***************************************************************************)
EXTENDS Naturals, FiniteSets, SequencesExt

CONSTANTS
  InMemory,     \* queues constructed in the process, the internal one included
  DbQueues,     \* names that may have a row in the queues table
  Listened,     \* the queues this process dispatches: those listenQueues names (all
                \* without it), those its own pollers feed, and the internal one
  Intervals,    \* the configurations: minimum polling intervals, in ticks
  MaxInterval,  \* defaultMaxPollingIntervalMs
  Maintenance,  \* reconcileIntervalMs and transitionIntervalMs, in ticks
  Lanes,        \* maxConcurrentQueueDispatches
  MaxFaults,    \* bound on failed statements and on changes of the queues table
  MayStop,      \* whether the process may be shut down
  Null

ASSUME RunnerAssumption ==
  /\ Listened \subseteq InMemory \cup DbQueues
  /\ Intervals \subseteq Nat \ {0} /\ Intervals # {}
  /\ MaxInterval \in Nat \ {0} /\ Maintenance \in Nat \ {0} /\ Lanes \in Nat \ {0}

Queues == InMemory \cup DbQueues

VARIABLES
  table,      \* the queues table: name -> configuration or Null
  states,     \* states: name -> [min, current, wait] of the queues dispatched
  overdue,    \* the queues whose nextPollAt has passed, longest-overdue first
  inFlight,   \* inFlightPolls
  polls,      \* the number of polls of a queue really running
  pc,         \* the scheduler's place in its loop
  records,    \* the answer of listQueues, what is heeded of it
  plan,       \* what is due at the `now' of this iteration: maintenance and queues
  orphans,    \* queues whose running poll belongs to a state since dropped
  since,      \* ticks since lastReconcileAt and lastTransitionAt
  wake,       \* wakePending
  running,    \* isRunning
  work,       \* one workflow per queue: delayed, enqueued, started
  faults

vars == <<table, states, overdue, inFlight, polls, orphans, pc, records, plan, since, wake,
          running, work, faults>>

scheduler == <<pc, records, plan, since, wake, running>>

-----------------------------------------------------------------------------

Smaller(a, b) == IF a < b THEN a ELSE b
Larger(a, b) == IF a < b THEN b ELSE a

\* ensureState: the first poll is one interval out.
NewState(min) == [min |-> min, current |-> min, wait |-> min]

NoPlan == [jobs |-> {}, queues |-> {}]

Without(seq, names) == SelectSeq(seq, LAMBDA q : q \notin names)

\* The time a queue has waited reaches its interval: it joins the overdue
\* ones; queues due at the same tick join in any order.
Elapse ==
  \E arrivals \in SetToSeqs({q \in DOMAIN states : states[q].wait = 1}) :
     /\ states' = [q \in DOMAIN states |-> [states[q] EXCEPT !.wait = IF @ > 0 THEN @ - 1 ELSE 0]]
     /\ overdue' = overdue \o arrivals
     /\ since' = [k \in DOMAIN since |-> Smaller(since[k] + 1, Maintenance)]

Tick ==
  /\ running
  /\ Elapse
  /\ UNCHANGED <<table, inFlight, polls, orphans, pc, records, plan, wake, running, work, faults>>

-----------------------------------------------------------------------------
(* schedulerLoop *)

\* The top of the loop reads the clock; what is due later waits for the next pass.
Top ==
  /\ pc = "top"
  /\ LET jobs == {job \in DOMAIN since : since[job] >= Maintenance}
     IN /\ pc' = IF ~running THEN "drain" ELSE IF "reconcile" \in jobs THEN "reconcile" ELSE "transition"
        /\ plan' = [jobs |-> jobs, queues |-> Range(overdue)]
        /\ since' = [job \in DOMAIN since |-> IF running /\ job \in jobs THEN 0 ELSE since[job]]
  /\ UNCHANGED <<table, states, overdue, inFlight, polls, orphans, records, wake, running, work, faults>>

\* A row counts when the process listens to its queue and has none of the
\* same name in memory, which takes precedence.
Backed == (DbQueues \cap Listened) \ InMemory

\* refreshDbQueues: the query is answered, or fails and changes nothing.
ListQueues ==
  /\ pc = "reconcile"
  /\ \/ records' = [d \in Backed |-> table[d]] /\ pc' = "apply" /\ UNCHANGED faults
     \/ /\ faults < MaxFaults /\ faults' = faults + 1
        /\ pc' = "transition"
        /\ UNCHANGED records
  /\ UNCHANGED <<table, states, overdue, inFlight, polls, orphans, plan, since, wake, running, work>>

\* The queues dispatched after a reconciliation: those in memory as they
\* are, those with a row with its configuration, the rest dropped.
Reconciled(rows) ==
  [q \in (DOMAIN states \cap InMemory) \cup {d \in Backed : rows[d] # Null} |->
     IF q \in InMemory THEN states[q]
     ELSE IF q \in DOMAIN states THEN [states[q] EXCEPT !.min = rows[q]]
     ELSE NewState(rows[q])]

\* A dropped queue gives up its lane although its poll is running.
RefreshForgetsPoll ==
  /\ pc = "apply"
  /\ states' = Reconciled(records)
  /\ overdue' = Without(overdue, DOMAIN states \ DOMAIN states')
  /\ inFlight' = inFlight \cap DOMAIN states'
  /\ records' = [d \in Backed |-> Null]
  /\ pc' = "transition"
  /\ UNCHANGED <<table, polls, orphans, plan, since, wake, running, work, faults>>

\* The answer is applied.  A dropped queue leaves the order of the due ones;
\* a poll it has running keeps its lane and the state that was dropped.
RefreshDbQueues ==
  /\ pc = "apply"
  /\ states' = Reconciled(records)
  /\ overdue' = Without(overdue, DOMAIN states \ DOMAIN states')
  /\ records' = [d \in Backed |-> Null]
  /\ orphans' = orphans \cup (inFlight \cap (DOMAIN states \ DOMAIN states'))
  /\ pc' = "transition"
  /\ UNCHANGED <<table, inFlight, polls, plan, since, wake, running, work, faults>>

\* transitionDelayedWorkflows at most once per interval; a failure is logged.
Transition ==
  /\ pc = "transition"
  /\ pc' = "schedule"
  /\ IF "transition" \notin plan.jobs
     THEN UNCHANGED <<work, faults>>
     ELSE \/ /\ work' = [q \in Queues |-> IF work[q] = "delayed" THEN "enqueued" ELSE work[q]]
             /\ UNCHANGED faults
          \/ faults < MaxFaults /\ faults' = faults + 1 /\ UNCHANGED work
  /\ UNCHANGED <<table, states, overdue, inFlight, polls, orphans, records, plan, since, wake, running>>

\* The due queues in the order of the map, whatever their age.
DueUnsorted == SetToSeq(Range(SelectSeq(overdue, LAMBDA q : q \in plan.queues /\ q \notin inFlight)))

\* The due queues without a poll in flight, longest-overdue first.
Due == SelectSeq(overdue, LAMBDA q : q \in plan.queues /\ q \notin inFlight)

\* scheduleDueQueues: polls start while there are lanes.  A poll leaves the
\* queue overdue until it has finished and set the next time.
ScheduleDueQueues ==
  /\ pc = "schedule"
  /\ LET free    == IF Cardinality(inFlight) < Lanes THEN Lanes - Cardinality(inFlight) ELSE 0
         started == IF running THEN Range(SubSeq(Due, 1, Smaller(free, Len(Due)))) ELSE {}
     IN /\ inFlight' = inFlight \cup started
        /\ polls' = [q \in Queues |-> IF q \in started THEN polls[q] + 1 ELSE polls[q]]
  /\ pc' = IF running THEN "sleep" ELSE "drain"
  /\ plan' = NoPlan
  /\ UNCHANGED <<table, states, overdue, orphans, records, since, wake, running, work, faults>>

\* The time to sleep to has come: maintenance, or an idle queue if a lane is free.
TimerFires ==
  \/ since.reconcile >= Maintenance
  \/ since.transition >= Maintenance
  \/ Cardinality(inFlight) < Lanes /\ \E q \in Range(overdue) : q \notin inFlight

\* waitForWakeOrTimeout: an abort, a pending wake-up or the timer ends the wait.
WakeUp ==
  /\ pc = "sleep"
  /\ ~running \/ wake \/ TimerFires
  /\ pc' = "top"
  /\ wake' = FALSE
  /\ UNCHANGED <<table, states, overdue, inFlight, polls, orphans, records, plan, since, running, work, faults>>

\* After the loop: Promise.allSettled of the polls in flight.
Drain ==
  /\ pc = "drain" /\ inFlight = {}
  /\ pc' = "stopped"
  /\ UNCHANGED <<table, states, overdue, inFlight, polls, orphans, records, plan, since, wake, running, work, faults>>

\* stop(): the loop sees it at its next check, a sleeping one at once.
Stop ==
  /\ MayStop /\ running
  /\ running' = FALSE
  /\ UNCHANGED <<table, states, overdue, inFlight, polls, orphans, pc, records, plan, since, wake, work, faults>>

-----------------------------------------------------------------------------
(* runQueuePoll *)

\* adjustInterval: doubled under contention, else shrunk, clamped to the
\* configuration as it is now.
Adjusted(s, contention) ==
  LET moved == IF contention THEN Smaller(MaxInterval, 2 * s.current) ELSE Larger(s.min, s.current - 1)
  IN Larger(s.min, Smaller(moved, MaxInterval))

\* A poll ends: its dequeue started the queue's work, met contention, or
\* failed; the lane is given back and the scheduler woken.  The state of a
\* queue dropped meanwhile is adjusted in vain.
PollEnd(q, contention, failed) ==
  /\ polls[q] > 0
  /\ contention \/ failed => faults < MaxFaults
  /\ faults' = IF contention \/ failed THEN faults + 1 ELSE faults
  /\ work' = IF contention \/ failed \/ work[q] # "enqueued" THEN work
             ELSE [work EXCEPT ![q] = "started"]
  /\ polls' = [polls EXCEPT ![q] = @ - 1]
  /\ inFlight' = inFlight \ {q}
  /\ orphans' = orphans \ {q}
  /\ IF q \notin orphans
     THEN LET current == Adjusted(states[q], contention)
          IN /\ states' = [states EXCEPT ![q].current = current, ![q].wait = current]
             /\ overdue' = Without(overdue, {q})
     ELSE UNCHANGED <<states, overdue>>
  /\ IF pc = "sleep" THEN pc' = "top" /\ UNCHANGED wake ELSE wake' = TRUE /\ UNCHANGED pc
  /\ UNCHANGED <<table, records, plan, since, running>>

Poll(q) == \E contention, failed \in BOOLEAN : PollEnd(q, contention, failed)

-----------------------------------------------------------------------------
(* The queues table: other processes, and this one's registerQueue and setters *)

\* registerQueue: insert, or overwrite as onConflict says, always or never
\* (update_if_latest_version is one of the two, by the version).
RegisterQueue(d, min, updateExisting) ==
  /\ faults < MaxFaults /\ faults' = faults + 1
  /\ table[d] = Null \/ updateExisting
  /\ table' = [table EXCEPT ![d] = min]
  /\ UNCHANGED <<states, overdue, inFlight, polls, orphans, scheduler, work>>

\* updateQueue, from the setX methods of a WorkflowQueue: no row, no effect.
UpdateQueue(d, min) ==
  /\ faults < MaxFaults /\ faults' = faults + 1
  /\ table[d] # Null
  /\ table' = [table EXCEPT ![d] = min]
  /\ UNCHANGED <<states, overdue, inFlight, polls, orphans, scheduler, work>>

DeleteQueue(d) ==
  /\ faults < MaxFaults /\ faults' = faults + 1
  /\ table[d] # Null
  /\ table' = [table EXCEPT ![d] = Null]
  /\ UNCHANGED <<states, overdue, inFlight, polls, orphans, scheduler, work>>

-----------------------------------------------------------------------------

\* dispatchLoop before its loop: the in-memory queues, and the rows found at
\* launch, unless that first query failed.
Init ==
  /\ \E min \in Intervals, present \in SUBSET DbQueues :
       /\ table = [d \in DbQueues |-> IF d \in present THEN min ELSE Null]
       /\ \E found \in {present \cap Backed, {}} :
            states = [q \in (InMemory \cap Listened) \cup found |-> NewState(min)]
  /\ overdue = <<>>
  /\ inFlight = {}
  /\ polls = [q \in Queues |-> 0]
  /\ orphans = {}
  /\ pc = "top"
  /\ records = [d \in Backed |-> Null]
  /\ plan = NoPlan
  /\ since = [reconcile |-> 0, transition |-> Maintenance]
  /\ wake = FALSE
  /\ running = TRUE
  /\ work = [q \in Queues |-> "delayed"]
  /\ faults = 0

SchedulerStep ==
  Top \/ ListQueues \/ RefreshDbQueues \/ Transition \/ ScheduleDueQueues \/ WakeUp \/ Drain

Next ==
  \/ SchedulerStep
  \/ Stop
  \/ Tick
  \/ \E q \in Queues : Poll(q)
  \/ \E d \in DbQueues : DeleteQueue(d)
  \/ \E d \in DbQueues, min \in Intervals :
        UpdateQueue(d, min) \/ \E updateExisting \in BOOLEAN : RegisterQueue(d, min, updateExisting)

Spec == Init /\ [][Next]_vars

\* The event loop runs what is ready, statements are answered and time passes.
FairSpec ==
  /\ Spec
  /\ WF_vars(SchedulerStep)
  /\ WF_vars(Tick)
  /\ \A q \in Queues : WF_vars(Poll(q))

-----------------------------------------------------------------------------

\* At most Lanes polls run, and one of a queue, also when its row is deleted
\* and registered again while a poll of the old state is still running.
LanesBounded ==
  /\ \A q \in Queues : polls[q] = IF q \in inFlight THEN 1 ELSE 0
  /\ Cardinality(inFlight) <= Lanes

\* No queue the process listens to is starved: as long as it has a row, or is
\* in memory, and the runner is not stopped, it is polled again and again, even
\* by a single lane, and whatever becomes of a row with the name of a queue in memory.
\* (The comment of scheduleDueQueues: it "cannot be starved".)
PolledForever ==
  \A q \in Listened : []<>(q \in inFlight \/ (q \in Backed /\ table[q] = Null) \/ ~running)

=============================================================================
