----------------------------- MODULE Scheduler -----------------------------
(* Scheduled workflows on several processes.  A behaviour has one schedule of
   one of two kinds (plan.kind):
     "dynamic"    a row of workflow_schedules, followed by a DynamicSchedulerLoop
                  in each process: a polling loop reads the row, backfills missed
                  slots and keeps one loop per schedule, which fires the slots;
     "decorator"  a @DBOS.scheduled method, with a loop of ScheduledReceiver in
                  each process, which records its progress in event_dispatch_kv.
   Beside them clients edit, trigger and backfill the schedule, processes crash
   or are shut down and start again, and statements fail.  Sources:
   scheduler/scheduler.ts, scheduler/scheduler_decorator.ts,
   system_database.ts (schedules, event dispatch state), dbos.ts, client.ts.

   A slot is a second that the crontab matches; its workflow ID is made of the
   slot, so that enqueuing it again changes nothing.  now is the last second
   that has begun: a time read from the clock is the millisecond at which it
   began, or a later one.                                                      *)
EXTENDS Crontab, TLC

CONSTANTS
  Process,     \* the processes of the application
  MaxTime,     \* bound: the seconds considered
  Horizon,     \* the seconds nextWakeupTime looks ahead (3599 in the code)
  Crontabs,    \* the crontabs considered, by name
  Clock(_),    \* the fields of a time: second, minute, hour, day, month, weekday
  Plans,       \* bound: the kind of schedule, its options, the processes, and what happens once
  Null

VARIABLES
  now,
  sched,       \* the row of workflow_schedules, or Null
  fired,       \* the slots whose workflows have been enqueued
  triggered,   \* the times of triggerSchedule
  state,       \* of a process: "up", "stopping" or "down"
  poll,        \* of a process: the polling loop
  loops,       \* of a process: the schedule loops it has started
  receiver,    \* of a process: the loop of ScheduledReceiver
  kv,          \* event_dispatch_kv: lastState of the schedule, Null at first
  client,      \* a backfillSchedule called by a client
  plan,
  defs, base, gap     \* history variables, see the properties

dynamic == <<sched, poll, loops, client>>
marks == <<defs, base, gap>>
vars == <<now, fired, triggered, state, dynamic, receiver, kv, plan, marks>>

Times == 0 .. MaxTime
\* The slots of the valid crontabs.
SlotTable ==
  [c \in {c \in DOMAIN Crontabs : validateCrontab(Crontabs[c])} |->
     {t \in Times : match(Crontabs[c], Clock(t))}]

Slots(crontab) == SlotTable[crontab]

\* The next match within the horizon, or else its end, which is no match.
nextWakeupTime(crontab, time) ==
  Min({t \in Slots(crontab) : time < t /\ t <= time + Horizon} \cup {time + Horizon})

\* Each kind of event of the plan happens once.
Once(event) == event \in plan.todo /\ plan' = [plan EXCEPT !.todo = @ \ {event}]
Dynamic == plan.kind = "dynamic"

Asleep == [at |-> "sleep"]
Ended == [at |-> "ended"]
AtRest(p) == IF state[p] = "up" THEN Asleep ELSE Ended

Loop(crontab) == [crontab |-> crontab, last |-> now, at |-> "sleep", live |-> TRUE, owned |-> TRUE]
Replace(p, old, new) == loops' = [loops EXCEPT ![p] = (@ \ {old}) \cup new]

\* An aborted loop ends where it sleeps, or after the slot it is firing.
Aborted(p) == {[l EXCEPT !.live = FALSE] : l \in {k \in loops[p] : k.owned /\ k.at # "sleep"}}
              \cup {k \in loops[p] : ~k.owned}

-----------------------------------------------------------------------------
(* The polling loop of DynamicSchedulerLoop *)

\* The row as one statement reads it, for all schedules or for one.
listSchedules == sched
getSchedule == sched

ListSchedules(p) ==
  /\ Dynamic /\ state[p] = "up" /\ poll[p] = Asleep
  /\ poll' = [poll EXCEPT ![p] = [at |-> "list"]]
  /\ UNCHANGED <<now, fired, triggered, state, sched, loops, client, receiver, kv, plan, marks>>

ListFails(p) ==
  /\ poll[p].at = "list" /\ Once("fail")
  /\ poll' = [poll EXCEPT ![p] = AtRest(p)]
  /\ UNCHANGED <<now, fired, triggered, state, sched, loops, client, receiver, kv, marks>>

\* scheduleSignature: the loop runs the definition of the row.
Keeps(l, row) == l.live /\ l.owned /\ l.crontab = row.crontab

\* The rows have been read.  A loop whose schedule is gone, paused or changed is
\* aborted; an active schedule without a loop gets one, after a backfill of the
\* slots before end, the time read from the clock: now to the millisecond, or later.
ProcessSchedules(p) ==
  /\ poll[p].at = "list"
  /\ \E end \in {now, now + 1} :
     LET row == listSchedules
         active == row # Null /\ row.status = "ACTIVE"
         missed == active /\ row.backfill /\ row.last # Null /\ row.last < end
     IN  IF active /\ \E l \in loops[p] : Keeps(l, row)
         THEN poll' = [poll EXCEPT ![p] = AtRest(p)] /\ UNCHANGED <<loops, base>>
         ELSE /\ loops' = [loops EXCEPT ![p] = Aborted(p) \cup (IF active /\ ~missed THEN {Loop(row.crontab)} ELSE {})]
              /\ poll' = [poll EXCEPT ![p] = IF missed THEN [at |-> "get", row |-> row, end |-> end] ELSE AtRest(p)]
              /\ base' = IF active /\ row.last = Null THEN now ELSE base
  /\ UNCHANGED <<now, fired, triggered, state, sched, client, receiver, kv, plan, defs, gap>>

\* The loop starts with the row that was listed, after the current second.  A slot
\* that passed and was not backfilled is nobody's.
StartLoop(p, from) ==
  /\ loops' = [loops EXCEPT ![p] = @ \cup {Loop(poll[p].row.crontab)}]
  /\ poll' = [poll EXCEPT ![p] = AtRest(p)]
  /\ gap' = gap \cup {t \in Times : from <= t /\ t <= now}

\* backfillSchedule reads the row again; without it, it throws, and the polling
\* loop goes on.
BackfillGet(p) ==
  /\ poll[p].at = "get"
  /\ IF getSchedule = Null THEN StartLoop(p, poll[p].row.last + 1)
     ELSE /\ poll' = [poll EXCEPT ![p] = [crontab |-> getSchedule.crontab, cur |-> @.row.last, at |-> "backfill"] @@ @]
          /\ UNCHANGED <<loops, gap>>
  /\ UNCHANGED <<now, fired, triggered, state, sched, client, receiver, kv, plan, defs, base>>

\* The slots of the backfill that are still to be enqueued: the end is exclusive.
Owed(b) == {t \in Slots(b.crontab) : b.cur < t /\ t < b.end}

\* One slot of the backfill, or its end.
Backfill(p) ==
  /\ poll[p].at = "backfill"
  /\ IF Owed(poll[p]) = {} THEN StartLoop(p, poll[p].end) /\ UNCHANGED fired
     ELSE LET slot == Min(Owed(poll[p]))
          IN  /\ fired' = fired \cup {slot}
              /\ poll' = [poll EXCEPT ![p].cur = slot]
              /\ UNCHANGED <<loops, gap>>
  /\ UNCHANGED <<now, triggered, state, sched, client, receiver, kv, plan, defs, base>>

\* The error is logged and the loop starts: the slots that the backfill had not come
\* to are given up.
BackfillFails(p) ==
  /\ poll[p].at = "backfill" /\ Once("fail")
  /\ StartLoop(p, poll[p].cur + 1)
  /\ UNCHANGED <<now, fired, triggered, state, sched, client, receiver, kv, defs, base>>

PollingLoop(p) ==
  \/ ListSchedules(p) \/ ListFails(p) \/ ProcessSchedules(p)
  \/ BackfillGet(p) \/ Backfill(p) \/ BackfillFails(p)

-----------------------------------------------------------------------------
(* #scheduleLoop *)

Next(l) == nextWakeupTime(l.crontab, l.last)

\* The end of an iteration: an aborted loop leaves.
Again(p, l) == Replace(p, l, IF l.live THEN {[l EXCEPT !.at = "sleep", !.last = Next(l)]} ELSE {})

\* The sleep, with jitter, ends some time after the wakeup time.
Wake(p, l) ==
  /\ l.at = "sleep" /\ Next(l) <= now
  /\ IF Next(l) \in Slots(l.crontab) THEN Replace(p, l, {[l EXCEPT !.at = "check"]}) ELSE Again(p, l)
  /\ UNCHANGED <<now, fired, triggered, state, sched, poll, client, receiver, kv, plan, marks>>

\* The workflow exists already: the slot is skipped.
CheckExisting(p, l) ==
  /\ l.at = "check" /\ state[p] # "down"
  /\ IF Next(l) \in fired THEN Again(p, l) ELSE Replace(p, l, {[l EXCEPT !.at = "enqueue"]})
  /\ UNCHANGED <<now, fired, triggered, state, sched, poll, client, receiver, kv, plan, marks>>

enqueueScheduledWorkflow(p, l) ==
  /\ l.at = "enqueue" /\ state[p] # "down"
  /\ fired' = fired \cup {Next(l)}
  /\ Replace(p, l, {[l EXCEPT !.at = "update"]})
  /\ UNCHANGED <<now, triggered, state, sched, poll, client, receiver, kv, plan, marks>>

\* The time is set, whatever it was; without a row nothing is.
updateLastFiredAt(time) == sched' = IF sched = Null THEN Null ELSE [sched EXCEPT !.last = time]

RecordFiring(p, l) ==
  /\ l.at = "update" /\ state[p] # "down"
  /\ updateLastFiredAt(Next(l))
  /\ Again(p, l)
  /\ UNCHANGED <<now, fired, triggered, state, poll, client, receiver, kv, plan, marks>>

\* An error is logged and the slot given up; once the executor is gone, every
\* call of a loop left behind is one.
FiringFails(p, l) ==
  /\ l.at # "sleep"
  /\ IF state[p] = "down" THEN UNCHANGED plan ELSE Once("fail")
  /\ gap' = gap \cup {Next(l)}
  /\ Again(p, l)
  /\ UNCHANGED <<now, fired, triggered, state, sched, poll, client, receiver, kv, defs, base>>

ScheduleLoop(p) ==
  \E l \in loops[p] :
    Wake(p, l) \/ CheckExisting(p, l) \/ enqueueScheduledWorkflow(p, l)
      \/ RecordFiring(p, l) \/ FiringFails(p, l)

-----------------------------------------------------------------------------
(* Clients *)

Row(crontab) == [crontab |-> crontab, status |-> "ACTIVE", last |-> Null, backfill |-> plan.backfill]

\* createSchedule: a name that exists is refused.
Created(crontab) == sched = Null /\ sched' = Row(crontab)

Deleted == sched' = Null

setScheduleStatus(status) == sched' = [sched EXCEPT !.status = status]

\* updateSchedule, definition fields only: the status and the last firing stay.
Updated(crontab) == sched' = [sched EXCEPT !.crontab = crontab]

\* applySchedules, an upsert: a new row, or the definition of the row that exists.
Applied(crontab) ==
  sched' = IF sched = Null THEN Row(crontab) ELSE [sched EXCEPT !.crontab = crontab]

\* A crontab that is not valid is refused before any statement.
Defines(crontab) ==
  /\ crontab \in plan.crontabs /\ validateCrontab(Crontabs[crontab])
  /\ defs' = defs \cup {crontab}

CreateSchedule ==
  /\ Dynamic /\ Once("create")
  /\ \E crontab \in plan.crontabs : Defines(crontab) /\ Created(crontab)
  /\ UNCHANGED <<now, fired, triggered, state, poll, loops, client, receiver, kv, base, gap>>

DeleteSchedule ==
  /\ Dynamic /\ sched # Null /\ Once("delete") /\ Deleted
  /\ UNCHANGED <<now, fired, triggered, state, poll, loops, client, receiver, kv, marks>>

PauseSchedule ==
  /\ Dynamic /\ sched # Null /\ Once("pause") /\ setScheduleStatus("PAUSED")
  /\ UNCHANGED <<now, fired, triggered, state, poll, loops, client, receiver, kv, marks>>

ResumeSchedule ==
  /\ Dynamic /\ sched # Null /\ Once("resume") /\ setScheduleStatus("ACTIVE")
  /\ UNCHANGED <<now, fired, triggered, state, poll, loops, client, receiver, kv, marks>>

UpdateSchedule ==
  /\ Dynamic /\ sched # Null /\ Once("update")
  /\ \E crontab \in plan.crontabs : Defines(crontab) /\ Updated(crontab)
  /\ UNCHANGED <<now, fired, triggered, state, poll, loops, client, receiver, kv, base, gap>>

ApplySchedules ==
  /\ Dynamic /\ Once("apply")
  /\ \E crontab \in plan.crontabs : Defines(crontab) /\ Applied(crontab)
  /\ UNCHANGED <<now, fired, triggered, state, poll, loops, client, receiver, kv, base, gap>>

TriggerSchedule ==
  /\ Dynamic /\ getSchedule # Null /\ Once("trigger")
  /\ triggered' = triggered \cup {now}
  /\ UNCHANGED <<now, fired, state, dynamic, receiver, kv, marks>>

\* backfillSchedule of a client: the row is read, then slot after slot enqueued.
BackfillSchedule ==
  \/ /\ Dynamic /\ getSchedule # Null /\ client = Null /\ Once("backfill")
     /\ \E end \in Times : client' = [crontab |-> getSchedule.crontab, cur |-> 0, end |-> end]
     /\ UNCHANGED <<now, fired, triggered, state, sched, poll, loops, receiver, kv, marks>>
  \/ /\ client # Null
     /\ IF Owed(client) = {} THEN client' = Null /\ UNCHANGED fired
        ELSE fired' = fired \cup {Min(Owed(client))} /\ client' = [client EXCEPT !.cur = Min(Owed(client))]
     /\ UNCHANGED <<now, triggered, state, sched, poll, loops, receiver, kv, plan, marks>>

Edit ==
  \/ CreateSchedule \/ DeleteSchedule \/ PauseSchedule \/ ResumeSchedule \/ UpdateSchedule
  \/ ApplySchedules \/ TriggerSchedule \/ BackfillSchedule

-----------------------------------------------------------------------------
(* #schedulerLoop of ScheduledReceiver *)

\* A loop that has an abort pending ends with the iteration.
Rest(p, last) == [receiver EXCEPT ![p] = IF state[p] = "up" THEN [at |-> "sleep", last |-> last] ELSE Ended]
Upcoming(p) == nextWakeupTime(plan.crontab, receiver[p].last)

\* upsertEventDispatchState keeps the larger value and returns it.
upsertEventDispatchState(time) == Max({time} \cup ({kv} \ {Null}))

\* With ExactlyOncePerInterval the loop goes on from the recorded slot.
ReceiverInit(p) ==
  /\ receiver[p].at = "init"
  /\ receiver' = Rest(p, IF plan.mode = "ExactlyOncePerInterval" /\ kv # Null THEN kv ELSE receiver[p].last)
  /\ base' = IF kv = Null THEN Max({base, receiver[p].last}) ELSE base
  /\ UNCHANGED <<now, fired, triggered, state, dynamic, kv, plan, defs, gap>>

\* The progress is recorded when the loop wakes up.
ReceiverWakeEager(p) ==
  /\ receiver[p].at = "sleep" /\ Upcoming(p) <= now
  /\ IF Upcoming(p) \in Slots(plan.crontab)
     THEN /\ receiver' = [receiver EXCEPT ![p].at = "start"]
          /\ kv' = upsertEventDispatchState(Upcoming(p))
     ELSE receiver' = Rest(p, Upcoming(p)) /\ UNCHANGED kv
  /\ UNCHANGED <<now, fired, triggered, state, dynamic, plan, marks>>

ReceiverWake(p) ==
  /\ receiver[p].at = "sleep" /\ Upcoming(p) <= now
  /\ IF Upcoming(p) \in Slots(plan.crontab)
     THEN receiver' = [receiver EXCEPT ![p].at = "start"] ELSE receiver' = Rest(p, Upcoming(p))
  /\ UNCHANGED <<now, fired, triggered, state, dynamic, kv, plan, marks>>

\* startWorkflow enqueues; an error ends the loop.
ReceiverStart(p) ==
  /\ receiver[p].at = "start"
  /\ \/ /\ fired' = fired \cup {Upcoming(p)}
        /\ receiver' = [receiver EXCEPT ![p].at = "record"] /\ UNCHANGED plan
     \/ Once("fail") /\ receiver' = [receiver EXCEPT ![p] = [at |-> "dead"]] /\ UNCHANGED fired
  /\ UNCHANGED <<now, triggered, state, dynamic, kv, marks>>

\* #setLastExecTime: the larger of the slot and what is recorded, which is also
\* where the loop goes on; an error is logged.
SetLastExecTime(p) ==
  /\ receiver[p].at = "record"
  /\ LET slot == Upcoming(p)
         larger == upsertEventDispatchState(slot)
     IN  \/ kv' = larger /\ receiver' = Rest(p, larger) /\ UNCHANGED plan
         \/ Once("fail") /\ receiver' = Rest(p, slot) /\ UNCHANGED kv
  /\ UNCHANGED <<now, fired, triggered, state, dynamic, marks>>

SchedulerLoop(p) == ReceiverInit(p) \/ ReceiverWake(p) \/ ReceiverStart(p) \/ SetLastExecTime(p)

-----------------------------------------------------------------------------
(* Processes *)

Starting(p) ==
  /\ poll' = [poll EXCEPT ![p] = IF Dynamic THEN Asleep ELSE Ended]
  /\ receiver' = [receiver EXCEPT ![p] = IF Dynamic THEN Ended ELSE [at |-> "init", last |-> now]]

\* initialize of both schedulers.
Launch(p) ==
  /\ state[p] = "down" /\ p \in plan.processes
  /\ state' = [state EXCEPT ![p] = "up"] /\ Starting(p)
  /\ UNCHANGED <<now, fired, triggered, sched, loops, client, kv, plan, marks>>

\* destroy of both schedulers aborts what sleeps and the loops it has ...
Destroy(p) ==
  /\ state[p] = "up" /\ Once("shutdown")
  /\ state' = [state EXCEPT ![p] = "stopping"]
  /\ poll' = [poll EXCEPT ![p] = IF @ = Asleep THEN Ended ELSE @]
  /\ receiver' = [receiver EXCEPT ![p] = IF @.at = "sleep" THEN Ended ELSE @]
  /\ loops' = [loops EXCEPT ![p] = Aborted(p)]
  /\ UNCHANGED <<now, fired, triggered, sched, client, kv, marks>>

\* ... and waits for them to end; then the executor is destroyed.  A loop that
\* the polling loop started meanwhile is left behind.
Destroyed(p) ==
  /\ state[p] = "stopping" /\ poll[p] = Ended /\ receiver[p].at \in {"ended", "dead"}
  /\ \A l \in loops[p] : l.live
  /\ state' = [state EXCEPT ![p] = "down"]
  /\ loops' = [loops EXCEPT ![p] = {[l EXCEPT !.owned = FALSE] : l \in @}]
  /\ UNCHANGED <<now, fired, triggered, sched, poll, client, receiver, kv, plan, marks>>

Crash(p) ==
  /\ state[p] # "down" /\ Once("crash")
  /\ state' = [state EXCEPT ![p] = "down"]
  /\ poll' = [poll EXCEPT ![p] = Ended] /\ receiver' = [receiver EXCEPT ![p] = Ended]
  /\ loops' = [loops EXCEPT ![p] = {}]
  /\ UNCHANGED <<now, fired, triggered, sched, client, kv, marks>>

Tick ==
  /\ now < MaxTime /\ now' = now + 1
  /\ UNCHANGED <<fired, triggered, state, dynamic, receiver, kv, plan, marks>>

-----------------------------------------------------------------------------

\* Some of the processes of the plan are up; a dynamic schedule exists unless the plan creates it.
Init ==
  /\ plan \in Plans
  /\ now = 0 /\ fired = {} /\ triggered = {} /\ kv = Null /\ client = Null
  /\ sched = IF Dynamic /\ "create" \notin plan.todo THEN Row(plan.crontab) ELSE Null
  /\ \E up \in SUBSET plan.processes : state = [p \in Process |-> IF p \in up THEN "up" ELSE "down"]
  /\ poll = [p \in Process |-> IF Dynamic /\ state[p] = "up" THEN Asleep ELSE Ended]
  /\ receiver = [p \in Process |-> IF ~Dynamic /\ state[p] = "up" THEN [at |-> "init", last |-> 0] ELSE Ended]
  /\ loops = [p \in Process |-> {}]
  /\ defs = {plan.crontab} /\ base = 0 /\ gap = {}

Steps(p) == PollingLoop(p) \/ ScheduleLoop(p) \/ SchedulerLoop(p)

NextStep ==
  \/ \E p \in Process : Steps(p) \/ Launch(p) \/ Destroy(p) \/ Destroyed(p) \/ Crash(p)
  \/ Edit \/ Tick

Spec == Init /\ [][NextStep]_vars

\* What does not recur for ever: time passes, processes are started again, and
\* the loops that have something to do go on.
Progress ==
  \/ Tick \/ (client # Null /\ BackfillSchedule)
  \/ \E p \in Process : ScheduleLoop(p) \/ SchedulerLoop(p) \/ Launch(p) \/ Destroyed(p)

FairSpec == Spec /\ WF_vars(Progress) /\ \A p \in Process : WF_vars(PollingLoop(p))

-----------------------------------------------------------------------------
(* Properties *)

\* The slots of a crontab, by the independent reading of it.
CronTimeTable == [c \in DOMAIN Crontabs |-> {t \in Times : CronTime(Crontabs[c], Clock(t))}]
CronTimes(crontab) == CronTimeTable[crontab]

\* What the schedule has recorded: last_fired_at, or lastState.
Recorded == IF Dynamic THEN (IF sched = Null THEN Null ELSE sched.last) ELSE kv

\* The schedule promises to make up for missed slots, and has one definition.
MakesUp == IF Dynamic THEN plan.backfill /\ Cardinality(defs) = 1 ELSE plan.mode = "ExactlyOncePerInterval"

Missing(from, to) == {t \in CronTimes(plan.crontab) : from < t /\ t <= to} \ (fired \cup gap)

\* A scheduler that makes up for missed slots never records progress past a slot
\* nobody has fired, with crashes between firing and recording and with several
\* processes that record in any order.  It counts from the last time a loop
\* started with nothing recorded.  The exceptions are what the code gives up: the
\* slots whose own firing failed; of a backfill, the slots that pass while it runs
\* and the one on whose very millisecond it ends; and, when a statement of it fails
\* or its schedule has gone, all the slots it had not come to.
NoGaps == MakesUp /\ Recorded # Null => Missing(base, Recorded) = {}

\* It does fire them in the end, also those that passed while no process ran, with
\* the same exceptions, unless the schedule is no longer active or every receiver
\* met an error.
CatchesUp ==
  <>[](MakesUp /\ now = MaxTime
       /\ (Dynamic => sched # Null /\ sched.status = "ACTIVE")
       /\ (~Dynamic => \E p \in Process : receiver[p].at # "dead")
       => Missing(base, MaxTime) = {})

=============================================================================
