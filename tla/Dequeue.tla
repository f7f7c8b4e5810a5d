------------------------------- MODULE Dequeue -------------------------------
(***************************************************************************)
(* Dequeuing from one queue, or from one partition of a partitioned queue: *)
(* the transaction of findAndMarkStartableWorkflows (system_database.ts)   *)
(* run by the pollers of several executors, with the flow control the      *)
(* queue asks for: worker concurrency, global concurrency, a rate limit,   *)
(* application versions and the order of the queue.                        *)
(*                                                                         *)
(* The isolation of the database is modelled: with a global limit the      *)
(* transaction is REPEATABLE READ, so what it counts and selects is of the *)
(* snapshot its first query takes, and locking a row that changed since    *)
(* then fails; without one every statement sees the committed rows.        *)
(***************************************************************************)
EXTENDS Naturals, FiniteSets

CONSTANTS
    Executors,
    NumWorkflows,
    Queues,   \* configurations of the queue, and what may happen to it
    MaxTime,
    Null

Workflows == 1 .. NumWorkflows

FaultKinds == {"crash", "cancel", "poll", "dispatch"}

\* old: the executors that run an older application version; inOrder: later
\* workflows queue behind earlier ones; versioned: workflows carry the version
\* of who enqueued them; faults and kinds: how many faults there may be (crashes,
\* cancellations, failed polls and failed dispatches), and of which kinds.
QueueType ==
    [executors : SUBSET Executors, old : SUBSET Executors, workflows : SUBSET Workflows,
     concurrency : Nat \cup {Null}, workerConcurrency : Nat \cup {Null},
     limitPerPeriod : Nat \cup {Null}, period : Nat \ {0},
     inOrder : BOOLEAN, versioned : BOOLEAN,
     faults : Nat, kinds : SUBSET FaultKinds]

ASSUME DequeueAssumption ==
    /\ NumWorkflows \in Nat /\ MaxTime \in Nat
    /\ Queues \subseteq QueueType
    /\ Null \notin Nat \cup Executors

VARIABLES
    queue,    \* the configuration of the queue
    rows,     \* the rows of workflow_status of the queue
    tx,       \* the poll each executor is in, and its transaction
    running,  \* workflows of the queue in each executor's runningWorkflowMap
    ended,    \* workflows whose function returned, outcome not recorded yet
    up,       \* executors that are alive
    now,      \* the clock
    faults    \* how often each kind of fault happened

vars == <<queue, rows, tx, running, ended, up, now, faults>>

Concurrency == queue.concurrency

WorkerConcurrency == queue.workerConcurrency

RateLimit == queue.limitPerPeriod

Period == queue.period

-----------------------------------------------------------------------------
(* Rows.  rank is the place of the row in ORDER BY priority, created_at.   *)

VersionOf(e) == IF e \in queue.old THEN "old" ELSE "latest"

\* A fault of some kind happens, if the queue may meet another one.
Fault(kind) ==
    /\ kind \in queue.kinds
    /\ faults["poll"] + faults["dispatch"] + faults["crash"] + faults["cancel"] < queue.faults
    /\ faults' = [faults EXCEPT ![kind] = @ + 1]

NoRow == [status |-> "NONE", owner |-> Null, version |-> "none", rank |-> 0, started |-> Null]

ClaimedRow(row, e, start) ==
    [row EXCEPT !.status = "PENDING", !.owner = e, !.version = VersionOf(e), !.started = start]

\* A version is required to match; a row without one is for the latest version.
Eligible(e) ==
    {w \in Workflows : /\ rows[w].status = "ENQUEUED"
                       /\ \/ rows[w].version = VersionOf(e)
                          \/ rows[w].version = "none" /\ VersionOf(e) = "latest"}

\* The first n of S in the order of the queue.
First(S, n) == {w \in S : Cardinality({x \in S : rows[x].rank < rows[w].rank}) < n}

\* Mutant: only workflows that still run count as started.
RecentlyStartedRunning(start) ==
    {w \in Workflows : /\ rows[w].status = "PENDING"
                       /\ rows[w].started # Null
                       /\ rows[w].started + Period > start}

\* Started in the period, as the rate limiter counts.  A cancelled workflow has
\* no queue name any more.
RecentlyStarted(start) ==
    {w \in Workflows : /\ rows[w].status \in {"PENDING", "DONE"}
                       /\ rows[w].started # Null
                       /\ rows[w].started + Period > start}

Pending == {w \in Workflows : rows[w].status = "PENDING"}

-----------------------------------------------------------------------------
(* Transactions.  pc: idle, connect (running workflows counted, waiting    *)
(* for a connection), counted (limits computed, snapshot taken), selected  *)
(* (rows locked), dispatch (committed, starting the claimed workflows).    *)

NoTx == [pc |-> "idle", local |-> 0, start |-> 0, recent |-> 0, max |-> 0,
         seen |-> {}, stale |-> {}, locked |-> {}, claimed |-> {}]

\* Mutant: the isolation level is raised for rate limits only.
RepeatableReadForRates == RateLimit # Null

RepeatableRead == Concurrency # Null \/ RateLimit # Null

NoWait == Concurrency # Null

LockedByOthers(e) == UNION {tx[x].locked : x \in Executors \ {e}}

Minus(a, b) == IF a > b THEN a - b ELSE 0

Smaller(a, b) == IF a < b THEN a ELSE b

\* Mutant: the workflows that already run here are not subtracted.
MaxTasksIgnoringLocal(local) ==
    LET all == Cardinality(Workflows)
        worker == IF WorkerConcurrency = Null THEN all ELSE WorkerConcurrency
        global == IF Concurrency = Null THEN all ELSE Minus(Concurrency, Cardinality(Pending))
    IN  Smaller(worker, global)

MaxTasks(local) ==
    LET all == Cardinality(Workflows)
        worker == IF WorkerConcurrency = Null THEN all ELSE Minus(WorkerConcurrency, local)
        global == IF Concurrency = Null THEN all ELSE Minus(Concurrency, Cardinality(Pending))
    IN  Smaller(worker, global)

\* The rows in S change: a snapshot that was taken before is stale there.
Touch(txs, S) ==
    [e \in Executors |->
        IF txs[e].pc = "counted" THEN [txs[e] EXCEPT !.stale = @ \cup S] ELSE txs[e]]

PollQueue(e) ==
    /\ up[e] /\ tx[e].pc = "idle"
    /\ tx' = [tx EXCEPT ![e] = [NoTx EXCEPT !.pc = "connect", !.start = now,
                                            !.local = Cardinality(running[e])]]
    /\ UNCHANGED <<queue, rows, running, ended, up, now, faults>>

\* BEGIN and the counts; returns when a limit is reached.
CountTasks(e) ==
    LET recent == IF RateLimit = Null THEN 0 ELSE Cardinality(RecentlyStarted(tx[e].start))
        max == MaxTasks(tx[e].local)
        limited == (RateLimit # Null /\ recent >= RateLimit) \/ max = 0
    IN  /\ tx[e].pc = "connect"
        /\ tx' = [tx EXCEPT ![e] =
               IF limited THEN NoTx
               ELSE [@ EXCEPT !.pc = "counted", !.recent = recent, !.max = max,
                              !.seen = IF RepeatableRead THEN Eligible(e) ELSE {}]]
        /\ UNCHANGED <<queue, rows, running, ended, up, now, faults>>

\* FOR UPDATE NOWAIT fails on locked rows, FOR UPDATE SKIP LOCKED passes them over.
Candidates(e) ==
    LET pool == IF RepeatableRead THEN tx[e].seen ELSE Eligible(e)
    IN  IF NoWait THEN pool ELSE pool \ LockedByOthers(e)

\* lock_not_available and serialization_failure.
Contention(e, S) ==
    \/ NoWait /\ S \cap LockedByOthers(e) # {}
    \/ RepeatableRead /\ S \cap tx[e].stale # {}

SelectForUpdate(e) ==
    LET chosen == First(Candidates(e), tx[e].max)
    IN  /\ tx[e].pc = "counted"
        /\ tx' = [tx EXCEPT ![e] = IF Contention(e, chosen) THEN NoTx
                                   ELSE [@ EXCEPT !.pc = "selected", !.locked = chosen]]
        /\ UNCHANGED <<queue, rows, running, ended, up, now, faults>>

\* The UPDATE of each row, and COMMIT.
MarkPending(e) ==
    LET t == tx[e]
        startable == {w \in t.locked : rows[w].status = "ENQUEUED"}
        claimed == IF RateLimit = Null THEN startable
                   ELSE First(startable, Minus(RateLimit, t.recent))
        committed == IF claimed = {} THEN NoTx
                     ELSE [NoTx EXCEPT !.pc = "dispatch", !.claimed = claimed]
    IN  /\ t.pc = "selected"
        /\ rows' = [w \in Workflows |->
               IF w \in claimed THEN ClaimedRow(rows[w], e, t.start) ELSE rows[w]]
        /\ tx' = Touch([tx EXCEPT ![e] = committed], claimed)
        /\ UNCHANGED <<queue, running, ended, up, now, faults>>

\* A query fails: ROLLBACK, and the poll is over.
PollFails(e) ==
    /\ tx[e].pc \in {"connect", "counted", "selected"}
    /\ tx' = [tx EXCEPT ![e] = NoTx]
    /\ Fault("poll")
    /\ UNCHANGED <<queue, rows, running, ended, up, now>>

\* Claimed workflows are started one after the other; the poll ends with the last.
Dispatched(t, w) ==
    IF t.claimed = {w} THEN NoTx ELSE [t EXCEPT !.claimed = @ \ {w}]

\* The entry of a workflow that was cancelled meanwhile has no queue name: it does
\* not count for this queue, and its function stops at the first step.
Dispatch(e, w) ==
    /\ w \in tx[e].claimed
    /\ running' = [running EXCEPT ![e] = IF rows[w].status = "CANCELLED" THEN @ ELSE @ \cup {w}]
    /\ tx' = [tx EXCEPT ![e] = Dispatched(@, w)]
    /\ UNCHANGED <<queue, rows, ended, up, now, faults>>

\* executeWorkflowId throws: a warning, and the row stays PENDING.
DispatchFails(e, w) ==
    /\ w \in tx[e].claimed
    /\ tx' = [tx EXCEPT ![e] = Dispatched(@, w)]
    /\ Fault("dispatch")
    /\ UNCHANGED <<queue, rows, running, ended, up, now>>

-----------------------------------------------------------------------------
(* The rest of a workflow's life, and the environment.                     *)

UsedRanks == {rows[w].rank : w \in {x \in Workflows : rows[x].status # "NONE"}}

\* IDs carry no meaning: the next workflow is the one with the next ID.
Enqueue(w) ==
    /\ rows[w].status = "NONE"
    /\ \A v \in queue.workflows : v < w => rows[v].status # "NONE"
    /\ \E rank \in (1 .. Cardinality(Workflows)) \ UsedRanks,
          version \in IF queue.versioned THEN {"old", "latest", "none"} ELSE {"none"} :
           /\ queue.inOrder => \A k \in UsedRanks : k < rank
           /\ rows' = [rows EXCEPT ![w] =
                  [NoRow EXCEPT !.status = "ENQUEUED", !.version = version, !.rank = rank]]
    /\ UNCHANGED <<queue, tx, running, ended, up, now, faults>>

\* The function returns: the map's entry is released before the outcome is recorded.
FinishBody(e, w) ==
    /\ w \in running[e]
    /\ running' = [running EXCEPT ![e] = @ \ {w}]
    /\ ended' = [ended EXCEPT ![e] = @ \cup {w}]
    /\ UNCHANGED <<queue, rows, tx, up, now, faults>>

\* The UPDATE spares a cancelled row.
RecordOutcome(e, w) ==
    LET changed == IF rows[w].status = "CANCELLED" THEN {} ELSE {w}
    IN  /\ w \in ended[e]
        /\ ended' = [ended EXCEPT ![e] = @ \ {w}]
        /\ rows' = [x \in Workflows |->
               IF x \in changed THEN [rows[x] EXCEPT !.status = "DONE"] ELSE rows[x]]
        /\ tx' = Touch(tx, changed)
        /\ UNCHANGED <<queue, running, up, now, faults>>

\* The UPDATE waits for the row's lock.  queue_name becomes NULL as well.
Cancel(w) ==
    /\ rows[w].status \in {"ENQUEUED", "PENDING"}
    /\ \A e \in Executors : w \notin tx[e].locked
    /\ rows' = [rows EXCEPT ![w].status = "CANCELLED", ![w].started = Null]
    /\ tx' = Touch(tx, {w})
    /\ Fault("cancel")
    /\ UNCHANGED <<queue, running, ended, up, now>>

\* The clock matters to the rate limiter only.
Tick ==
    /\ RateLimit # Null /\ now < MaxTime
    /\ now' = now + 1
    /\ UNCHANGED <<queue, rows, tx, running, ended, up, faults>>

Crash(e) ==
    /\ up[e]
    /\ up' = [up EXCEPT ![e] = FALSE]
    /\ running' = [running EXCEPT ![e] = {}]
    /\ ended' = [ended EXCEPT ![e] = {}]
    /\ tx' = [tx EXCEPT ![e] = NoTx]
    /\ Fault("crash")
    /\ UNCHANGED <<queue, rows, now>>

\* Mutant: the workflows of every executor are recovered.
RecoveredAny(e) == Pending

\* Mutant: workflows from a queue are left alone.
RecoveredNone(e) == {}

Recovered(e) == {w \in Pending : rows[w].owner = e /\ rows[w].version = VersionOf(e)}

\* Recovery puts the workflows the executor had claimed back into the queue.
Restart(e) ==
    LET mine == Recovered(e)
    IN  /\ ~up[e]
        /\ up' = [up EXCEPT ![e] = TRUE]
        /\ rows' = [w \in Workflows |->
               IF w \in mine THEN [rows[w] EXCEPT !.status = "ENQUEUED", !.started = Null]
               ELSE rows[w]]
        /\ tx' = Touch(tx, mine)
        /\ UNCHANGED <<queue, running, ended, now, faults>>

-----------------------------------------------------------------------------
Init ==
    /\ queue \in Queues
    /\ rows = [w \in Workflows |-> NoRow]
    /\ tx = [e \in Executors |-> NoTx]
    /\ running = [e \in Executors |-> {}]
    /\ ended = [e \in Executors |-> {}]
    /\ up = [e \in Executors |-> TRUE]
    /\ now = 0
    /\ faults = [kind \in FaultKinds |-> 0]

PollStep(e) ==
    \/ PollQueue(e) \/ CountTasks(e) \/ SelectForUpdate(e) \/ MarkPending(e)
    \/ \E w \in Workflows : Dispatch(e, w)

\* The rest of what executors do, of which there is only so much.
Progress ==
    \E e \in queue.executors :
        Restart(e) \/ \E w \in Workflows : FinishBody(e, w) \/ RecordOutcome(e, w)

Next ==
    \/ Progress
    \/ \E e \in queue.executors :
           \/ PollStep(e) \/ PollFails(e) \/ Crash(e)
           \/ \E w \in Workflows : DispatchFails(e, w)
    \/ \E w \in queue.workflows : Enqueue(w) \/ Cancel(w)
    \/ Tick

Spec == Init /\ [][Next]_vars

\* Queues are polled for ever, transactions end, functions return.
Fairness ==
    /\ \A e \in Executors : WF_vars(e \in queue.executors /\ PollStep(e))
    /\ WF_vars(Progress)

FairSpec == Spec /\ Fairness

-----------------------------------------------------------------------------
(* Properties.                                                             *)

RowType ==
    [status : {"NONE", "ENQUEUED", "PENDING", "DONE", "CANCELLED"},
     owner : Executors \cup {Null}, version : {"old", "latest", "none"},
     rank : Nat, started : Nat \cup {Null}]

TxType ==
    [pc : {"idle", "connect", "counted", "selected", "dispatch"},
     local : Nat, start : 0 .. MaxTime, recent : Nat, max : Nat,
     seen : SUBSET Workflows, stale : SUBSET Workflows,
     locked : SUBSET Workflows, claimed : SUBSET Workflows]

\* Types; a workflow that is PENDING has an owner and a start time.
TypeOK ==
    /\ queue \in QueueType
    /\ rows \in [Workflows -> RowType]
    /\ tx \in [Executors -> TxType]
    /\ running \in [Executors -> SUBSET Workflows]
    /\ ended \in [Executors -> SUBSET Workflows]
    /\ up \in [Executors -> BOOLEAN]
    /\ now \in 0 .. MaxTime
    /\ faults \in [FaultKinds -> Nat]
    /\ \A w \in Pending : rows[w].owner \in Executors /\ rows[w].started # Null

\* "this limits the number of running workflows globally in the app": PENDING
\* workflows of the queue never exceed concurrency, though each poller counts
\* them in a snapshot of its own.
ConcurrencyRespected ==
    Concurrency # Null => Cardinality(Pending) <= Concurrency

\* "this limits the number of running workflows for a single DBOS process": what
\* runs and what was claimed to be run here never exceed workerConcurrency,
\* though the count was taken before the transaction began.
WorkerConcurrencyRespected ==
    WorkerConcurrency # Null =>
        \A e \in Executors : Cardinality(running[e] \cup tx[e].claimed) <= WorkerConcurrency

\* A workflow is claimed by one poller: "otherwise another worker won the race
\* and we must not re-dispatch it".
ClaimedByOne ==
    \A d, e \in Executors : d # e =>
        (running[d] \cup tx[d].claimed) \cap (running[e] \cup tx[e].claimed) = {}

\* The workflows that were started in the period from t on and have been neither
\* cancelled nor recovered since; a start is dated as started_at_epoch_ms dates it.
StartedWithin(t) ==
    {w \in Workflows : /\ rows[w].status \in {"PENDING", "DONE"}
                       /\ rows[w].started # Null
                       /\ t <= rows[w].started /\ rows[w].started < t + Period}

\* One executor starts no more workflows in a period than the limit, whichever
\* period and whatever the others count, claim, cancel or recover between its own
\* count and its own claim: all of them together stay within the limit times their
\* number.
RateLimitRespected ==
    RateLimit # Null =>
        \A e \in Executors, t \in 0 .. MaxTime :
            Cardinality({w \in StartedWithin(t) : rows[w].owner = e}) <= RateLimit

\* "If the limit is 5 and the period is 10, no more than 5 functions can be
\* started per 10 seconds": the limit is one for all executors.  It is not: two
\* that count in the same moment both start as many as are left.
RateLimitGlobal ==
    RateLimit # Null =>
        \A t \in 0 .. MaxTime : Cardinality(StartedWithin(t)) <= RateLimit

\* A workflow runs on the version it was enqueued for, and one that was enqueued
\* for no version stays on the version that first started it, recovery included.
VersionKept ==
    [][\A w \in Workflows : rows[w].version # "none" => rows'[w].version = rows[w].version]_vars

\* Every workflow in the queue is started, contention between pollers and limits
\* notwithstanding, unless one that could not be started keeps its place.
AllStarted ==
    RateLimit = Null =>
        \A w \in Workflows : []<>(rows[w].status # "ENQUEUED" \/ faults["dispatch"] > 0)
=============================================================================
