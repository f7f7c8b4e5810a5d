# A verification of DBOS Transact (TypeScript)

DBOS Transact runs *durable workflows*: functions whose steps are checkpointed in
Postgres, so that they are resumed where they stopped when a process dies. These
TLA+ modules model that machinery from the source, TLC checks it on small
instances, and TLAPS proves the central properties for every instance.

## The system

Executors share nothing but the database. A workflow enters by a direct start, by a
queue, from a receiver or from a schedule; a poller claims it in a transaction and
hands it to the executor, which runs its function and records every step. A restarted
executor puts its PENDING workflows back into a queue. Workflows talk to each other
and to the outside by messages, events, streams and child workflows.

What is hard: several runs of one workflow can exist at once; the in-memory maps and
the tables change at different times; every database method may be repeated after a
lost acknowledgment (`dbRetry`); pollers decide on snapshots; notifications are lost;
two databases commit one after the other. `PROJECT.json` lists these hazards at
their lines, and maps every definition to the code it stands for.

| Part | Source | Module |
|---|---|---|
| Execution, checkpoints, recovery, cancel, resume, timeout | `dbos-executor.ts`, `system_database.ts` | Execution, implementing DurableWorkflow |
| The dequeue transaction | `system_database.ts`, `wfqueue.ts` | Dequeue |
| The scheduler of polls | `wfqueue.ts` | QueueRunner |
| Deduplication, delays, debouncing | `system_database.ts`, `debouncer.ts`, `client.ts` | Intake |
| Messages and durable sleep | `system_database.ts`, `dbos.ts` | Messaging |
| Events, streams, the poll limiter | `system_database.ts`, `dbos.ts` | Publishing |
| Children, cascading cancellation, fork, export, import, deletion, garbage collection | `system_database.ts`, `dbos-executor.ts` | Lineage |
| Schedules and scheduled decorators | `scheduler/` | Crontab (pure), Scheduler |
| Transactions in the application's database | `datasource.ts`, `packages/*-datasource` | DataSource |
| Kafka and SQS receivers | `packages/*-receive` | Receivers |
| Listings, application versions | `system_database.ts` | Observability (pure) |
| Conductor and admin server | `conductor/`, `adminserver.ts` | Handlers (the requests), Management (the connection, and requests beside the engine) |

## How the modules are written

One action is what the code does between two points at which others can interleave:
an `await`, a callback, a commit. A method of the system database that is one
transaction is one action; a variant that commits and whose answer is lost is repeated, as
`dbRetry` does. Results, inputs and names are abstract values. Counters of faults are bounded
by constants named `Max...`. An operator commented *Mutant* is a plausible bug; no
specification uses it. `MC...` modules give the constants values for TLC.

* **DurableWorkflow**: what durable execution promises: a log of step results that
  grows in order and is never rewritten, and one outcome, the one the log leads to.
* **Execution**: a *run* is one invocation of the workflow function; its `pc` says which
  `await` it is at. `recordOperationResult` is two statements and so two actions.
  `recorder` stands for the completion time by which a run knows its own checkpoint.
  `undispatched`, a history field of a row, marks a claim that nobody dispatched.
* **Dequeue**: a poll is counting local workflows, counting in the snapshot,
  locking, marking and committing, dispatching. `rank` is a row's place in
  `ORDER BY priority, created_at`. `stale` has the rows that changed since the
  snapshot: locking one fails (40001), as locking a locked one does with NOWAIT (55P03).
  The queue is chosen in Init from `Queues`.
* **QueueRunner**: the queues the process listens to, due times, intervals with backoff and wake-ups of the polls that share
  a number of lanes, and the reconciliation with the queues table.
* **Intake**: calls that contend for one deduplication ID, for one workflow or several, each with its retries and its
  checkpoints; `took` and `returned` are history variables.
* **Messaging**: senders, the runs of a receiving workflow, the callback maps, the
  LISTEN connection. **Publishing**: the runs of a writer, readers and getters, the batched
  notifier and the limiter's queue, with polls that throw while they hold a permit.
* **Lineage**: a family of three generations and a fork, with operators that
  cancel, delete, fork, export, import and collect, statement by statement.
* **DataSource**: `runTransaction` and its seven handlers as one protocol; a record says in what
  a handler differs (isolation, replay of errors, its table).
* **Receivers**: batches, offsets, redelivery, rebalancing, `#assignBatchCreatedAt`. A consumer that joins again
  starts at the committed offset.
* **Scheduler**: both loops on every process, edits, backfills, triggers; **Crontab** computes
  the slots from parsed fields.
* **Observability**: the filters of listings as operators on a table. **Handlers**: each
  request as a list of statements, with the answer of its own catch. **Management**: the websocket's life, and the
  handlers interleaved with the engine's own changes.

The `ws` library is external: a refused upgrade leaves the socket connecting until it is
terminated, terminating or closing during the handshake emits error and close, the close event
of a terminated socket comes before timers, sending on a socket that is not open is dropped.
Postgres, the Kafka and SQS clients, and the application's functions are external in the same sense.

## Runs

| Run | Instance | Shows |
|---|---|---|
| exec_crash | 2 executors, 1 workflow of 2 steps, 3 run slots, 3 crashes, 1 lost answer, 1 lost or failed dispatch, an input that may be unreadable | one runner, no PENDING row orphaned but by that dispatch, the attempts limit, the refinement of DurableWorkflow, every workflow settles |
| exec_cancel | the same with cancel, timeout, resume, recovery of live executors and lost claims, any three events | runs agree, outcomes stay, cancelled until resumed, an exact running map |
| dequeue | 2 executors, 3 workflows, one fault, five queues: global and worker limit, worker limit, two versions, rate limit with two executors and with one | the limits, one claimer, no workflow left behind |
| queue_runner | 1 in-memory and 1 database queue on 1 lane, and a row with the name of a queue in memory that is not listened to | one poll per queue, within the lanes; none starved |
| intake | eight meetings of seven callers, one of them for another workflow; 2 faults | one answer per call, an input taken once and by the workflow that is returned |
| messaging | 1 sender of 2 messages, 2 runs, three plans | exactly once, agreement, order, no lost wake-up, calls return |
| publishing | set, write, a step that writes, set, close; 2 runs, 2 getters, 1 reader in four meetings, 1 permit, 2 faults | what is published is what is logged; readers and getters; the limiter |
| lineage | family r/c/g and s/e, fork f/d, ten plans | only late children escape a cascade, copies agree with the log, waits end |
| scheduler | 2 processes, nine plans, eight crontabs around a new year | no progress past a slot nobody fired; missed slots are fired |
| datasource | 7 handlers, 10 configurations, 3 faults | writes once in both databases, crashes invisible |
| receivers | 3 kinds, 2 processes, 3 messages | nothing lost or started twice; order |
| management | 5 rows, every request with one fault, pairs of requests with one failure beside the engine, the connection alone with four faults | one connection, which comes back; truthful answers |

*The bounds.* Two runs race for a checkpoint and a third is dispatched meanwhile: three
run slots; slots are reused. Two steps give a first and a last one. Two pollers and three workflows
with limits of one or two let a limit be reached and exceeded. A fault count of one to three lets any
fault meet any point of the code, and a second one its handling. Plans and meetings
are chosen in Init, so that one run covers many small programs. Runs take from seconds to three and
a quarter minutes, and 35,000 to 2,250,000 distinct states.
Deadlock is checked where the system never stops (pollers); elsewhere programs end.

*Fairness.* Weak fairness only. Execution: each run's own steps (promises settle, functions return),
the dequeue of each workflow (the runner polls for ever) and restarts. Dequeue: each executor's
poll, and executions, which end. QueueRunner: the scheduler, the clock, each poll. Messaging:
the clock and each run. Lineage: some run or operation that is under way goes on; there are
finitely many. Scheduler: time, loops that have work, and each process's polling. Management: what the event loop and the peer
owe the connection (handshakes, events, timers) and the ping timer. Nothing is assumed of cancels, resumes,
crashes or failures except that there are finitely many.

## Proofs

They hold for any sets of executors, workflows and runs, any number of steps, any queue
configuration, program, limit and number of faults that the named assumptions of the modules allow.

| Theorem | Says | Assumes |
|---|---|---|
| TypeCorrect | `[]TypeOK` of Execution | |
| RunsAgree | `[]ReplayAgreement` | `~SameMs` |
| OutcomesFollowCheckpoints | `[]OutcomeFromCheckpoints` | `~SameMs`, every input can be read |
| OutcomesAreFinal | `OutcomeStable` | `~SameMs`, every input can be read |
| CancellationHolds | `CancelledUntilResumed` | |
| ExecutionIsDurable | Execution implements DurableWorkflow | `~SameMs`, every input can be read |
| OneRunnerOnly | `[]OneRunner` | `~SweepLive`, no resumes |
| RunningMapIsExact | `[]RunningMapExact` | |
| PendingIsHeld | `[]PendingHasRunner` | `~SweepLive`, no resumes |
| AttemptsAreBounded | `[]RecoveryAttemptsBound` | `~SweepLive`, no resumes |
| DequeueTypes | `[]TypeOK` of Dequeue | |
| ClaimsAreExclusive | `[]ClaimedByOne` | |
| VersionsAreKept | `VersionKept` | |
| RateLimitHolds | `[]RateLimitRespected` | |
| WorkerLimitHolds | `[]WorkerConcurrencyRespected` | |
| GlobalLimitHolds | `[]ConcurrencyRespected` | workflows arrive in order, one version |
| TransactionsApplyOnce | `[]AppliedOnce` | |
| CrashesAreTransparent | `[]CrashTransparent` | |
| PublishedIsLogged | `[]PublishedMatchesLog` | `~SameMs` |
| ReadersSeeAll | `[]ReaderSeesAll` | |
| GettersAgree | `[]GetEventAgrees` | `~SameMs` |
| PermitsAreConserved | `[]PermitsConserved` | finitely many readers |
| MessagesOnce | `[]ExactlyOnce` | `~SameMs` |
| RecvsAgree | `[]RunsAgree` of Messaging | `~SameMs` |
| OrderIsKept | `[]SenderOrder` | `~SameMs` |
| WakeUpsAreKept | `[]NoLostWakeup` | `~SameMs` |
| OneResult | `[]ReplayAgrees` | a start is not the first call of its workflow |
| InputGoesToOne | `[]AbsorbedOnce` | |
| ToldWhoTook | `[]HandleTookInput` | |
| MessagesProcessedOnce | `[]ProcessedOnce` | |
| PartitionOrder | `[]OrderKept` | |

The assumptions are needed. `~SameMs`: no two runs complete one step in the same millisecond
(`ExecSameMs.cfg` and `PublishingSameMs.cfg` are the counterexamples without it), and in Messaging no two messages of a sender are
created in one either, since the code orders them by it. A start under function ID 0
is the case of `IntakeFirstCall.cfg`. `~SweepLive`: recovery is only asked for
executors that are dead; recovery of a live one starts a second run by design, as a resume of a
running workflow does. An executor that cannot read a workflow's input records ERROR, though a run of
another executor that can is under way and will overwrite it: the finality of outcomes needs that all can (and
`ExecCancel.cfg`, which has such second executors, has `Unreadable = {}`). For the global limit see `DequeueOrder.cfg` below.

**Execution** (`ExecutionProofs`, `OutcomeProofs`). `ReplayAgreement` is not inductive: a run about to
record must also know that the checkpoint bearing its stamp holds its value, and that
checkpoints have no gaps. `LogInv` adds that: `Agrees` relates each run at each `pc` to the
tables, `LogGrowsInOrder` says a checkpoint follows those before it, `StampsMarkCheckpoints` that
stamps and checkpoints come together. `OutcomeInv` adds that a recorded outcome is
a complete log; hence no checkpoint can follow it, outcomes are final, and each step is
an abstract step or a stutter.

**Recovery** (the second halves of `ExecutionProofs` and `OutcomeProofs`). The actions are first summed up in a few kinds of step:
what a run does to itself, to the row it holds, to the map; claims, crashes, sweeps. `SoleInv`
says that an invocation, from the claim on, is on a live executor that the row names, while
the row is not in the queue: so neither a poll nor a sweep finds it. `MapInv` is the running map in
inductive form: the entry of a workflow is held by one registered run, and only its holder
releases it. With one runner nobody records but itself (`Unopposed`), so that no run is
left waiting for another, and a run gives up only a row that is no longer PENDING (`PendingInv`).
`AttemptsInv` counts: every attempt but the first is paid for by a crash or a
lost answer, and one that is due but not yet counted has a disruption to spare.

**Dequeue** (`DequeueProofs`). `Inv` says where a workflow can be (`OwnInv`), that a
row is locked by one poll and stays eligible for it (`LockInv`), and that ranks differ (`RankInv`). The worker
limit adds `SeenInv` and `WorkerInv`: the count taken before the transaction stays an upper bound, since
the map only shrinks during a poll. For the rate limit `RateInv` says that what an executor has started since
the moment its poll counted from is within that count, so that what the poll adds stays within the limit in every
period. The global limit is the delicate one: two polls that
do not see each other both claim up to the limit. They cannot both commit, because both take
the front of the queue and the second fails on a stale or locked row. `BudgetInv` says this for any set
of polls that could still all commit: what is PENDING together with what they can reach
stays within the limit. A poll's reach includes rows that came in after its snapshot before a row of its plan;
with arrivals in order there are none, which is where the assumption enters.

**DataSource**. `RecordInv`: while a transaction holds the uncommitted completion row no other is
committed, and what a process is about to checkpoint is what the row says. `CalmInv` adds, for
executions without lost connections and second executions, that one process at a time is on
the step, and served: the process is up or its shutdown waits for it.

**Publishing**. `LogInv`, `StreamInv` and `EventInv`: calls are recorded in order, and the stream and
the event are functions of what is recorded, although a commit may be unanswered and
two runs may make one call. `GetInv`: whoever has an answer has the recorded one. `QueueInv` and `PermitInv`: whoever queues is in the queue once, and holders and free
permits add up, through timeouts and hand-overs of a permit.

**Messaging**. The two tables are tied together: `SentInv` (a durable send and its checkpoint are one, and a
key admits one message) and `ReceivedInv` (the consumed messages are those recorded, by
one step each) give `ExactlyOnce`. For the order `TimeInv` says that creation times follow a sender's
numbers and `FrontInv` that no unread message precedes one that was received, or that a run is about
to take in its transaction; `CallsInv` that recvs are recorded in the order of the calls, so that a run that
returns finds what the others returned. `WakeInv` follows a callback from its registration to the poll:
a run that saw nothing is listening, and once there is a message it is woken or a notification is on its way.

**Intake**. The checkpoints of a call form a path: each ends the call or says which operation comes next.
`LogInv` gives the checkpoints an operation may have, `PlaceInv` says that a call stands
at the end of a prefix of the path, `ReturnInv` that what was returned is what the last checkpoint
says, `TookInv` that the input went to the workflow of the last checkpoint or to the row that the next operation
inserts. A recovered call walks the same path, so it cannot leave it. `ClientInv` and
`HandleInv` are the same for callers without checkpoints.

**Receivers**. `Durable`: everything before the committed offset, and before the position of any process, is
in the table or was dropped, whoever put it there; an SQS message in hand past its start, or deleted, is in the
table. `Ordered`, while the partition moves between batches only: the batch in hand is the owner's
(`FloorInv`), the rows are a prefix of the partition (`PrefixInv`), the stamps of active rows
grow with the offset (`StampsInv`), and the floor of the next stamp, be it the cursor, the
seed that was read or the stamp that was drawn, is above them all. `clean`, a history variable in
the property itself, is where the order needs the moves it excludes.

*Only model-checked.* Liveness (`Completion`, `AllStarted`, `CallsReturn`, `PolledForever`,
`AwaitReturns`, `CatchesUp`, `Reconnects`): fairness is out of the prover's reach. `LanesBounded` is about
a filtered sequence, whose properties need induction over data. Management and Handlers run request scripts by
recursion (`OneConnection`, `Acknowledged`). Lineage and Scheduler (`OnlyLateChildrenEscape`, `CopiesAgree`,
`NoGaps`) are checked on families and plans given case by case, and have no proofs.

## Where code and words disagree

TLC finds a counterexample on each of these instances, whose configurations are kept here:

| Configuration | Property | Against |
|---|---|---|
| ExecSameMs | MarkerProvesWin | "Winning the checkpoint proves this executor is advancing the workflow" (`system_database.ts:4402`): a won checkpoint is recognised by its millisecond, which two runs can share |
| ExecResumeBlocked | Completion | `dbos-executor.ts:802`: a resume that reaches an executor whose cancelled run still unwinds is dropped at line 831 |
| DequeueOrder | ConcurrencyRespected | `wfqueue.ts:48`: with priorities (or skewed clocks of enqueuers, or mixed versions) two pollers choose disjoint rows and exceed the global limit |
| DequeueRateRace | RateLimitGlobal | `wfqueue.ts:31`: two executors that count in the same moment together exceed the rate limit; each one alone keeps it (RateLimitHolds) |
| PublishingSameMs | PublishedMatchesLog | `system_database.ts:4394`: a run that completes a write in the millisecond of the other's does not see the conflict, and the value is in the stream twice |
| IntakeFirstCall | ReplayAgrees | a deduplication error met at function ID 0 is not recorded (`dbos-executor.ts:657`), so that a recovery may see another answer |
| DataSourceRerun | RerunAgrees | the TypeORM handler does not throw a recorded error again (`typeorm-datasource/index.ts:139`) |

Also: `Completion` fails with `SweepLive` and one crash (a run that lost a
checkpoint waits, holding its map entry, for a result that only the dispatch it blocks would
produce). `RateLimitRespected` does not count workflows that were cancelled or recovered since they started, as the
code does not, and is about the times the code records, not about when a function really begins. Attempts equal to
`maxRetries + 1` are still run (comment at `system_database.ts:862`).

Behaviour that the properties make an exception of, each written into the property or the model:

* Execution: a claim whose answer was lost, or whose dispatch threw and was logged (`wfqueue.ts:648`), leaves a PENDING row that nobody runs until its executor restarts.
* Messaging: sends of one millisecond have no order; an unkeyed direct send that is retried after a lost answer is sent twice.
* Publishing: a call replayed after a lost answer notifies nobody (readers poll).
* Intake: a debounce from outside a workflow that is retried after a lost answer may run an input twice.
* Lineage: a child inserted after its parent's level was swept escapes; a copy of a running workflow need not be consistent; deleting a child leaves its parent waiting.
* Scheduler: not made up for are a slot whose own firing failed, slots that pass during a backfill or fall on the very millisecond it ends at, and the remaining slots of a backfill of which a statement fails or whose schedule is gone; a decorator's loop ends on an error.
* Receivers: the cursor of created-at times a process kept breaks the order when a partition comes back to it.
* DataSource: a lost COMMIT answer or a second execution is checkpointed as a conflict error of the step (`dbos-executor.ts:1172`); the knex and kysely packages read a fixed schema.
* Management: changing a missing version or schedule reports success, and so does a cascade whose descendants a concurrent deletion has cut off from their root; the queue metadata and deactivate routes go on after an error; an empty list is an error to listings.

## Not modelled

The database trigger receiver (generated SQL), HTTP serving, the S3 workflows, migrations, serialization,
configuration, errors, telemetry, the command line, decorators and registration, and the
message formats of the Conductor: they hold no protocol state or convert data. Aggregates, step lists and
metrics are single queries; only when a request for them is refused is modelled. In Messaging a sender is one run of its
workflow: two runs that race for one checkpoint are the subject of Execution and Publishing, whose code it shares. Left out of
Execution: patches, temporary workflows, and database failures that outlast `dbRetry`; a
restart and its recovery sweep are one step.
