----------------------------- MODULE Receivers -----------------------------
(***************************************************************************)
(* The receivers that turn the messages of an external source into durable *)
(* workflows: one partition of a Kafka topic read by a group of processes  *)
(* with the KafkaJS or the Confluent client, or an SQS queue polled by     *)
(* them.  A message is acknowledged only once its workflow is durable, and *)
(* its offset or message ID is the workflow's ID, so redelivery is         *)
(* harmless.  Ordered Kafka consumers stamp created_at from a cursor kept  *)
(* in the memory of each process, and a queue of concurrency one starts    *)
(* the workflows of the partition in that order.                           *)
(*                                                                         *)
(* External: the broker (owner, committed, hidden), which hands out        *)
(* batches of any size and moves the partition between processes.          *)
(***************************************************************************)
EXTENDS Naturals, Sequences, FiniteSets, Functions

CONSTANTS
  Kinds,      \* the receivers considered: subset of {"kafkajs", "confluent", "sqs"}
  Procs,      \* the processes of the group
  N,          \* number of messages
  Poison,     \* Kafka messages whose content does not serialize
  BatchSize,  \* messages enqueued in one transaction
  MaxTime,
  MaxFaults,  \* bound on failures, crashes, rebalances and shutdowns
  Null

ASSUME ReceiversAssumption ==
  N \in Nat \ {0} /\ BatchSize \in Nat \ {0} /\ Poison \subseteq 1 .. N

Messages == 1 .. N

VARIABLES
  kind,       \* the receiver at work
  proc,       \* per process: down, up, destroying, destroyed
  cons,       \* its consumer: none, connecting, subscribing, running, crashed, idle
  tracked,    \* whether #consumers holds it
  connected,  \* whether it holds a connection to the broker
  rebuild,    \* whether #rebuilds holds a rebuild of it
  owner,      \* the process the broker has assigned the partition to
  committed,  \* the broker: the next offset to deliver
  hidden,     \* SQS: messages received and not visible
  gone,       \* SQS: messages deleted
  pc,         \* the handler of a batch, or of an SQS message
  pos,        \* the next offset to handle, or the SQS message in hand
  batch,      \* the last offset of the batch
  nowMS,      \* #assignBatchCreatedAt: the clock and the seed it read
  seed,
  cursor,     \* #batchCreatedAtCursors of the partition key
  stamp,      \* created_at of the first row of the chunk
  status,     \* the workflow of a message: none, enqueued, pending, done
  createdAt,
  started,    \* history: the order in which workflows were started
  clean,      \* history: the partition moved neither under a batch nor back to an old cursor
  now,
  faults

broker == <<owner, committed, hidden, gone>>
client == <<proc, cons, tracked, connected, rebuild>>
handler == <<pc, pos, batch, nowMS, seed, cursor, stamp>>
table == <<status, createdAt, started>>
vars == <<kind, client, broker, handler, table, clean, now, faults>>

-----------------------------------------------------------------------------

Smaller(a, b) == IF a < b THEN a ELSE b
Larger(a, b) == IF a < b THEN b ELSE a

\* signal.aborted, or isShuttingDown.
Aborted(p) == proc[p] # "up"

Fault == faults < MaxFaults /\ faults' = faults + 1

Goto(p, place) == pc' = [pc EXCEPT ![p] = place]

\* The handler returns or throws: what it held is dropped, except the cursor
\* and the position of the consumer.
Return(p) ==
  /\ Goto(p, "idle")
  /\ batch' = [batch EXCEPT ![p] = 0]
  /\ nowMS' = [nowMS EXCEPT ![p] = 0]
  /\ seed' = [seed EXCEPT ![p] = 0]
  /\ stamp' = [stamp EXCEPT ![p] = 0]

-----------------------------------------------------------------------------
(* The consumer of a process: initialize, #startConsumer, #recreateConsumer,
   destroy *)

\* initialize, or a rebuild whose wait is over, unless aborted meanwhile.
StartConsumer(p) ==
  \/ /\ proc[p] = "down"
     /\ proc' = [proc EXCEPT ![p] = "up"]
     /\ cons' = [cons EXCEPT ![p] = "connecting"]
     /\ tracked' = [tracked EXCEPT ![p] = TRUE]
     /\ UNCHANGED <<kind, connected, rebuild, broker, handler, table, clean, now, faults>>
  \/ /\ cons[p] = "crashed"
     /\ IF Aborted(p)
        THEN /\ cons' = [cons EXCEPT ![p] = "idle"]
             /\ rebuild' = [rebuild EXCEPT ![p] = FALSE]
             /\ UNCHANGED tracked
        ELSE /\ cons' = [cons EXCEPT ![p] = "connecting"]
             /\ tracked' = [tracked EXCEPT ![p] = TRUE]
             /\ UNCHANGED rebuild
     /\ UNCHANGED <<kind, proc, connected, broker, handler, table, clean, now, faults>>

\* The catch of #startConsumer: the consumer is released.  A rebuild tries
\* again; initialize throws and the launch fails.
StartFails(p) ==
  /\ cons[p] \in {"connecting", "subscribing"}
  /\ Fault
  /\ tracked' = [tracked EXCEPT ![p] = FALSE]
  /\ connected' = [connected EXCEPT ![p] = FALSE]
  /\ IF rebuild[p]
     THEN cons' = [cons EXCEPT ![p] = "crashed"] /\ UNCHANGED proc
     ELSE cons' = [cons EXCEPT ![p] = "none"] /\ proc' = [proc EXCEPT ![p] = "down"]
  /\ UNCHANGED <<kind, rebuild, broker, handler, table, clean, now>>

Connect(p) ==
  /\ cons[p] = "connecting"
  /\ connected' = [connected EXCEPT ![p] = TRUE]
  /\ cons' = [cons EXCEPT ![p] = IF kind = "sqs" THEN "running" ELSE "subscribing"]
  /\ UNCHANGED <<kind, proc, tracked, rebuild, broker, handler, table, clean, now, faults>>

\* subscribe and run; when shutting down it is left connected for destroy.  The
\* consumer joins the group anew: a partition it is given again starts at the
\* committed offset.
Run(p) ==
  /\ cons[p] = "subscribing"
  /\ cons' = [cons EXCEPT ![p] = IF Aborted(p) THEN "idle" ELSE "running"]
  /\ rebuild' = [rebuild EXCEPT ![p] = FALSE]
  /\ pos' = [pos EXCEPT ![p] = IF owner = p THEN committed ELSE @]
  /\ UNCHANGED <<kind, proc, tracked, connected, broker, pc, batch, nowMS, seed, cursor, stamp, table, clean, now, faults>>

\* CRASH of a KafkaJS consumer that the client does not restart: it has
\* disconnected; a rebuild begins, unless shutting down.
ConsumerCrash(p) ==
  /\ kind = "kafkajs" /\ cons[p] = "running" /\ pc[p] \in {"idle", "seed"}
  /\ Fault
  /\ connected' = [connected EXCEPT ![p] = FALSE]
  /\ IF Aborted(p)
     THEN cons' = [cons EXCEPT ![p] = "idle"] /\ UNCHANGED <<tracked, rebuild>>
     ELSE /\ cons' = [cons EXCEPT ![p] = "crashed"]
          /\ tracked' = [tracked EXCEPT ![p] = FALSE]
          /\ rebuild' = [rebuild EXCEPT ![p] = TRUE]
  /\ Return(p)
  /\ UNCHANGED <<kind, proc, broker, pos, cursor, table, clean, now>>

\* destroy: the abort signal, at any time and above all during a rebuild.
Destroy(p) ==
  /\ proc[p] = "up"
  /\ \/ rebuild[p] /\ UNCHANGED faults
     \/ cons[p] = "running" /\ Fault
  /\ proc' = [proc EXCEPT ![p] = "destroying"]
  /\ UNCHANGED <<kind, cons, tracked, connected, rebuild, broker, handler, table, clean, now>>

\* destroy after the rebuilds have settled: every consumer in #consumers is
\* disconnected.  SQS: the listener has returned.
Sweep(p) ==
  /\ proc[p] = "destroying" /\ ~rebuild[p]
  /\ kind = "sqs" => pc[p] = "idle"
  /\ proc' = [proc EXCEPT ![p] = "destroyed"]
  /\ connected' = [connected EXCEPT ![p] = @ /\ ~tracked[p]]
  /\ tracked' = [tracked EXCEPT ![p] = FALSE]
  /\ cons' = [cons EXCEPT ![p] = IF @ = "running" THEN "idle" ELSE @]
  /\ UNCHANGED <<kind, rebuild, broker, handler, table, clean, now, faults>>

\* The process ends, by a crash at any time or after destroy.
Exit(p) ==
  /\ \/ proc[p] \in {"up", "destroying"} /\ Fault
     \/ proc[p] = "destroyed" /\ pc[p] = "idle" /\ UNCHANGED faults
  /\ proc' = [proc EXCEPT ![p] = "down"]
  /\ cons' = [cons EXCEPT ![p] = "none"]
  /\ tracked' = [tracked EXCEPT ![p] = FALSE]
  /\ connected' = [connected EXCEPT ![p] = FALSE]
  /\ rebuild' = [rebuild EXCEPT ![p] = FALSE]
  /\ Return(p)
  /\ pos' = [pos EXCEPT ![p] = 0]
  /\ cursor' = [cursor EXCEPT ![p] = 0]
  /\ UNCHANGED <<kind, broker, table, clean, now>>

\* A KafkaJS consumer may stop for good and is then rebuilt; the Confluent
\* client retries internally and never does; the SQS client only polls.
KafkaJSClient(p) ==
  /\ kind = "kafkajs"
  /\ \/ StartConsumer(p) \/ StartFails(p) \/ Connect(p) \/ Run(p) \/ ConsumerCrash(p)
     \/ Destroy(p) \/ Sweep(p)

ConfluentClient(p) ==
  /\ kind = "confluent"
  /\ StartConsumer(p) \/ StartFails(p) \/ Connect(p) \/ Run(p) \/ Destroy(p) \/ Sweep(p)

SQSClient(p) ==
  /\ kind = "sqs"
  /\ StartConsumer(p) \/ StartFails(p) \/ Connect(p) \/ Destroy(p) \/ Sweep(p)

Lifecycle(p) == KafkaJSClient(p) \/ ConfluentClient(p) \/ SQSClient(p) \/ Exit(p)

-----------------------------------------------------------------------------
(* The broker of a Kafka partition *)

\* The partition goes to a member between batches, which starts at the
\* committed offset.  The member that loses it is not told.
Rebalance(p) ==
  /\ kind # "sqs" /\ p # owner
  /\ cons[p] = "running" /\ ~Aborted(p) /\ pc[p] = "idle"
  /\ IF owner \in Procs /\ cons[owner] = "running" THEN Fault ELSE UNCHANGED faults
  /\ owner' = p
  /\ pos' = [pos EXCEPT ![p] = committed]
  /\ clean' = (clean /\ cursor[p] = 0 /\ \A q \in Procs : pc[q] = "idle")
  /\ UNCHANGED <<kind, client, committed, hidden, gone, pc, batch, nowMS, seed, cursor, stamp, table, now>>

\* Auto-commit of the resolved offsets; the broker takes it from the owner only.
CommitOffset(p) ==
  /\ kind # "sqs" /\ owner = p /\ cons[p] = "running" /\ committed < pos[p]
  /\ committed' = pos[p]
  /\ UNCHANGED <<kind, client, owner, hidden, gone, handler, table, clean, now, faults>>

-----------------------------------------------------------------------------
(* #eachBatch *)

\* The last offset of a chunk.
ChunkEnd(start, last) == Smaller(start + BatchSize - 1, last)

\* The rows of the chunk in hand; a message that does not serialize is dropped.
Prepared(p) == (pos[p] .. ChunkEnd(pos[p], batch[p])) \ Poison

\* The next chunk is prepared; of one without a row the offsets are resolved.
NextChunk(p, start, last) ==
  /\ batch' = [batch EXCEPT ![p] = last]
  /\ IF start .. ChunkEnd(start, last) \subseteq Poison
     THEN Goto(p, "heartbeat") /\ pos' = [pos EXCEPT ![p] = ChunkEnd(start, last) + 1]
     ELSE Goto(p, "seed") /\ pos' = [pos EXCEPT ![p] = start]

\* A batch is handed over, of any length.
Fetch(p) ==
  /\ kind # "sqs" /\ owner = p /\ cons[p] = "running" /\ ~Aborted(p) /\ pc[p] = "idle"
  /\ \E last \in pos[p] .. N : NextChunk(p, pos[p], last)
  /\ UNCHANGED <<kind, client, broker, nowMS, seed, cursor, stamp, table, clean, now, faults>>

\* #maxPartitionKeyCreatedAt, with the cursor left to the wall-clock.
ActiveMaxNone == 0

\* #maxPartitionKeyCreatedAt: over the rows still enqueued or running.
ActiveMax ==
  LET active == {m \in Messages : status[m] \in {"enqueued", "pending"}}
  IN IF active = {} THEN 0
     ELSE CHOOSE t \in {createdAt[m] : m \in active} : \A m \in active : createdAt[m] <= t

\* One stamp after the other, from the clock or the cursor; no await.
Stamp(p, clock, floor) ==
  /\ stamp' = [stamp EXCEPT ![p] = Larger(clock, floor)]
  /\ cursor' = [cursor EXCEPT ![p] = Larger(clock, floor) + Cardinality(Prepared(p))]
  /\ nowMS' = [nowMS EXCEPT ![p] = 0]
  /\ seed' = [seed EXCEPT ![p] = 0]
  /\ Goto(p, "insert")

\* #assignBatchCreatedAt: a key seen before is not read again; the query may fail.
ReadSeed(p) ==
  /\ pc[p] = "seed"
  /\ \/ cursor[p] # 0 /\ Stamp(p, now, cursor[p]) /\ UNCHANGED faults
     \/ /\ cursor[p] = 0
        /\ nowMS' = [nowMS EXCEPT ![p] = now]
        /\ seed' = [seed EXCEPT ![p] = ActiveMax]
        /\ Goto(p, "stamp") /\ UNCHANGED <<stamp, cursor, faults>>
     \/ cursor[p] = 0 /\ Fault /\ Goto(p, "backoff") /\ UNCHANGED <<nowMS, seed, stamp, cursor>>
  /\ UNCHANGED <<kind, client, broker, pos, batch, table, clean, now>>

\* The answer of the query arrives.
AssignBatchCreatedAt(p) ==
  /\ pc[p] = "stamp"
  /\ Stamp(p, nowMS[p], IF seed[p] = 0 THEN 0 ELSE seed[p] + 1)
  /\ UNCHANGED <<kind, client, broker, pos, batch, table, clean, now, faults>>

\* INSERT ... ON CONFLICT (workflow_uuid) DO NOTHING, in one transaction.
Insert(p) ==
  LET rank(m)  == Cardinality({k \in Prepared(p) : k < m})
      fresh(m) == m \in Prepared(p) /\ status[m] = "none"
  IN /\ status' = [m \in Messages |-> IF fresh(m) THEN "enqueued" ELSE status[m]]
     /\ createdAt' = [m \in Messages |-> IF fresh(m) THEN stamp[p] + rank(m) ELSE createdAt[m]]

\* resolveOffset of every message of the chunk, dropped ones included.
ResolveOffsets(p) ==
  /\ pos' = [pos EXCEPT ![p] = ChunkEnd(@, batch[p]) + 1]
  /\ Goto(p, "heartbeat")

\* A chunk that could not be enqueued is passed over.
EnqueueGivesUp(p) ==
  /\ pc[p] = "insert"
  /\ \/ Insert(p) /\ UNCHANGED faults
     \/ Fault /\ UNCHANGED <<status, createdAt>>
  /\ ResolveOffsets(p)
  /\ stamp' = [stamp EXCEPT ![p] = 0]
  /\ UNCHANGED <<kind, client, broker, batch, nowMS, seed, cursor, started, clean, now>>

\* enqueueWorkflows: the transaction commits and the offsets are resolved, or
\* it fails, or it commits unnoticed.
EnqueueWorkflows(p) ==
  /\ pc[p] = "insert"
  /\ \/ Insert(p) /\ ResolveOffsets(p) /\ UNCHANGED faults
     \/ Insert(p) /\ Fault /\ Goto(p, "backoff") /\ UNCHANGED pos
     \/ Fault /\ Goto(p, "backoff") /\ UNCHANGED <<pos, status, createdAt>>
  /\ stamp' = [stamp EXCEPT ![p] = 0]
  /\ UNCHANGED <<kind, client, broker, batch, nowMS, seed, cursor, started, clean, now>>

\* retryUntilSuccess: until aborted.  The KafkaJS one heartbeats, which throws
\* once the partition has moved; the Confluent one goes on.
Backoff(p) ==
  /\ pc[p] = "backoff"
  /\ IF Aborted(p) \/ (kind = "kafkajs" /\ owner # p)
     THEN Return(p)
     ELSE Goto(p, "seed") /\ UNCHANGED <<batch, nowMS, seed, stamp>>
  /\ UNCHANGED <<kind, client, broker, pos, cursor, table, clean, now, faults>>

\* A consumer that stopped, and a batch that was revoked, end the loop at its
\* top; KafkaJS never reports a batch stale.
Stale(p) == Aborted(p) \/ cons[p] # "running" \/ (kind = "confluent" /\ owner # p)

\* The heartbeat after a chunk, which throws if KafkaJS sees the partition
\* moved, and the top of the loop.
Heartbeat(p) ==
  /\ pc[p] = "heartbeat"
  /\ IF (kind = "kafkajs" /\ owner # p) \/ pos[p] > batch[p] \/ Stale(p)
     THEN Return(p) /\ UNCHANGED pos
     ELSE NextChunk(p, pos[p], batch[p]) /\ UNCHANGED <<nowMS, seed, stamp>>
  /\ UNCHANGED <<kind, client, broker, cursor, table, clean, now, faults>>

BatchStep(p) ==
  ReadSeed(p) \/ AssignBatchCreatedAt(p) \/ EnqueueWorkflows(p) \/ Backoff(p) \/ Heartbeat(p)

\* The handlers of the two Kafka packages differ in the workflow ID, in how a
\* wait is kept alive and in what a lost partition shows as.
KafkaJSEachBatch(p) == kind = "kafkajs" /\ BatchStep(p)

ConfluentEachBatch(p) == kind = "confluent" /\ BatchStep(p)

EachBatch(p) == KafkaJSEachBatch(p) \/ ConfluentEachBatch(p)

-----------------------------------------------------------------------------
(* The listener of an SQS queue *)

ReceiveMessage(p) ==
  /\ kind = "sqs" /\ cons[p] = "running" /\ ~Aborted(p) /\ pc[p] = "idle"
  /\ \E m \in Messages \ (hidden \cup gone) :
       /\ hidden' = hidden \cup {m}
       /\ pos' = [pos EXCEPT ![p] = m]
  /\ Goto(p, "start")
  /\ UNCHANGED <<kind, client, owner, committed, gone, batch, nowMS, seed, cursor, stamp, table, clean, now, faults>>

\* startWorkflow under the message's ID; an error is logged and the message
\* left to the queue.
StartWorkflow(p) ==
  /\ pc[p] = "start"
  /\ \/ /\ status' = [status EXCEPT ![pos[p]] = IF @ = "none" THEN "enqueued" ELSE @]
        /\ createdAt' = [createdAt EXCEPT ![pos[p]] = IF status[pos[p]] = "none" THEN now ELSE @]
        /\ Goto(p, "delete") /\ UNCHANGED <<pos, faults>>
     \/ /\ Fault /\ Goto(p, "idle") /\ pos' = [pos EXCEPT ![p] = 0]
        /\ UNCHANGED <<status, createdAt>>
  /\ UNCHANGED <<kind, client, broker, batch, nowMS, seed, cursor, stamp, started, clean, now>>

DeleteMessage(p) ==
  /\ pc[p] = "delete"
  /\ \/ gone' = gone \cup {pos[p]} /\ UNCHANGED faults
     \/ Fault /\ UNCHANGED gone
  /\ Goto(p, "idle") /\ pos' = [pos EXCEPT ![p] = 0]
  /\ UNCHANGED <<kind, client, owner, committed, hidden, batch, nowMS, seed, cursor, stamp, table, clean, now>>

\* The visibility timeout shows a message again, also while it is in hand.
Reappear(m) ==
  /\ m \in hidden
  /\ IF \E p \in Procs : pc[p] \in {"start", "delete"} /\ pos[p] = m THEN Fault ELSE UNCHANGED faults
  /\ hidden' = hidden \ {m}
  /\ UNCHANGED <<kind, client, owner, committed, gone, handler, table, clean, now>>

Listener(p) == ReceiveMessage(p) \/ StartWorkflow(p) \/ DeleteMessage(p)

-----------------------------------------------------------------------------
(* The queue of concurrency one, and time *)

\* The dequeue orders by created_at.
Dequeue ==
  /\ \A m \in Messages : status[m] # "pending"
  /\ \E m \in Messages :
       /\ status[m] = "enqueued"
       /\ \A k \in Messages : status[k] = "enqueued" => createdAt[m] <= createdAt[k]
       /\ status' = [status EXCEPT ![m] = "pending"]
       /\ started' = Append(started, m)
  /\ UNCHANGED <<kind, client, broker, handler, createdAt, clean, now, faults>>

\* The stamp of a finished row is read no more.
Finish ==
  /\ \E m \in Messages :
       /\ status[m] = "pending"
       /\ status' = [status EXCEPT ![m] = "done"]
       /\ createdAt' = [createdAt EXCEPT ![m] = 0]
  /\ UNCHANGED <<kind, client, broker, handler, started, clean, now, faults>>

\* Only the stamps of ordered consumers read the clock.
Tick ==
  /\ kind # "sqs" /\ now < MaxTime /\ now' = now + 1
  /\ UNCHANGED <<kind, client, broker, handler, table, clean, faults>>

-----------------------------------------------------------------------------

\* Every process is consuming; launches happen after the first exit.
Init ==
  /\ kind \in Kinds
  /\ proc = [p \in Procs |-> "up"]
  /\ cons = [p \in Procs |-> "running"]
  /\ tracked = [p \in Procs |-> TRUE]
  /\ connected = [p \in Procs |-> TRUE]
  /\ rebuild = [p \in Procs |-> FALSE]
  /\ owner = Null /\ committed = 1 /\ hidden = {} /\ gone = {}
  /\ pc = [p \in Procs |-> "idle"]
  /\ pos = [p \in Procs |-> 0]
  /\ batch = [p \in Procs |-> 0]
  /\ nowMS = [p \in Procs |-> 0]
  /\ seed = [p \in Procs |-> 0]
  /\ cursor = [p \in Procs |-> 0]
  /\ stamp = [p \in Procs |-> 0]
  /\ status = [m \in Messages |-> "none"]
  /\ createdAt = [m \in Messages |-> 0]
  /\ started = <<>>
  /\ clean = TRUE /\ now = 1 /\ faults = 0

Next ==
  \/ \E p \in Procs :
        Lifecycle(p) \/ Rebalance(p) \/ CommitOffset(p) \/ Fetch(p) \/ EachBatch(p) \/ Listener(p)
  \/ \E m \in Messages : Reappear(m)
  \/ Dequeue \/ Finish \/ Tick

Spec == Init /\ [][Next]_vars

-----------------------------------------------------------------------------

Acknowledged(m) == IF kind = "sqs" THEN m \in gone ELSE m < committed

\* No message is lost: the source may forget only messages whose workflow is
\* durable, or that were dropped as unprocessable ("commits never outrun
\* durable state"), through crashes, failed and unanswered transactions and
\* partitions moving under a batch; and redelivery, and two processes handling
\* the same messages, start no workflow twice.
ProcessedOnce ==
  /\ \A m \in Messages : Acknowledged(m) => status[m] # "none" \/ (kind # "sqs" /\ m \in Poison)
  /\ IsInjective(started)

\* Ordered consumers: workflows start in the order of the offsets, across
\* crashes, restarts, retries with new stamps and moves of the partition to a
\* process new to it; not when it moves under a batch in hand, or back to a
\* process that kept its cursor.
OrderKept ==
  kind # "sqs" /\ clean => \A i, j \in DOMAIN started : i < j => started[i] < started[j]

=============================================================================
