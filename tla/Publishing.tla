------------------------------ MODULE Publishing ------------------------------
(***************************************************************************)
(* What a workflow publishes: events (setEvent, getEvent) and a stream     *)
(* (writeStream, closeStream, readStream).  The workflow may run on two    *)
(* executors at once; a write is a transaction of several statements, so   *)
(* the runs' statements interleave.  Readers register a callback, read     *)
(* under the limiter of polling reads and wait; writers collect the        *)
(* notifications and a notifier sends them in batches that may be lost.    *)
(***************************************************************************)
EXTENDS Naturals, Sequences, FiniteSets

CONSTANTS
    Runs,       \* executions of the publishing workflow, each in a process of its own
    Program,    \* its calls: "set", "write", "close", or "step", a step that writes
    Getters,    \* runs of a workflow that calls getEvent
    Readers,    \* readers of the stream; they share a process with the getters
    Present,    \* which of them take part: a set of sets of runs, getters and readers
    Limit,      \* permits of the poll limiter
    SameMs,     \* may two runs record a call in the same millisecond?
    MaxFaults,
    Null

ASSUME PublishingAssumption ==
    /\ Program \in Seq({"set", "write", "close", "step"})
    /\ Getters \cap Readers = {} /\ Present \subseteq SUBSET (Runs \cup Getters \cup Readers)
    /\ IsFiniteSet(Getters) /\ IsFiniteSet(Readers)
    /\ Limit \in Nat \ {0} /\ SameMs \in BOOLEAN /\ MaxFaults \in Nat
    /\ Null \notin 0 .. Len(Program)

Ids == 1 .. Len(Program)
Waiters == Getters \cup Readers
Channels == {"events", "streams"}

VARIABLES
    recorded,  \* operation_outputs: the calls with a checkpoint
    errors,    \* those of them whose checkpoint is an error
    event,     \* workflow_events: the function id whose value the key has, 0 if none
    history,   \* workflow_events_history: the function ids with an entry
    stream,    \* streams: the function id of the value at each offset
    status,    \* of the publishing workflow
    atEnd,     \* history variable: length of the stream when the status became final
    run,       \* where each run is
    pending,   \* pendingNotifications of each run's process, by channel
    got,       \* operation_outputs: the checkpoint of getEvent
    cancelled, \* is the workflow that calls getEvent cancelled?
    waiter,    \* where each getter and each reader is
    available, \* permits of the limiter
    queue,     \* its waiters, first come first served
    expired,   \* has the timeout of getEvent passed?
    faults

writers == <<recorded, errors, event, history, stream, status, atEnd, run, pending>>
readers == <<got, cancelled, waiter, available, queue, expired>>
vars == <<writers, readers, faults>>

-----------------------------------------------------------------------------
(* Writing.  A run is at its i-th call.  max is what SELECT MAX("offset")  *)
(* saw, as a length.                                                       *)

Idle(pc) == [pc |-> pc, i |-> 1, max |-> 0]

Goto(r, pc) == run' = [run EXCEPT ![r].pc = pc]

Advance(r) == run' = [run EXCEPT ![r] = [pc |-> "check", i |-> run[r].i + 1, max |-> 0]]

Op(r) == Program[run[r].i]

tables == <<recorded, errors, event, history, stream>>

\* #runAndRecordResult: a call that has its checkpoint is not repeated; an error that
\* was recorded is thrown again.
CheckRecorded(r) ==
    /\ run[r].pc = "check" /\ run[r].i \in Ids
    /\ IF status = "CANCELLED" THEN Goto(r, "stopped")
       ELSE IF run[r].i \in errors THEN Goto(r, "failed")
       ELSE IF run[r].i \in recorded THEN Advance(r)
       ELSE Goto(r, IF Op(r) = "set" THEN "commit" ELSE "max")
    /\ UNCHANGED <<tables, status, atEnd, pending, readers, faults>>

SelectMaxOffset(r) ==
    /\ run[r].pc = "max"
    /\ run' = [run EXCEPT ![r].pc = "commit", ![r].max = Len(stream)]
    /\ UNCHANGED <<tables, status, atEnd, pending, readers, faults>>

\* The primary key of streams: another transaction has inserted at this offset.
OffsetTaken(r) == Op(r) # "set" /\ run[r].max < Len(stream)

\* Mutant: the checkpoint of a write to the stream is not compared with its time.
OwnsStreamWrite(r) == run[r].i \notin recorded \/ SameMs \/ Op(r) # "set"

\* The time of the checkpoint is this run's: it made the checkpoint, or another run
\* made it in the same millisecond.
Owns(r) == run[r].i \notin recorded \/ SameMs

\* Coalesce a wake-up for the readers of the channel.
SignalNotification(r) ==
    [pending EXCEPT ![r] = @ \cup {IF Op(r) = "set" THEN "events" ELSE "streams"}]

SetEvent(i) == event' = i /\ history' = history \cup {i}

\* The writes of the transaction: a step's write is not a checkpoint.
Write(r) ==
    LET i == run[r].i
    IN  /\ IF Op(r) = "set" THEN SetEvent(i) /\ UNCHANGED stream
           ELSE stream' = Append(stream, i) /\ UNCHANGED <<event, history>>
        /\ recorded' = IF Op(r) = "step" THEN recorded ELSE recorded \cup {i}
        /\ UNCHANGED errors

\* The transaction commits, and the notification is queued.
Commit(r) ==
    /\ run[r].pc = "commit" /\ ~OffsetTaken(r) /\ (Op(r) = "step" \/ Owns(r))
    /\ Write(r)
    /\ IF Op(r) = "step" THEN Goto(r, "checkpoint") ELSE Advance(r)
    /\ pending' = SignalNotification(r)
    /\ UNCHANGED <<status, atEnd, readers, faults>>

\* The connection breaks and dbRetry repeats the call.  If the transaction had
\* committed, the repetition finds the checkpoint and notifies nobody; a write of a
\* step has none, and is made again.
Retry(r) ==
    /\ faults < MaxFaults /\ run[r].pc = "commit"
    /\ \/ UNCHANGED tables
       \/ ~OffsetTaken(r) /\ (Op(r) = "step" \/ Owns(r)) /\ Write(r)
    /\ Goto(r, IF Op(r) = "step" THEN "max" ELSE "check")
    /\ faults' = faults + 1
    /\ UNCHANGED <<status, atEnd, pending, readers>>

\* DBOSWorkflowConflictError: this run gives way to the other.
CommitConflict(r) ==
    /\ run[r].pc = "commit" /\ ~OffsetTaken(r) /\ Op(r) # "step" /\ ~Owns(r)
    /\ Goto(r, "stopped")
    /\ UNCHANGED <<tables, status, atEnd, pending, readers, faults>>

\* A unique violation of streams is not retried: it is thrown into the workflow or,
\* from a step, into the step.
CommitFails(r) ==
    /\ run[r].pc = "commit" /\ OffsetTaken(r)
    /\ Goto(r, IF Op(r) = "step" THEN "error" ELSE "failed")
    /\ UNCHANGED <<tables, status, atEnd, pending, readers, faults>>

\* The step returns, or throws: its result or its error is recorded.
Checkpoint(r) ==
    /\ run[r].pc \in {"checkpoint", "error"}
    /\ IF ~Owns(r) THEN Goto(r, "stopped") /\ UNCHANGED <<recorded, errors>>
       ELSE /\ recorded' = recorded \cup {run[r].i}
            /\ IF run[r].pc = "error"
               THEN /\ errors' = IF run[r].i \in recorded THEN errors ELSE errors \cup {run[r].i}
                    /\ Goto(r, "failed")
               ELSE Advance(r) /\ UNCHANGED errors
    /\ UNCHANGED <<event, history, stream, status, atEnd, pending, readers, faults>>

\* The function has returned, or thrown: the outcome is recorded unless the workflow
\* is cancelled, over that of a run that came first.
Finish(r) ==
    /\ run[r].pc = "failed" \/ (run[r].pc = "check" /\ run[r].i \notin Ids)
    /\ Goto(r, "done")
    /\ IF status = "CANCELLED" THEN UNCHANGED <<status, atEnd>>
       ELSE /\ status' = IF run[r].pc = "failed" THEN "ERROR" ELSE "SUCCESS"
            /\ atEnd' = IF status = "PENDING" THEN Len(stream) ELSE atEnd
    /\ UNCHANGED <<tables, pending, readers, faults>>

Active(r) == run[r].pc \notin {"absent", "down", "done", "stopped"}

Crash(r) ==
    /\ faults < MaxFaults /\ Active(r)
    /\ run' = [run EXCEPT ![r] = Idle("down")]
    /\ pending' = [pending EXCEPT ![r] = {}]
    /\ faults' = faults + 1
    /\ UNCHANGED <<tables, status, atEnd, readers>>

Recover(r) ==
    /\ run[r].pc = "down" /\ status = "PENDING"
    /\ run' = [run EXCEPT ![r] = Idle("check")]
    /\ UNCHANGED <<tables, status, atEnd, pending, readers, faults>>

Cancel ==
    /\ faults < MaxFaults /\ status = "PENDING"
    /\ status' = "CANCELLED" /\ atEnd' = Len(stream)
    /\ faults' = faults + 1
    /\ UNCHANGED <<tables, run, pending, readers>>

-----------------------------------------------------------------------------
(* The notifier.  What is sent is delivered at once or, if a statement     *)
(* fails or the connection that listens is down, lost.                     *)

Channel(w) == IF w \in Getters THEN "events" ELSE "streams"

Registered == {"checkQueued", "check", "poll", "queued", "query", "decide", "wait"}

\* The callbacks of the payloads on the channels are called.
Woken(channels) ==
    [w \in Waiters |-> IF Channel(w) \in channels /\ waiter[w].pc \in Registered
                       THEN [waiter[w] EXCEPT !.woken = TRUE] ELSE waiter[w]]

\* flushNotifications: one statement for each channel; a batch that fails is dropped.
Flush(r) ==
    /\ pending[r] # {}
    /\ \E sent \in SUBSET pending[r] :
           /\ sent # pending[r] => faults < MaxFaults
           /\ waiter' = Woken(sent)
           /\ faults' = IF sent = pending[r] THEN faults ELSE faults + 1
    /\ pending' = [pending EXCEPT ![r] = {}]
    /\ UNCHANGED <<tables, status, atEnd, run, got, cancelled, available, queue, expired>>

\* destroy: the notifier makes a final flush before the pool closes.
Destroy(r) ==
    /\ faults < MaxFaults /\ Active(r) /\ run[r].pc = "check"
    /\ run' = [run EXCEPT ![r] = Idle("down")]
    /\ pending' = [pending EXCEPT ![r] = {}]
    /\ waiter' = Woken(pending[r])
    /\ faults' = faults + 1
    /\ UNCHANGED <<tables, status, atEnd, got, cancelled, available, queue, expired>>

-----------------------------------------------------------------------------
(* The limiter of polling reads: a semaphore that hands a permit directly  *)
(* to the first waiter.  It changes where the waiters are, given as ws.    *)
(* getEvent takes two permits in turn: to see whether its caller is        *)
(* cancelled, and to read.                                                 *)

Holding == {"check", "query", "decide"}
Queued == {"checkQueued", "queued"}

Acquire(w, held, queued) ==
    IF available > 0
    THEN /\ available' = available - 1 /\ UNCHANGED queue
         /\ waiter' = [waiter EXCEPT ![w].pc = held]
    ELSE /\ queue' = Append(queue, w) /\ UNCHANGED available
         /\ waiter' = [waiter EXCEPT ![w].pc = queued]

Release(ws) ==
    IF queue = <<>>
    THEN available' = available + 1 /\ UNCHANGED queue /\ waiter' = ws
    ELSE /\ queue' = Tail(queue) /\ UNCHANGED available
         /\ waiter' = [ws EXCEPT ![Head(queue)].pc = IF @ = "checkQueued" THEN "check" ELSE "query"]

-----------------------------------------------------------------------------
(* Waiting for an event, and reading the stream.                           *)

\* At the head of the loop: nothing read, no callback.
AtLoop(w, pc) == [waiter[w] EXCEPT !.pc = pc, !.woken = FALSE, !.saw = 0, !.seen = Null]

\* getEvent begins: the checkpoint, if there is one.
GetEventCheck(g) ==
    /\ g \in Getters /\ waiter[g].pc = "start"
    /\ waiter' = [waiter EXCEPT ![g] = IF cancelled THEN [@ EXCEPT !.pc = "stopped"]
                                       ELSE IF got = Null THEN AtLoop(g, "register")
                                       ELSE [@ EXCEPT !.pc = "done", !.saw = got]]
    /\ UNCHANGED <<writers, got, cancelled, available, queue, expired, faults>>

\* The callback is registered before the first permit is asked for.
Register(w) ==
    /\ waiter[w].pc = "register"
    /\ IF w \in Getters THEN Acquire(w, "check", "checkQueued") ELSE Acquire(w, "query", "queued")
    /\ UNCHANGED <<writers, got, cancelled, expired, faults>>

\* #checkIfCanceledLimited.
CheckIfCanceled(w) ==
    /\ waiter[w].pc = "check"
    /\ Release([waiter EXCEPT ![w].pc = IF cancelled THEN "stopped" ELSE "poll"])
    /\ UNCHANGED <<writers, got, cancelled, expired, faults>>

\* A read of getEvent after the check, or one of readStreamValue that is repeated.
Poll(w) ==
    /\ waiter[w].pc = "poll"
    /\ Acquire(w, "query", "queued")
    /\ UNCHANGED <<writers, got, cancelled, expired, faults>>

\* The read sees the value and, for a stream, the status, in one snapshot.
Query(w) ==
    LET o == waiter[w].offset
    IN  /\ waiter[w].pc = "query"
        /\ waiter' = [waiter EXCEPT ![w].pc = "decide", ![w].seen = status,
                          ![w].saw = IF w \in Getters THEN event
                                     ELSE IF o <= Len(stream) THEN stream[o] ELSE 0]
        /\ UNCHANGED <<writers, got, cancelled, available, queue, expired, faults>>

\* Where a read that threw leaves its caller: dbRetry repeats all of getEvent, or the
\* one read of readStream; other errors are thrown to the caller.
AfterFailure(w) ==
    {IF w \in Getters THEN AtLoop(w, "start") ELSE [waiter[w] EXCEPT !.pc = "poll"],
     [waiter[w] EXCEPT !.pc = "stopped"]}

\* Mutant: the permit is released only when the read returns.
PollFailsHolding(w) ==
    /\ faults < MaxFaults /\ waiter[w].pc \in {"check", "query"}
    /\ \E n \in AfterFailure(w) : waiter' = [waiter EXCEPT ![w] = n]
    /\ faults' = faults + 1
    /\ UNCHANGED <<writers, got, cancelled, available, queue, expired>>

\* A read under the limiter throws: finally releases its permit.
PollFails(w) ==
    /\ faults < MaxFaults /\ waiter[w].pc \in {"check", "query"}
    /\ \E n \in AfterFailure(w) : Release([waiter EXCEPT ![w] = n])
    /\ faults' = faults + 1
    /\ UNCHANGED <<writers, got, cancelled, expired>>

\* getEvent: the value, the end of the timeout, or another round.
GetEventDecide(g) ==
    /\ g \in Getters /\ waiter[g].pc = "decide"
    /\ Release([waiter EXCEPT ![g].pc = IF waiter[g].saw # 0 \/ expired THEN "record" ELSE "wait"])
    /\ UNCHANGED <<writers, got, cancelled, expired, faults>>

\* Mutant: a run that comes second keeps the value it read.
RecordGetEventAnyway(g) ==
    /\ g \in Getters /\ waiter[g].pc = "record"
    /\ got' = IF got = Null THEN waiter[g].saw ELSE got
    /\ waiter' = [waiter EXCEPT ![g].pc = "done"]
    /\ UNCHANGED <<writers, cancelled, available, queue, expired, faults>>

\* recordOperationResult; a run that comes second gives way, if it can tell.
RecordGetEvent(g) ==
    /\ g \in Getters /\ waiter[g].pc = "record"
    /\ got' = IF got = Null THEN waiter[g].saw ELSE got
    /\ waiter' = [waiter EXCEPT ![g].pc = IF got = Null \/ SameMs THEN "done" ELSE "stopped"]
    /\ UNCHANGED <<writers, cancelled, available, queue, expired, faults>>

\* Mutant: the first empty offset of a finished workflow ends the stream.
AfterReadAtOnce(w) ==
    LET v == waiter[w].saw
    IN  IF v # 0 /\ Program[v] = "close" THEN [waiter[w] EXCEPT !.pc = "done"]
        ELSE IF v # 0 THEN [AtLoop(w, "register") EXCEPT !.offset = @ + 1]
        ELSE IF status # "PENDING" THEN [waiter[w] EXCEPT !.pc = "done"]
        ELSE [waiter[w] EXCEPT !.pc = "wait"]

\* readStream: a value is yielded and the next read follows at once; once the
\* workflow is no longer active the reader drains up to the first empty offset.
AfterRead(w) ==
    LET v == waiter[w].saw
    IN  IF v # 0 /\ Program[v] = "close" THEN [waiter[w] EXCEPT !.pc = "done"]
        ELSE IF v # 0 THEN [AtLoop(w, "register") EXCEPT !.offset = @ + 1]
        ELSE IF waiter[w].final THEN [waiter[w] EXCEPT !.pc = "done"]
        ELSE IF waiter[w].seen # "PENDING" THEN [AtLoop(w, "register") EXCEPT !.final = TRUE]
        ELSE [waiter[w] EXCEPT !.pc = "wait"]

ReadStreamDecide(w) ==
    /\ w \in Readers /\ waiter[w].pc = "decide"
    /\ Release([waiter EXCEPT ![w] = AfterRead(w)])
    /\ UNCHANGED <<writers, got, cancelled, expired, faults>>

\* The callback was called, or the polling interval is over.
WaitEnds(w) ==
    /\ waiter[w].pc = "wait"
    /\ waiter' = [waiter EXCEPT ![w] = AtLoop(w, "register")]
    /\ UNCHANGED <<writers, got, cancelled, available, queue, expired, faults>>

Expire ==
    /\ \E g \in Getters : waiter[g].pc # "absent"
    /\ ~expired /\ expired' = TRUE
    /\ UNCHANGED <<writers, got, cancelled, waiter, available, queue, faults>>

\* The workflow that calls getEvent is cancelled.
CancelCaller ==
    /\ \E g \in Getters : waiter[g].pc # "absent"
    /\ ~cancelled /\ faults < MaxFaults
    /\ cancelled' = TRUE /\ faults' = faults + 1
    /\ UNCHANGED <<writers, got, waiter, available, queue, expired>>

-----------------------------------------------------------------------------
Init ==
    /\ recorded = {} /\ errors = {} /\ event = 0 /\ history = {} /\ stream = <<>>
    /\ status = "PENDING" /\ atEnd = 0
    /\ pending = [r \in Runs |-> {}]
    /\ got = Null /\ cancelled = FALSE
    /\ \E present \in Present :
        /\ run = [r \in Runs |-> Idle(IF r \in present THEN "down" ELSE "absent")]
        /\ waiter = [w \in Waiters |->
               [pc |-> IF w \notin present THEN "absent"
                       ELSE IF w \in Getters THEN "start" ELSE "register",
                offset |-> 1, final |-> FALSE, saw |-> 0, seen |-> Null, woken |-> FALSE]]
    /\ available = Limit /\ queue = <<>> /\ expired = FALSE /\ faults = 0

RunStep(r) ==
    \/ CheckRecorded(r) \/ SelectMaxOffset(r) \/ Commit(r) \/ CommitConflict(r) \/ CommitFails(r)
    \/ Checkpoint(r) \/ Finish(r) \/ Recover(r)

WaiterStep(w) ==
    \/ GetEventCheck(w) \/ Register(w) \/ CheckIfCanceled(w) \/ Poll(w) \/ Query(w) \/ PollFails(w)
    \/ GetEventDecide(w) \/ RecordGetEvent(w) \/ ReadStreamDecide(w) \/ WaitEnds(w)

Next ==
    \/ \E r \in Runs : RunStep(r) \/ Retry(r) \/ Crash(r) \/ Destroy(r) \/ Flush(r)
    \/ \E w \in Waiters : WaiterStep(w)
    \/ Cancel \/ Expire \/ CancelCaller

Spec == Init /\ [][Next]_vars

-----------------------------------------------------------------------------
(* Properties.                                                             *)

Durable(i) == Program[i] # "step"

TypeOK ==
    /\ recorded \subseteq Ids /\ errors \subseteq recorded /\ event \in Ids \cup {0} /\ history \subseteq Ids
    /\ stream \in Seq(Ids) /\ atEnd \in Nat
    /\ status \in {"PENDING", "SUCCESS", "ERROR", "CANCELLED"}
    /\ run \in [Runs -> [pc : {"absent", "down", "check", "max", "commit", "checkpoint",
                               "error", "failed", "stopped", "done"},
                         i : 1 .. Len(Program) + 1, max : Nat]]
    /\ pending \in [Runs -> SUBSET Channels]
    /\ got \in Ids \cup {0, Null}
    /\ \A w \in Waiters : waiter[w].offset \in 1 .. Len(stream) + 1
    /\ queue \in Seq(Waiters) /\ available \in Nat

\* A call of the workflow that writes to the stream has one entry when it is
\* recorded and none before, and entries of later calls come later: runs that
\* race, retries and replays neither repeat a value nor reorder the stream.
StreamMatchesLog ==
    /\ \A i \in Ids : Program[i] \in {"write", "close"} =>
           Cardinality({o \in DOMAIN stream : stream[o] = i}) = IF i \in recorded THEN 1 ELSE 0
    /\ \A o, p \in DOMAIN stream :
           o < p /\ Durable(stream[o]) /\ Durable(stream[p]) => stream[o] < stream[p]

\* "at most one value is associated with a key": the event has the value of the
\* last setEvent recorded, and so has the history that forks copy from.
EventIsLatest ==
    /\ history = {i \in recorded : Program[i] = "set"}
    /\ event = IF history = {} THEN 0 ELSE CHOOSE i \in history : \A j \in history : j <= i

\* What a workflow has published is what its checkpoints say it has.
PublishedMatchesLog == StreamMatchesLog /\ EventIsLatest

\* The runs of the calling workflow get the same answer from getEvent, though the
\* event may change between their reads and one may time out.
GetEventAgrees ==
    \A g \in Getters : waiter[g].pc = "done" => waiter[g].saw = got

\* "yielding each value in order until the stream is closed or the workflow
\* terminates": a reader that ends has reached the close, or everything that was
\* in the stream when the workflow ended.
ReaderSeesAll ==
    \A w \in Readers : waiter[w].pc = "done" =>
        \/ waiter[w].saw # 0 /\ Program[waiter[w].saw] = "close"
        \/ status # "PENDING" /\ waiter[w].offset > atEnd

\* The limiter caps the reads and loses no permit, though reads throw while they hold
\* one: every permit is free or held, and who queues for one is in the queue, which
\* waits only while all permits are out.
PermitsConserved ==
    /\ Cardinality({w \in Waiters : waiter[w].pc \in Holding}) + available = Limit
    /\ {queue[k] : k \in DOMAIN queue} = {w \in Waiters : waiter[w].pc \in Queued}
    /\ queue # <<>> => available = 0

=============================================================================
