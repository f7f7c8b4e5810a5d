------------------------------ MODULE Messaging ------------------------------
(***************************************************************************)
(* Messages to a workflow (send, sendDirect and recv of                    *)
(* system_database.ts), with durable timeouts and sleeps, the callbacks of *)
(* the notification map, and LISTEN/NOTIFY, which may lose notifications.  *)
(*                                                                         *)
(* One workflow receives.  Its program is a list of recv and sleep calls;  *)
(* it may run on several executors at once, when an executor that is still *)
(* alive was taken for dead.  A call is a sequence of statements, each     *)
(* seeing what is committed (READ COMMITTED): other runs, senders, crashes *)
(* and cancels come between them.  dbRetry repeats a whole call when the   *)
(* connection breaks, before or after a commit.                            *)
(***************************************************************************)
EXTENDS Naturals, Sequences, FiniteSets

CONSTANTS
    Senders,
    Plans,          \* what senders and the workflow do
    MaxSends,       \* messages of each sender, at most
    Runs,           \* executions of the receiving workflow, each in a process of its own
    Steps,          \* calls of the workflow, named by their function id
    Timeout,        \* of recvs and sleeps
    SameMs,         \* may two things happen in the same millisecond?
    MaxTime,
    Null

\* kind: "workflow": send; "keyed", "unkeyed": sendDirect.  sends: the messages of
\* each sender.  calls: what the workflow calls; sleeps: those that are sleeps, the
\* others are recvs.  faults: how often a process or a connection fails, or a
\* process is taken for dead.
Plan ==
    [kind : [Senders -> {"workflow", "keyed", "unkeyed"}], sends : [Senders -> 0 .. MaxSends],
     calls : Seq(Steps), sleeps : SUBSET Steps, faults : Nat]

\* Who sent a message, which one it was, and which attempt at it.
Identities == [from : Senders, seq : 1 .. MaxSends, copy : Nat]

\* What a recv returns, and what its checkpoint holds; Null if there is none.
Outputs == {Null} \cup [value : Identities \cup {Null}]

\* Function ids are handed out in the order of the calls.
ASSUME MessagingAssumption ==
    /\ Plans \subseteq Plan
    /\ \A p \in Plans : \A a, b \in DOMAIN p.calls : a < b => p.calls[a] < p.calls[b]
    /\ MaxSends \in Nat /\ Steps \subseteq Nat \ {0}
    /\ Timeout \in Nat \ {0} /\ SameMs \in BOOLEAN
    /\ MaxTime \in Nat
    /\ Null \notin Identities /\ Null \notin [value : Identities \cup {Null}]
    /\ Null \notin [end : Nat, at : Nat]

VARIABLES
    plan,       \* what senders and the workflow do
    msgs,       \* the notifications table
    pos,        \* the next send of each sender; 0 once it failed
    recorded,   \* the send steps each workflow sender has recorded
    status,     \* of the receiving workflow's row
    outputs,    \* operation_outputs: what each recv returned
    deadlines,  \* operation_outputs: the wake-up time of each timeout or sleep
    run,        \* where each run is
    returned,   \* what each run's recvs returned to it
    listening,  \* processes whose connection for notifications is up
    inflight,   \* processes a notification is on its way to
    now,
    faults      \* failures so far

vars == <<plan, msgs, pos, recorded, status, outputs, deadlines, run, returned,
          listening, inflight, now, faults>>

receiver == <<outputs, deadlines, run, returned>>
senders == <<pos, recorded>>
shared == <<plan, msgs, senders, status, outputs, deadlines, returned, listening, inflight, now, faults>>

-----------------------------------------------------------------------------
(* Sending.  A message is named by its sender, its number and, if there is *)
(* no idempotency key and the message_uuid is random, by the attempt.      *)

Named(s, k) == {m \in msgs : m.from = s /\ m.seq = k}

MessageUUID(s, k) == IF plan.kind[s] = "keyed" THEN 0 ELSE Cardinality(Named(s, k))

\* created_at_epoch_ms is the time of the database server.
Message(s, k) ==
    [from |-> s, seq |-> k, copy |-> MessageUUID(s, k), at |-> now, consumed |-> FALSE]

Identity(m) == [from |-> m.from, seq |-> m.seq, copy |-> m.copy]

\* INSERT ... ON CONFLICT DO NOTHING; the trigger notifies every connection that listens.
Insert(m) ==
    IF \E x \in msgs : Identity(x) = Identity(m)
    THEN UNCHANGED <<msgs, inflight>>
    ELSE /\ msgs' = msgs \cup {m}
         /\ inflight' = inflight \cup listening

\* The messages of one sender get different creation times, or not.
Spaced(s) == SameMs \/ \A m \in msgs : m.from = s => m.at < now

\* The call returns, or its connection breaks after the commit and dbRetry repeats it.
Returns(s) ==
    \/ pos' = [pos EXCEPT ![s] = @ + 1] /\ UNCHANGED faults
    \/ /\ faults < plan.faults
       /\ faults' = faults + 1
       /\ UNCHANGED pos

\* Foreign key violation: DBOSNonExistentWorkflowError.
NonExistentWorkflow(s) ==
    /\ status = "NONE"
    /\ pos' = [pos EXCEPT ![s] = 0]
    /\ UNCHANGED <<msgs, inflight, recorded, faults>>

\* A send in a workflow: the message and the checkpoint are one transaction.
Send(s) ==
    LET k == pos[s]
    IN  /\ plan.kind[s] = "workflow" /\ k \in 1 .. plan.sends[s]
        /\ \/ /\ k \in recorded[s]
              /\ pos' = [pos EXCEPT ![s] = @ + 1]
              /\ UNCHANGED <<msgs, inflight, recorded, faults>>
           \/ k \notin recorded[s] /\ NonExistentWorkflow(s)
           \/ /\ k \notin recorded[s] /\ status # "NONE" /\ Spaced(s)
              /\ Insert(Message(s, k))
              /\ recorded' = [recorded EXCEPT ![s] = @ \cup {k}]
              /\ Returns(s)
        /\ UNCHANGED <<plan, status, receiver, listening, now>>

SendDirect(s) ==
    LET k == pos[s]
    IN  /\ plan.kind[s] # "workflow" /\ k \in 1 .. plan.sends[s]
        /\ \/ NonExistentWorkflow(s)
           \/ /\ status # "NONE" /\ Spaced(s)
              /\ Insert(Message(s, k))
              /\ Returns(s)
              /\ UNCHANGED recorded
        /\ UNCHANGED <<plan, status, receiver, listening, now>>

\* DBOS.send: durable inside a workflow, direct outside.
SenderStep(s) == Send(s) \/ SendDirect(s)

\* The sender dies and its program runs again from the beginning.
CrashSender(s) ==
    /\ faults < plan.faults /\ pos[s] > 1 /\ plan.kind[s] # "unkeyed"
    /\ pos' = [pos EXCEPT ![s] = 1]
    /\ faults' = faults + 1
    /\ UNCHANGED <<plan, msgs, recorded, status, receiver, listening, inflight, now>>

-----------------------------------------------------------------------------
(* Receiving.  A run is at the i-th call of its program.  covered says     *)
(* that the connection was up ever since the callback was registered,      *)
(* woken that the callback was called.                                     *)

Idle(pc) == [pc |-> pc, i |-> 1, finish |-> 0, found |-> FALSE, saw |-> Null,
             covered |-> FALSE, woken |-> FALSE]

Step(r) == plan.calls[run[r].i]

Unread == {m \in msgs : ~m.consumed}

Goto(r, pc) == run' = [run EXCEPT ![r].pc = pc]

\* The i-th call begins; a sleep begins with its deadline.
Call(r, i) ==
    [Idle(IF i > Len(plan.calls) THEN "done"
          ELSE IF plan.calls[i] \in plan.sleeps THEN "deadline" ELSE "check") EXCEPT !.i = i]

Advance(r) == run' = [run EXCEPT ![r] = Call(r, run[r].i + 1)]

\* getOperationResultAndThrowIfCancelled: a recv that was recorded returns its output.
RecvCheck(r) ==
    LET k == Step(r)
    IN  /\ run[r].pc = "check"
        /\ \/ status = "CANCELLED" /\ Goto(r, "stopped") /\ UNCHANGED returned
           \/ /\ status # "CANCELLED" /\ outputs[k] # Null
              /\ returned' = [returned EXCEPT ![r][k] = outputs[k]]
              /\ Advance(r)
           \/ status # "CANCELLED" /\ outputs[k] = Null /\ Goto(r, "deadline") /\ UNCHANGED returned
        /\ UNCHANGED <<plan, msgs, senders, status, outputs, deadlines, listening, inflight, now, faults>>

\* #durableSleep: the recorded deadline, or a new one that is recorded next.
DurableSleep(r) ==
    LET k == Step(r)
    IN  /\ run[r].pc = "deadline"
        /\ IF status = "CANCELLED" THEN Goto(r, "stopped")
           ELSE IF deadlines[k] # Null
                THEN run' = [run EXCEPT ![r].finish = deadlines[k].end,
                                        ![r].pc = IF k \in plan.sleeps THEN "asleep" ELSE "register"]
                ELSE run' = [run EXCEPT ![r].finish = now + Timeout, ![r].pc = "record"]
        /\ UNCHANGED shared

\* checkConflict is false: a run that lost the race keeps the deadline it computed.
RecordDeadline(r) ==
    LET k == Step(r)
    IN  /\ run[r].pc = "record"
        /\ deadlines' = IF deadlines[k] # Null THEN deadlines
                        ELSE [deadlines EXCEPT ![k] = [end |-> run[r].finish, at |-> now]]
        /\ Goto(r, IF k \in plan.sleeps THEN "asleep" ELSE "register")
        /\ UNCHANGED <<plan, msgs, senders, status, outputs, returned, listening, inflight, now, faults>>

\* durableSleepms: sleeps until the deadline, then looks for a cancellation.
WakeUp(r) ==
    /\ run[r].pc = "asleep" /\ now >= run[r].finish
    /\ IF status = "CANCELLED" THEN Goto(r, "stopped") ELSE Advance(r)
    /\ UNCHANGED shared

\* The callback comes first, so that no message slips in between.
Register(r) ==
    /\ run[r].pc = "register"
    /\ IF status = "CANCELLED" THEN Goto(r, "stopped")
       ELSE run' = [run EXCEPT ![r].pc = "poll", ![r].woken = FALSE,
                               ![r].covered = r \in listening]
    /\ UNCHANGED shared

\* The callback is deregistered.
Leave(r, pc) ==
    run' = [run EXCEPT ![r] = [Idle(pc) EXCEPT !.i = run[r].i, !.finish = run[r].finish]]

\* The SELECT reads the table; its answer is on the way.
PollRead(r) ==
    /\ run[r].pc = "poll"
    /\ run' = [run EXCEPT ![r].pc = "polled", ![r].found = Unread # {}]
    /\ UNCHANGED shared

Poll(r) ==
    /\ run[r].pc = "polled"
    /\ IF run[r].found \/ now > run[r].finish THEN Leave(r, "update") ELSE Goto(r, "wait")
    /\ UNCHANGED shared

\* Mutant: nothing but the callback ends the wait.
WaitEndsWoken(r) ==
    /\ run[r].pc = "wait" /\ run[r].woken
    /\ Leave(r, "register")
    /\ UNCHANGED shared

\* The callback was called, or the polling interval is over; the loop begins anew.
WaitEnds(r) ==
    /\ run[r].pc = "wait"
    /\ Leave(r, "register")
    /\ UNCHANGED shared

\* Mutant: the messages are taken in no particular order.
OldestAny == Unread

Oldest == {m \in Unread : \A x \in Unread : m.at <= x.at}

\* Out of the loop: checkIfCanceled, and the UPDATE chooses a message; it waits for
\* the lock of the row if another run has it.
Choose(r) ==
    /\ run[r].pc = "update"
    /\ IF status = "CANCELLED" THEN Goto(r, "stopped")
       ELSE \E saw \in IF Unread = {} THEN {Null} ELSE {Identity(m) : m \in Oldest} :
                run' = [run EXCEPT ![r].pc = "commit", ![r].saw = saw]
    /\ UNCHANGED shared

\* What the UPDATE returns once it has the lock: nothing if another run took the message.
Taken(r) == {m \in Unread : Identity(m) = run[r].saw}

Consume(ms) == (msgs \ ms) \cup {[m EXCEPT !.consumed = TRUE] : m \in ms}

\* Mutant: conflicts are not looked for.
ConflictIgnored(k) == FALSE

\* Another run has recorded the step, and its completion time tells.
Conflict(k) == outputs[k] # Null

Output(r) == [value |-> IF Taken(r) = {} THEN Null ELSE run[r].saw]

\* Mutant: the message stays consumed when the checkpoint meets a conflict.
CommitRecvTorn(r) ==
    LET k == Step(r)
    IN  /\ run[r].pc = "commit"
        /\ msgs' = Consume(Taken(r))
        /\ IF Conflict(k) THEN Goto(r, "stopped") /\ UNCHANGED <<outputs, returned>>
           ELSE /\ outputs' = [outputs EXCEPT ![k] = Output(r)]
                /\ returned' = [returned EXCEPT ![r][k] = Output(r)]
                /\ Advance(r)
        /\ UNCHANGED <<plan, senders, status, deadlines, listening, inflight, now, faults>>

\* The message is consumed and the output recorded in one transaction, or, if the
\* step has a checkpoint already, neither is.
CommitRecv(r) ==
    LET k == Step(r)
    IN  /\ run[r].pc = "commit"
        /\ \/ /\ Conflict(k) /\ Goto(r, "stopped")
              /\ UNCHANGED <<msgs, outputs, returned>>
           \/ /\ ~Conflict(k) \/ SameMs
              /\ msgs' = Consume(Taken(r))
              /\ outputs' = IF outputs[k] # Null THEN outputs ELSE [outputs EXCEPT ![k] = Output(r)]
              /\ returned' = [returned EXCEPT ![r][k] = Output(r)]
              /\ Advance(r)
        /\ UNCHANGED <<plan, senders, status, deadlines, listening, inflight, now, faults>>

-----------------------------------------------------------------------------
(* Failures, notifications, and the environment.                           *)

Active(r) == run[r].pc \notin {"down", "done", "stopped"}

\* A connection breaks, before the transaction commits or after: dbRetry starts over.
Retry(r) ==
    /\ faults < plan.faults /\ Active(r) /\ run[r].pc # "check"
    /\ run' = [run EXCEPT ![r] = Call(r, run[r].i)]
    /\ faults' = faults + 1
    /\ UNCHANGED <<plan, msgs, senders, status, outputs, deadlines, returned, listening, inflight, now>>

\* As Retry, the transaction having committed.
CommitAckLost(r) ==
    LET k == Step(r)
    IN  /\ faults < plan.faults
        /\ run[r].pc = "commit" /\ ~Conflict(k)
        /\ msgs' = Consume(Taken(r))
        /\ outputs' = [outputs EXCEPT ![k] = Output(r)]
        /\ run' = [run EXCEPT ![r] = Call(r, run[r].i)]
        /\ faults' = faults + 1
        /\ UNCHANGED <<plan, senders, status, deadlines, returned, listening, inflight, now>>

Crash(r) ==
    /\ faults < plan.faults /\ Active(r)
    /\ run' = [run EXCEPT ![r] = Idle("down")]
    /\ returned' = [returned EXCEPT ![r] = [k \in Steps |-> Null]]
    /\ listening' = listening \ {r} /\ inflight' = inflight \ {r}
    /\ faults' = faults + 1
    /\ UNCHANGED <<plan, msgs, senders, status, outputs, deadlines, now>>

\* The process connects and recovers the workflow, whose function runs from its first
\* call.  It may be that another process, taken for dead, still runs it.
Recover(r) ==
    /\ run[r].pc = "down" /\ status = "PENDING"
    /\ IF \A x \in Runs : ~Active(x) THEN UNCHANGED faults
       ELSE faults < plan.faults /\ faults' = faults + 1
    /\ run' = [run EXCEPT ![r] = Call(r, 1)]
    /\ listening' = listening \cup {r}
    /\ UNCHANGED <<plan, msgs, senders, status, outputs, deadlines, returned, inflight, now>>

\* Mutant: the callback is registered after the table was read.
RegisteredLate == {"wait"}

Registered == {"poll", "polled", "wait"}

\* The handler calls the callbacks of the payload.
Deliver(r) ==
    /\ r \in inflight
    /\ inflight' = inflight \ {r}
    /\ run' = IF run[r].pc \in Registered THEN [run EXCEPT ![r].woken = TRUE] ELSE run
    /\ UNCHANGED <<plan, msgs, senders, status, outputs, deadlines, returned, listening, now, faults>>

\* The connection breaks, or a pooler in between drops the subscription.
Disconnect(r) ==
    /\ r \in listening /\ faults < plan.faults
    /\ listening' = listening \ {r} /\ inflight' = inflight \ {r}
    /\ run' = [run EXCEPT ![r].covered = FALSE]
    /\ faults' = faults + 1
    /\ UNCHANGED <<plan, msgs, senders, status, outputs, deadlines, returned, now>>

Connect(r) ==
    /\ Active(r) /\ r \notin listening
    /\ listening' = listening \cup {r}
    /\ UNCHANGED <<plan, msgs, senders, status, receiver, inflight, now, faults>>

\* The receiving workflow is started: its row exists from now on.
StartReceiver ==
    /\ status = "NONE" /\ status' = "PENDING"
    /\ UNCHANGED <<plan, msgs, senders, receiver, listening, inflight, now, faults>>

Cancel ==
    /\ status = "PENDING" /\ status' = "CANCELLED"
    /\ UNCHANGED <<plan, msgs, senders, receiver, listening, inflight, now, faults>>

Waiting == {"asleep", "register", "poll", "polled", "wait"}

\* Time passes up to MaxTime, and further while a run waits for its deadline.
Tick ==
    /\ now < MaxTime \/ \E r \in Runs : run[r].pc \in Waiting /\ now <= run[r].finish
    /\ now' = now + 1
    /\ UNCHANGED <<plan, msgs, senders, status, receiver, listening, inflight, faults>>

-----------------------------------------------------------------------------
Init ==
    /\ plan \in Plans
    /\ msgs = {} /\ pos = [s \in Senders |-> 1] /\ recorded = [s \in Senders |-> {}]
    /\ status = "NONE"
    /\ outputs = [k \in Steps |-> Null] /\ deadlines = [k \in Steps |-> Null]
    /\ run = [r \in Runs |-> Idle("down")]
    /\ returned = [r \in Runs |-> [k \in Steps |-> Null]]
    /\ listening = {} /\ inflight = {} /\ now = 0
    /\ faults = 0

RecvStep(r) ==
    \/ RecvCheck(r) \/ DurableSleep(r) \/ RecordDeadline(r) \/ WakeUp(r) \/ Register(r)
    \/ PollRead(r) \/ Poll(r) \/ WaitEnds(r) \/ Choose(r) \/ CommitRecv(r)

Next ==
    \/ \E s \in Senders : SenderStep(s) \/ CrashSender(s)
    \/ \E r \in Runs :
           \/ RecvStep(r) \/ Retry(r) \/ CommitAckLost(r) \/ Crash(r) \/ Recover(r)
           \/ Deliver(r) \/ Disconnect(r) \/ Connect(r)
    \/ StartReceiver \/ Cancel \/ Tick

Spec == Init /\ [][Next]_vars

\* Queries are answered, polling intervals end, time passes.  Nothing is assumed of
\* the senders or of notifications.
Fairness == WF_vars(Tick) /\ \A r \in Runs : WF_vars(RecvStep(r))

FairSpec == Spec /\ Fairness

-----------------------------------------------------------------------------
(* Properties.                                                             *)

Messages == [from : Senders, seq : 1 .. MaxSends, copy : Nat, at : Nat, consumed : BOOLEAN]

RunType ==
    [pc : {"down", "check", "deadline", "record", "asleep", "register", "poll", "polled", "wait",
           "update", "commit", "done", "stopped"},
     i : Nat \ {0}, finish : Nat, found : BOOLEAN, saw : Identities \cup {Null},
     covered : BOOLEAN, woken : BOOLEAN]

TypeOK ==
    /\ plan \in Plans
    /\ msgs \subseteq Messages /\ IsFiniteSet(msgs)
    /\ pos \in [Senders -> 0 .. MaxSends + 1]
    /\ recorded \in [Senders -> SUBSET (1 .. MaxSends)]
    /\ status \in {"NONE", "PENDING", "CANCELLED"}
    /\ outputs \in [Steps -> Outputs] /\ returned \in [Runs -> [Steps -> Outputs]]
    /\ deadlines \in [Steps -> {Null} \cup [end : Nat, at : Nat]]
    /\ run \in [Runs -> RunType] /\ \A r \in Runs : Active(r) => run[r].i \in DOMAIN plan.calls
    /\ listening \subseteq Runs /\ inflight \subseteq listening
    /\ now \in Nat /\ faults \in Nat

\* "sent ... with exactly-once semantics": a send that returned has one row, and
\* no resubmission, retry or replay of it adds another; without an idempotency key
\* the retries of sendDirect are not covered.
SentOnce ==
    \A s \in {x \in Senders : plan.kind[x] # "unkeyed"}, k \in 1 .. MaxSends :
        /\ Cardinality(Named(s, k)) <= 1
        /\ k < pos[s] => Cardinality(Named(s, k)) = 1

\* "received with exactly-once semantics": the messages consumed are those recv
\* steps have recorded, one step each; a run that loses to another run, or dies,
\* between the UPDATE and the COMMIT takes no message with it.
ReceivedOnce ==
    \A m \in msgs :
        Cardinality({k \in Steps : outputs[k] # Null /\ outputs[k].value = Identity(m)})
            = IF m.consumed THEN 1 ELSE 0

\* "exactly-once semantics", from send to recv.
ExactlyOnce == SentOnce /\ ReceivedOnce

\* Every run of the workflow is given the same answer by each recv, whether it
\* consumed the message itself, replays the checkpoint or retries a lost commit.
RunsAgree ==
    \A r \in Runs, k \in Steps : returned[r][k] # Null => returned[r][k] = outputs[k]

\* "Messages are received in the order in which they are sent (per-sender / causal
\* order)", sends in different milliseconds at least.
SenderOrder ==
    \A j, k \in Steps :
        (/\ j < k /\ outputs[j] # Null /\ outputs[k] # Null
         /\ outputs[j].value # Null /\ outputs[k].value # Null
         /\ outputs[j].value.from = outputs[k].value.from)
        => outputs[j].value.seq <= outputs[k].value.seq

\* No wake-up is lost while the connection is up: a run that waits though there is
\* a message to read has been called back, or is about to be.
NoLostWakeup ==
    \A r \in Runs :
        run[r].pc = "wait" /\ run[r].covered /\ Unread # {} => run[r].woken \/ r \in inflight

\* Whatever happens to notifications and connections, a call returns: polling
\* finds the message or the end of the timeout.
CallsReturn == \A r \in Runs : Active(r) ~> ~Active(r)
=============================================================================
