--------------------------- MODULE MessagingProofs ---------------------------
(***************************************************************************)
(* Messages are sent and received once, in the order of their sender, the  *)
(* runs of the receiver agree, and no wake-up is lost: for every number of *)
(* senders, runs, calls and failures.                                      *)
(*                                                                         *)
(* The actions are first summed up in what they do to the run they move    *)
(* and to the two tables; each invariant is then preserved by each kind of *)
(* step.                                                                   *)
(***************************************************************************)
EXTENDS Messaging, FiniteSetTheorems, TLAPS

\* The provers tried, in turn, on a leaf that names none.  Zenon comes first: its
\* translation is deterministic, that to SMT now and then runs out of time.
USE ZenonT(5), SMT, Zenon, Z3, SMTT(6), Z3T(6)

Stopped == {"down", "done", "stopped"}

\* Where a run is in a recv, past the deadline.
Recving == {"register", "poll", "polled", "wait", "update", "commit"}

Recorded(k) == outputs[k] # Null

Received(k) == Recorded(k) /\ outputs[k].value # Null

-----------------------------------------------------------------------------
(* The invariants.                                                         *)

\* Messages are told apart by their identity.
UniqueInv == \A m, n \in msgs : Identity(m) = Identity(n) => m = n

\* A durable send and its checkpoint are one, a key admits one message, and every
\* send that returned left a message.
SentInv ==
    /\ \A m \in msgs : plan.kind[m.from] # "unkeyed" => m.copy = 0
    /\ \A s \in Senders, k \in 1 .. MaxSends :
          /\ plan.kind[s] = "workflow" => (k \in recorded[s] <=> Named(s, k) # {})
          /\ k < pos[s] => Named(s, k) # {}

\* The consumed messages are those recorded, by one step each.
ReceivedInv ==
    /\ \A m \in msgs, k \in Steps : Received(k) /\ outputs[k].value = Identity(m) => m.consumed
    /\ \A m \in msgs : m.consumed => \E k \in Steps : Received(k) /\ outputs[k].value = Identity(m)
    /\ \A k \in Steps : Received(k) => \E m \in msgs : outputs[k].value = Identity(m)
    /\ \A j, k \in Steps : Received(j) /\ Received(k) /\ outputs[j].value = outputs[k].value => j = k

\* A sender's messages are created in the order of their numbers, and the next one
\* has a number none of its own exceeds.
TimeInv ==
    /\ \A m \in msgs : m.at <= now
    /\ \A m, n \in msgs : m.from = n.from /\ m.seq < n.seq => m.at < n.at
    /\ \A m \in msgs :
          IF plan.kind[m.from] = "unkeyed" THEN m.seq <= pos[m.from] \/ pos[m.from] = 0
          ELSE \A k \in 1 .. m.seq : Named(m.from, k) # {}

\* No unread message precedes one that was received, or that a run is about to take.
FrontInv ==
    /\ \A k \in Steps : Received(k) =>
          \A m \in Unread : m.from = outputs[k].value.from => outputs[k].value.seq <= m.seq
    /\ \A r \in Runs : run[r].pc = "commit" /\ run[r].saw # Null =>
          /\ \E n \in msgs : run[r].saw = Identity(n)
          /\ \A m \in Unread : m.from = run[r].saw.from => run[r].saw.seq <= m.seq

\* The recvs before the i-th call are recorded.
Before(i) ==
    \A a \in 1 .. Len(plan.calls) :
        a < i /\ plan.calls[a] \notin plan.sleeps => Recorded(plan.calls[a])

\* Recvs are recorded in the order of the calls.
CallsInv ==
    /\ \A r \in Runs :
          /\ Before(run[r].i)
          /\ run[r].pc = "asleep" => Step(r) \in plan.sleeps
          /\ run[r].pc \in Recving => Step(r) \notin plan.sleeps
    /\ \A k \in Steps : Recorded(k) =>
          \E i \in 1 .. Len(plan.calls) : plan.calls[i] = k /\ Before(i)

\* A run that has registered its callback, and saw nothing, will be called back.
Called(r) ==
    /\ run[r].pc \in Registered /\ run[r].covered => r \in listening
    /\ (run[r].pc = "wait" \/ (run[r].pc = "polled" /\ ~run[r].found)) /\ run[r].covered /\ Unread # {}
       => run[r].woken \/ r \in inflight

WakeInv == \A r \in Runs : Called(r)

-----------------------------------------------------------------------------
(* Types.                                                                  *)

LEMMA PlanFacts ==
    ASSUME TypeOK
    PROVE  /\ plan.kind \in [Senders -> {"workflow", "keyed", "unkeyed"}]
           /\ plan.sends \in [Senders -> 0 .. MaxSends] /\ plan.faults \in Nat
           /\ Len(plan.calls) \in Nat /\ DOMAIN plan.calls = 1 .. Len(plan.calls)
           /\ \A i \in 1 .. Len(plan.calls) : plan.calls[i] \in Steps
           /\ \A a, b \in 1 .. Len(plan.calls) : a < b => plan.calls[a] < plan.calls[b]
  <1>1. plan \in Plan /\ plan \in Plans
    BY MessagingAssumption DEF TypeOK
  <1>2. plan.calls \in Seq(Steps)
    BY <1>1 DEF Plan
  <1>3. \A a, b \in DOMAIN plan.calls : a < b => plan.calls[a] < plan.calls[b]
    BY <1>1, MessagingAssumption
  <1>4. /\ plan.kind \in [Senders -> {"workflow", "keyed", "unkeyed"}]
        /\ plan.sends \in [Senders -> 0 .. MaxSends] /\ plan.faults \in Nat
    BY <1>1 DEF Plan
  <1> QED BY <1>2, <1>3, <1>4

\* The run goes on in its call.
LEMMA GotoFacts ==
    ASSUME TypeOK, NEW r \in Runs, NEW pc, Goto(r, pc),
           pc \in {"down", "check", "deadline", "record", "asleep", "register", "poll", "polled",
                   "wait", "update", "commit", "done", "stopped"}
    PROVE  /\ run' \in [Runs -> RunType]
           /\ \A x \in Runs \ {r} : run'[x] = run[x]
           /\ run'[r].pc = pc /\ run'[r].i = run[r].i /\ run'[r].saw = run[r].saw
           /\ run'[r].found = run[r].found /\ run'[r].covered = run[r].covered
           /\ run'[r].woken = run[r].woken
  <1>1. run \in [Runs -> RunType] /\ run' = [run EXCEPT ![r].pc = pc]
    BY DEF TypeOK, Goto
  <1>2. PICK k \in RunType : k = run[r]
    BY <1>1
  <1> DEFINE h == [k EXCEPT !.pc = pc]
  <1>3. /\ h \in RunType /\ h.pc = pc /\ h.i = k.i /\ h.saw = k.saw /\ h.found = k.found
        /\ h.covered = k.covered /\ h.woken = k.woken
    BY DEF RunType
  <1>4. run' = [run EXCEPT ![r] = h]
    BY <1>1, <1>2
  <1> HIDE DEF h
  <1> QED BY <1>1, <1>2, <1>3, <1>4

LEMMA IdleFacts ==
    ASSUME NEW pc, pc \in {"down", "check", "deadline", "register", "update", "done"}
    PROVE  /\ Idle(pc) \in RunType /\ Idle(pc).pc = pc /\ Idle(pc).i = 1
           /\ Idle(pc).saw = Null /\ Idle(pc).covered = FALSE
  BY DEF Idle, RunType

\* The run begins its i-th call.
LEMMA CallFacts ==
    ASSUME TypeOK, NEW r \in Runs, NEW i \in Nat \ {0}, run' = [run EXCEPT ![r] = Call(r, i)]
    PROVE  /\ run' \in [Runs -> RunType]
           /\ \A x \in Runs \ {r} : run'[x] = run[x]
           /\ run'[r].pc \in {"done", "deadline", "check"} /\ run'[r].i = i
           /\ run'[r].covered = FALSE
           /\ run'[r].pc # "done" => i \in 1 .. Len(plan.calls)
  <1>1. PICK pc \in {"done", "deadline", "check"} :
            /\ pc = IF i > Len(plan.calls) THEN "done"
                    ELSE IF plan.calls[i] \in plan.sleeps THEN "deadline" ELSE "check"
            /\ pc # "done" => i \in 1 .. Len(plan.calls)
    BY PlanFacts
  <1>2. Call(r, i) = [Idle(pc) EXCEPT !.i = i]
    BY <1>1 DEF Call
  <1>3. /\ Call(r, i) \in RunType /\ Call(r, i).pc = pc /\ Call(r, i).i = i
        /\ Call(r, i).covered = FALSE
    BY <1>1, <1>2, IdleFacts DEF RunType
  <1>4. run \in [Runs -> RunType]
    BY DEF TypeOK
  <1>5. run' \in [Runs -> RunType] /\ run'[r] = Call(r, i) /\ \A x \in Runs \ {r} : run'[x] = run[x]
    BY <1>3, <1>4
  <1> QED BY <1>1, <1>3, <1>5

LEMMA LeaveFacts ==
    ASSUME TypeOK, NEW r \in Runs, NEW pc \in {"register", "update"}, Leave(r, pc)
    PROVE  /\ run' \in [Runs -> RunType]
           /\ \A x \in Runs \ {r} : run'[x] = run[x]
           /\ run'[r].pc = pc /\ run'[r].i = run[r].i /\ run'[r].covered = FALSE
  <1> DEFINE rr == [Idle(pc) EXCEPT !.i = run[r].i, !.finish = run[r].finish]
  <1>1. run \in [Runs -> RunType] /\ run[r].i \in Nat \ {0} /\ run[r].finish \in Nat
    BY DEF TypeOK, RunType
  <1>2. rr \in RunType /\ rr.pc = pc /\ rr.i = run[r].i /\ rr.covered = FALSE
    BY <1>1, IdleFacts DEF RunType
  <1>3. run' = [run EXCEPT ![r] = rr]
    BY DEF Leave
  <1> HIDE DEF rr
  <1> QED BY <1>1, <1>2, <1>3

-----------------------------------------------------------------------------
(* Steps.                                                                  *)

\* A run moves: it stays in its call, or begins the program, or the next call when
\* the present one is a sleep or has its checkpoint; it comes to the end of a recv
\* with a message that was among the oldest.
Moved(r) ==
    /\ run' \in [Runs -> RunType]
    /\ \A x \in Runs \ {r} : run'[x] = run[x]
    /\ run'[r].pc \notin Stopped => run'[r].i \in 1 .. Len(plan.calls)
    /\ \/ run'[r].i = 1 \/ run'[r].i = run[r].i
       \/ /\ run'[r].i = run[r].i + 1 /\ run[r].i \in 1 .. Len(plan.calls)
          /\ run[r].pc = "asleep" \/ outputs'[Step(r)] # Null
    /\ run'[r].pc = "asleep" =>
           run'[r].i = run[r].i /\ (run[r].pc = "asleep" \/ Step(r) \in plan.sleeps)
    /\ run'[r].pc \in Recving =>
           run'[r].i = run[r].i /\ (run[r].pc \in Recving \/ Step(r) \notin plan.sleeps)
    /\ run'[r].pc = "commit" =>
           \/ run[r].pc = "commit" /\ run'[r].saw = run[r].saw
           \/ run'[r].saw = Null \/ \E m \in Oldest : run'[r].saw = Identity(m)

\* Neither messages nor checkpoints of recvs change, nor do senders.
Quiet == UNCHANGED <<plan, msgs, pos, recorded, outputs>>

\* The rest of the receiver's state keeps its type.
Settled ==
    /\ status' \in {"NONE", "PENDING", "CANCELLED"} /\ returned' \in [Runs -> [Steps -> Outputs]]
    /\ deadlines' \in [Steps -> {Null} \cup [end : Nat, at : Nat]]
    /\ listening' \subseteq Runs /\ inflight' \subseteq listening' /\ now' \in Nat /\ now <= now'
    /\ faults' \in Nat

\* A recv commits: it consumes the message it saw, unless another run has, and
\* records what it returns, which nobody has before.
Commits(r) ==
    /\ run[r].pc = "commit" /\ outputs[Step(r)] = Null
    /\ msgs' = Consume(Taken(r))
    /\ outputs' = [outputs EXCEPT ![Step(r)] = Output(r)]
    /\ UNCHANGED <<plan, pos, recorded>>
    /\ run'[r].pc # "commit"

\* A sender adds a message.
Adds(s, m) ==
    /\ m = Message(s, pos[s]) /\ pos[s] \in 1 .. MaxSends
    /\ \A x \in msgs : Identity(x) # Identity(m)
    /\ \A x \in msgs : x.from = s => x.at < now
    /\ msgs' = msgs \cup {m} /\ inflight' = inflight \cup listening

\* What a send does to the messages: it adds one, or finds its own.
Sends(s) ==
    /\ pos[s] \in 1 .. MaxSends
    /\ \/ \E m \in Messages : Adds(s, m)
       \/ /\ UNCHANGED <<msgs, inflight>>
          /\ \/ \E x \in msgs : Identity(x) = Identity(Message(s, pos[s]))
             \/ plan.kind[s] = "workflow" /\ pos[s] \in recorded[s]
    /\ \/ plan.kind[s] = "workflow" /\ recorded' = [recorded EXCEPT ![s] = @ \cup {pos[s]}]
       \/ plan.kind[s] # "workflow" /\ UNCHANGED recorded
    /\ plan.kind[s] = "workflow" /\ pos[s] \in recorded[s] => UNCHANGED msgs
    /\ UNCHANGED pos \/ pos' = [pos EXCEPT ![s] = @ + 1]
    /\ UNCHANGED <<plan, status, receiver, listening, now>>

\* A sender fails, or begins its program again.
Resets(s) ==
    /\ \/ pos' = [pos EXCEPT ![s] = 0]
       \/ pos' = [pos EXCEPT ![s] = 1] /\ plan.kind[s] # "unkeyed"
    /\ UNCHANGED <<plan, msgs, recorded, status, receiver, listening, inflight, now>>

LEMMA MessageTyped ==
    ASSUME TypeOK, NEW s \in Senders, NEW k \in 1 .. MaxSends
    PROVE  Message(s, k) \in Messages
  <1>1. Named(s, k) \in SUBSET msgs /\ IsFiniteSet(msgs) /\ now \in Nat
    BY DEF Named, TypeOK
  <1>2. Cardinality(Named(s, k)) \in Nat
    BY <1>1, FS_Subset, FS_CardinalityType
  <1>3. MessageUUID(s, k) \in Nat
    BY <1>2 DEF MessageUUID
  <1> QED BY <1>1, <1>3 DEF Message, Messages

LEMMA SenderSteps ==
    ASSUME TypeOK, ~SameMs, NEW s \in Senders, SenderStep(s) \/ CrashSender(s)
    PROVE  (Sends(s) \/ Resets(s)) /\ Settled
  <1> DEFINE k == pos[s]
  <1>1. faults \in Nat /\ pos \in [Senders -> 0 .. MaxSends + 1]
        /\ recorded \in [Senders -> SUBSET (1 .. MaxSends)] /\ MaxSends \in Nat
        /\ plan.sends[s] \in 0 .. MaxSends
    BY PlanFacts, MessagingAssumption DEF TypeOK
  <1>2. ASSUME Sends(s) \/ Resets(s), faults' \in Nat PROVE Settled
    <2>1. UNCHANGED <<status, returned, deadlines, listening, now>>
          /\ (UNCHANGED inflight \/ inflight' = inflight \cup listening)
      BY <1>2 DEF Sends, Adds, Resets, receiver
    <2>2. inflight' \subseteq listening'
      BY <2>1 DEF TypeOK
    <2>3. now \in Nat /\ now <= now
      BY DEF TypeOK
    <2> QED BY <1>2, <2>1, <2>2, <2>3 DEF TypeOK, Settled
  <1>6. CASE CrashSender(s)
    BY <1>1, <1>2, <1>6 DEF CrashSender, Resets
  <1>3. ASSUME k \in 1 .. plan.sends[s], Spaced(s), Insert(Message(s, k)), Returns(s),
               UNCHANGED <<plan, status, receiver, listening, now>>,
               \/ plan.kind[s] = "workflow" /\ recorded' = [recorded EXCEPT ![s] = @ \cup {k}]
               \/ plan.kind[s] # "workflow" /\ UNCHANGED recorded,
               plan.kind[s] = "workflow" => k \notin recorded[s]
        PROVE  Sends(s) /\ faults' \in Nat
    <2>1. k \in 1 .. MaxSends
      BY <1>1, <1>3
    <2>2. PICK m \in Messages : m = Message(s, k)
      BY <2>1, MessageTyped
    <2>3. \A x \in msgs : x.from = s => x.at < now
      BY <1>3 DEF Spaced
    <2>4. faults' \in Nat /\ (UNCHANGED pos \/ pos' = [pos EXCEPT ![s] = @ + 1])
      BY <1>1, <1>3 DEF Returns
    <2>5. CASE \E x \in msgs : Identity(x) = Identity(m)
      BY <1>3, <2>1, <2>2, <2>4, <2>5 DEF Insert, Sends
    <2>6. CASE ~ \E x \in msgs : Identity(x) = Identity(m)
      <3>1. Adds(s, m)
        BY <1>3, <2>1, <2>2, <2>3, <2>6 DEF Insert, Adds
      <3> QED BY <1>3, <2>1, <2>4, <3>1 DEF Sends
    <2> QED BY <2>5, <2>6
  <1>4. CASE Send(s)
    <2>1. plan.kind[s] = "workflow" /\ k \in 1 .. MaxSends /\ k \in 1 .. plan.sends[s]
          /\ UNCHANGED <<plan, status, receiver, listening, now>>
      BY <1>1, <1>4 DEF Send
    <2>2. CASE k \in recorded[s] /\ pos' = [pos EXCEPT ![s] = @ + 1]
               /\ UNCHANGED <<msgs, inflight, recorded, faults>>
      <3>1. recorded' = [recorded EXCEPT ![s] = @ \cup {k}]
        BY <1>1, <2>2
      <3> QED BY <1>1, <1>2, <2>1, <2>2, <3>1 DEF Sends
    <2>3. CASE NonExistentWorkflow(s)
      BY <1>1, <1>2, <2>1, <2>3 DEF NonExistentWorkflow, Resets
    <2>4. CASE k \notin recorded[s] /\ Spaced(s) /\ Insert(Message(s, k)) /\ Returns(s)
               /\ recorded' = [recorded EXCEPT ![s] = @ \cup {k}]
      BY <1>2, <1>3, <2>1, <2>4
    <2> QED BY <1>4, <2>2, <2>3, <2>4 DEF Send
  <1>5. CASE SendDirect(s)
    <2>1. plan.kind[s] # "workflow" /\ k \in 1 .. plan.sends[s]
          /\ UNCHANGED <<plan, status, receiver, listening, now>>
      BY <1>5 DEF SendDirect
    <2>2. CASE NonExistentWorkflow(s)
      BY <1>1, <1>2, <2>1, <2>2 DEF NonExistentWorkflow, Resets
    <2>3. CASE Spaced(s) /\ Insert(Message(s, k)) /\ Returns(s) /\ UNCHANGED recorded
      BY <1>2, <1>3, <2>1, <2>3
    <2> QED BY <1>5, <2>2, <2>3 DEF SendDirect
  <1> QED BY <1>4, <1>5, <1>6 DEF SenderStep

LEMMA TakenFacts ==
    ASSUME TypeOK, NEW r \in Runs, run[r].pc = "commit"
    PROVE  /\ Step(r) \in Steps /\ Output(r) \in Outputs /\ Output(r) # Null
           /\ run[r].i \in 1 .. Len(plan.calls)
  <1>1. run[r].i \in 1 .. Len(plan.calls) /\ Step(r) \in Steps
    BY PlanFacts DEF TypeOK, Active, Step
  <1>2. PICK v \in Identities \cup {Null} : v = IF Taken(r) = {} THEN Null ELSE run[r].saw
    BY DEF TypeOK, RunType
  <1>3. Output(r) = [value |-> v]
    BY <1>2 DEF Output
  <1> QED BY <1>1, <1>3, MessagingAssumption DEF Outputs

\* The steps of a recv or a sleep, but for its commit.
LEMMA CallSteps ==
    ASSUME TypeOK, NEW r \in Runs,
           \/ RecvCheck(r) \/ DurableSleep(r) \/ RecordDeadline(r) \/ WakeUp(r) \/ Register(r)
           \/ PollRead(r) \/ Poll(r) \/ WaitEnds(r) \/ Choose(r)
    PROVE  Moved(r) /\ Settled /\ Quiet
  <1> DEFINE k == Step(r)
  <1>0. /\ run \in [Runs -> RunType] /\ run[r].i \in Nat \ {0} /\ run[r].finish \in Nat
        /\ outputs \in [Steps -> Outputs] /\ returned \in [Runs -> [Steps -> Outputs]]
        /\ deadlines \in [Steps -> {Null} \cup [end : Nat, at : Nat]]
        /\ now \in Nat /\ faults \in Nat
    BY DEF TypeOK, RunType
  <1>1. run[r].pc \notin Stopped
    BY DEF RecvCheck, DurableSleep, RecordDeadline, WakeUp, Register, PollRead, Poll, WaitEnds,
           Choose, Stopped
  <1>2. run[r].i \in 1 .. Len(plan.calls) /\ k \in Steps
    BY <1>1, PlanFacts DEF TypeOK, Active, Step, Stopped
  <1>3. /\ UNCHANGED <<status, listening, inflight, now, faults>> /\ Quiet
        /\ UNCHANGED returned \/ returned' = [returned EXCEPT ![r][k] = outputs[k]]
        /\ \/ UNCHANGED deadlines
           \/ deadlines' = [deadlines EXCEPT ![k] = [end |-> run[r].finish, at |-> now]]
    BY DEF RecvCheck, DurableSleep, RecordDeadline, WakeUp, Register, PollRead, Poll, WaitEnds,
           Choose, shared, senders, Quiet
  <1>4. Settled
    <2>0. PICK o \in Outputs : o = outputs[k]
      BY <1>0, <1>2
    <2>1. returned' \in [Runs -> [Steps -> Outputs]]
      <3> DEFINE f == [returned[r] EXCEPT ![k] = o]
      <3>1. returned \in [Runs -> [Steps -> Outputs]] /\ f \in [Steps -> Outputs]
        BY <1>0, <1>2
      <3>2. UNCHANGED returned \/ returned' = [returned EXCEPT ![r] = f]
        BY <1>3, <2>0, <3>1
      <3> HIDE DEF f
      <3> QED BY <3>1, <3>2
    <2>2. deadlines' \in [Steps -> {Null} \cup [end : Nat, at : Nat]]
      BY <1>0, <1>2, <1>3
    <2> QED BY <1>3, <2>1, <2>2 DEF Settled, TypeOK
  <1>5. ASSUME Goto(r, "stopped") PROVE Moved(r)
    BY <1>5, GotoFacts DEF Moved, Stopped, Recving
  <1>6. ASSUME Advance(r), run[r].pc = "asleep" \/ outputs'[k] # Null PROVE Moved(r)
    <2>1. run[r].i + 1 \in Nat \ {0}
      BY <1>0
    <2> QED BY <1>2, <1>6, <2>1, CallFacts DEF Moved, Stopped, Recving, Advance
  <1>7. CASE RecvCheck(r)
    <2>1. ASSUME outputs[k] # Null, Advance(r) PROVE Moved(r)
      BY <1>3, <1>6, <2>1 DEF Quiet
    <2>2. ASSUME Goto(r, "deadline") PROVE Moved(r)
      BY <1>2, <2>2, GotoFacts DEF Moved, Stopped, Recving
    <2>3. Moved(r)
      BY <1>5, <1>7, <2>1, <2>2 DEF RecvCheck
    <2> QED BY <1>3, <1>4, <2>3
  <1>8. CASE DurableSleep(r)
    <2>1. ASSUME NEW f \in Nat, NEW pc \in {"asleep", "register", "record"},
                 pc = "asleep" => k \in plan.sleeps, pc = "register" => k \notin plan.sleeps,
                 run' = [run EXCEPT ![r].finish = f, ![r].pc = pc]
          PROVE  Moved(r)
      <3> DEFINE rr == [run[r] EXCEPT !.finish = f, !.pc = pc]
      <3>1. rr \in RunType /\ rr.pc = pc /\ rr.i = run[r].i
        BY <1>0 DEF RunType
      <3>2. run' = [run EXCEPT ![r] = rr]
        BY <1>0, <2>1
      <3> HIDE DEF rr
      <3>3. /\ run' \in [Runs -> RunType] /\ \A x \in Runs \ {r} : run'[x] = run[x]
            /\ run'[r].pc = pc /\ run'[r].i = run[r].i
        BY <1>0, <3>1, <3>2
      <3> QED BY <1>2, <2>1, <3>3 DEF Moved, Recving
    <2>2. CASE status # "CANCELLED" /\ deadlines[k] # Null
      <3>1. PICK f \in Nat : f = deadlines[k].end
        BY <1>0, <1>2, <2>2
      <3>2. PICK pc \in {"asleep", "register"} : pc = IF k \in plan.sleeps THEN "asleep" ELSE "register"
        OBVIOUS
      <3>3. run' = [run EXCEPT ![r].finish = f, ![r].pc = pc]
        BY <1>8, <2>2, <3>1, <3>2 DEF DurableSleep
      <3> QED BY <1>3, <1>4, <2>1, <3>2, <3>3
    <2>3. CASE status # "CANCELLED" /\ deadlines[k] = Null
      <3>1. PICK f \in Nat : f = now + Timeout
        BY <1>0, MessagingAssumption
      <3>2. run' = [run EXCEPT ![r].finish = f, ![r].pc = "record"]
        BY <1>8, <2>3, <3>1 DEF DurableSleep
      <3> QED BY <1>3, <1>4, <2>1, <3>2
    <2>4. CASE status = "CANCELLED"
      BY <1>3, <1>4, <1>5, <1>8, <2>4 DEF DurableSleep
    <2> QED BY <2>2, <2>3, <2>4
  <1>9. CASE RecordDeadline(r)
    <2>1. PICK pc \in {"asleep", "register"} :
              /\ pc = "asleep" => k \in plan.sleeps
              /\ pc = "register" => k \notin plan.sleeps
              /\ Goto(r, pc)
      BY <1>9 DEF RecordDeadline
    <2>2. Moved(r)
      BY <1>2, <2>1, GotoFacts DEF Moved, Recving
    <2> QED BY <1>3, <1>4, <2>2
  <1>10. CASE WakeUp(r)
    BY <1>3, <1>4, <1>5, <1>6, <1>10 DEF WakeUp
  <1>11. CASE Register(r)
    <2>1. CASE run' = [run EXCEPT ![r].pc = "poll", ![r].woken = FALSE, ![r].covered = r \in listening]
      <3>0. PICK b \in BOOLEAN : b = (r \in listening)
        <4>1. (r \in listening) \in BOOLEAN
          OBVIOUS
        <4> QED BY <4>1
      <3> DEFINE rr == [run[r] EXCEPT !.pc = "poll", !.woken = FALSE, !.covered = b]
      <3>1. rr \in RunType /\ rr.pc = "poll" /\ rr.i = run[r].i
        BY <1>0 DEF RunType
      <3>2. run' = [run EXCEPT ![r] = rr]
        BY <1>0, <2>1, <3>0
      <3> HIDE DEF rr
      <3>3. /\ run' \in [Runs -> RunType] /\ \A x \in Runs \ {r} : run'[x] = run[x]
            /\ run'[r].pc = "poll" /\ run'[r].i = run[r].i
        BY <1>0, <3>1, <3>2
      <3> QED BY <1>2, <1>3, <1>4, <1>11, <3>3 DEF Moved, Recving, Register
    <2> QED BY <1>3, <1>4, <1>5, <1>11, <2>1 DEF Register
  <1>12. CASE PollRead(r)
    <2>0. PICK b \in BOOLEAN : b = (Unread # {})
      OBVIOUS
    <2> DEFINE rr == [run[r] EXCEPT !.pc = "polled", !.found = b]
    <2>1. rr \in RunType /\ rr.pc = "polled" /\ rr.i = run[r].i
      BY <1>0 DEF RunType
    <2>2. run' = [run EXCEPT ![r] = rr]
      BY <1>0, <1>12, <2>0 DEF PollRead
    <2> HIDE DEF rr
    <2>3. /\ run' \in [Runs -> RunType] /\ \A x \in Runs \ {r} : run'[x] = run[x]
          /\ run'[r].pc = "polled" /\ run'[r].i = run[r].i
      BY <1>0, <2>1, <2>2
    <2> QED BY <1>2, <1>3, <1>4, <1>12, <2>3 DEF Moved, Recving, PollRead
  <1>13. CASE Poll(r)
    <2>1. run[r].pc \in Recving /\ (Leave(r, "update") \/ Goto(r, "wait"))
      BY <1>13 DEF Poll, Recving
    <2>2. ASSUME Goto(r, "wait") PROVE Moved(r)
      BY <1>2, <2>1, <2>2, GotoFacts DEF Moved, Recving
    <2>3. ASSUME Leave(r, "update") PROVE Moved(r)
      BY <1>2, <2>1, <2>3, LeaveFacts DEF Moved, Recving
    <2> QED BY <1>3, <1>4, <2>1, <2>2, <2>3
  <1>14. CASE WaitEnds(r)
    <2>1. run[r].pc \in Recving /\ Leave(r, "register")
      BY <1>14 DEF WaitEnds, Recving
    <2>2. Moved(r)
      BY <1>2, <2>1, LeaveFacts DEF Moved, Recving
    <2> QED BY <1>3, <1>4, <2>2
  <1>15. CASE Choose(r)
    <2>1. ASSUME NEW saw \in IF Unread = {} THEN {Null} ELSE {Identity(m) : m \in Oldest},
                 run' = [run EXCEPT ![r].pc = "commit", ![r].saw = saw]
          PROVE  Moved(r)
      <3>1. saw = Null \/ \E m \in Oldest : saw = Identity(m)
        BY <2>1
      <3>2. \A m \in Oldest : Identity(m) \in Identities
        BY DEF Oldest, Unread, TypeOK, Messages, Identity, Identities
      <3>3. saw \in Identities \cup {Null}
        BY <3>1, <3>2
      <3>4. PICK v \in Identities \cup {Null} : v = saw
        BY <3>3
      <3> DEFINE rr == [run[r] EXCEPT !.pc = "commit", !.saw = v]
      <3>5. rr \in RunType /\ rr.pc = "commit" /\ rr.i = run[r].i /\ rr.saw = v
        BY <1>0 DEF RunType
      <3>6. run' = [run EXCEPT ![r] = rr]
        BY <1>0, <2>1, <3>4
      <3> HIDE DEF rr
      <3>7. /\ run' \in [Runs -> RunType] /\ \A x \in Runs \ {r} : run'[x] = run[x]
            /\ run'[r].pc = "commit" /\ run'[r].i = run[r].i /\ run'[r].saw = v
        BY <1>0, <3>5, <3>6
      <3> QED BY <1>2, <1>15, <3>1, <3>4, <3>7 DEF Moved, Recving, Choose
    <2> QED BY <1>3, <1>4, <1>5, <1>15, <2>1 DEF Choose
  <1> QED BY <1>7, <1>8, <1>9, <1>10, <1>11, <1>12, <1>13, <1>14, <1>15

\* The last step of a recv: its transaction commits, or finds the step recorded.
LEMMA CommitSteps ==
    ASSUME TypeOK, ~SameMs, NEW r \in Runs, CommitRecv(r) \/ CommitAckLost(r)
    PROVE  Moved(r) /\ Settled /\ (Quiet \/ Commits(r))
  <1> DEFINE k == Step(r)
  <1>1. run[r].pc = "commit"
    BY DEF CommitRecv, CommitAckLost
  <1>2. /\ k \in Steps /\ Output(r) \in Outputs /\ Output(r) # Null
        /\ run[r].i \in 1 .. Len(plan.calls)
    BY <1>1, TakenFacts
  <1>3. PICK o \in Outputs : o = Output(r) /\ o # Null
    BY <1>2
  <1>4. /\ returned \in [Runs -> [Steps -> Outputs]] /\ outputs \in [Steps -> Outputs]
        /\ run[r].i \in Nat \ {0} /\ now \in Nat /\ faults \in Nat
    BY DEF TypeOK, RunType
  <1>5. ASSUME returned' \in [Runs -> [Steps -> Outputs]], faults' \in Nat,
               UNCHANGED <<status, deadlines, listening, inflight, now>>
        PROVE  Settled
    BY <1>4, <1>5 DEF Settled, TypeOK
  <1>6. ASSUME outputs' = [outputs EXCEPT ![k] = Output(r)] PROVE outputs'[k] # Null
    BY <1>2, <1>3, <1>4, <1>6
  <1>7. CASE Conflict(k) /\ Goto(r, "stopped") /\ UNCHANGED <<msgs, outputs, returned>> /\ CommitRecv(r)
    <2>1. Moved(r)
      BY <1>7, GotoFacts DEF Moved, Stopped, Recving
    <2>2. Settled
      BY <1>4, <1>5, <1>7 DEF CommitRecv
    <2>3. Quiet
      BY <1>7 DEF CommitRecv, Quiet, senders
    <2> QED BY <2>1, <2>2, <2>3
  <1>8. CASE CommitRecv(r) /\ ~Conflict(k)
    <2>1. /\ msgs' = Consume(Taken(r)) /\ outputs' = [outputs EXCEPT ![k] = Output(r)]
          /\ returned' = [returned EXCEPT ![r][k] = Output(r)] /\ Advance(r)
          /\ UNCHANGED <<plan, senders, status, deadlines, listening, inflight, now, faults>>
          /\ outputs[k] = Null
      BY <1>8 DEF CommitRecv, Conflict
    <2>2. returned' \in [Runs -> [Steps -> Outputs]]
      <3> DEFINE f == [returned[r] EXCEPT ![k] = o]
      <3>1. f \in [Steps -> Outputs]
        BY <1>2, <1>4
      <3>2. returned' = [returned EXCEPT ![r] = f]
        BY <1>3, <1>4, <2>1
      <3> HIDE DEF f
      <3> QED BY <1>4, <3>1, <3>2
    <2>3. run[r].i + 1 \in Nat \ {0}
      BY <1>4
    <2>4. /\ run' \in [Runs -> RunType] /\ \A x \in Runs \ {r} : run'[x] = run[x]
          /\ run'[r].pc \in {"done", "deadline", "check"} /\ run'[r].i = run[r].i + 1
          /\ run'[r].pc # "done" => run'[r].i \in 1 .. Len(plan.calls)
      <3>1. PICK i \in Nat \ {0} : i = run[r].i + 1
        BY <2>3
      <3>2. run' = [run EXCEPT ![r] = Call(r, i)]
        BY <2>1, <3>1 DEF Advance
      <3>3. /\ run' \in [Runs -> RunType] /\ \A x \in Runs \ {r} : run'[x] = run[x]
            /\ run'[r].pc \in {"done", "deadline", "check"} /\ run'[r].i = i
            /\ run'[r].pc # "done" => i \in 1 .. Len(plan.calls)
        BY <3>2, CallFacts
      <3> QED BY <3>1, <3>3
    <2>5. Moved(r)
      BY <1>2, <1>6, <2>1, <2>4 DEF Moved, Stopped, Recving
    <2>6. Settled
      BY <1>4, <1>5, <2>1, <2>2
    <2>7. Commits(r)
      BY <1>1, <2>1, <2>4 DEF Commits, senders
    <2> QED BY <2>5, <2>6, <2>7
  <1>9. CASE CommitAckLost(r)
    <2>1. /\ msgs' = Consume(Taken(r)) /\ outputs' = [outputs EXCEPT ![k] = Output(r)]
          /\ run' = [run EXCEPT ![r] = Call(r, run[r].i)] /\ faults' = faults + 1
          /\ UNCHANGED <<plan, senders, status, deadlines, returned, listening, inflight, now>>
          /\ outputs[k] = Null
      BY <1>9 DEF CommitAckLost, Conflict
    <2>2. /\ run' \in [Runs -> RunType] /\ \A x \in Runs \ {r} : run'[x] = run[x]
          /\ run'[r].pc \in {"done", "deadline", "check"} /\ run'[r].i = run[r].i
          /\ run'[r].pc # "done" => run'[r].i \in 1 .. Len(plan.calls)
      BY <1>4, <2>1, CallFacts
    <2>3. Moved(r)
      BY <2>2 DEF Moved, Stopped, Recving
    <2>4. Settled
      BY <1>4, <1>5, <2>1
    <2>5. Commits(r)
      BY <1>1, <2>1, <2>2 DEF Commits, senders
    <2> QED BY <2>3, <2>4, <2>5
  <1> QED BY <1>7, <1>8, <1>9 DEF CommitRecv, Conflict

\* Failures, recoveries and notifications move a run and change no table.
LEMMA FaultSteps ==
    ASSUME TypeOK, NEW r \in Runs,
           Retry(r) \/ Crash(r) \/ Recover(r) \/ Deliver(r) \/ Disconnect(r)
    PROVE  Moved(r) /\ Settled /\ Quiet
  <1>1. Quiet /\ UNCHANGED <<status, deadlines, now>>
    BY DEF Retry, Crash, Recover, Deliver, Disconnect, Quiet, senders
  <1>2. returned' \in [Runs -> [Steps -> Outputs]]
    <2>1. CASE UNCHANGED returned
      BY <2>1 DEF TypeOK
    <2>2. CASE returned' = [returned EXCEPT ![r] = [k \in Steps |-> Null]]
      <3> DEFINE f == [k \in Steps |-> Null]
      <3>1. f \in [Steps -> Outputs] /\ returned \in [Runs -> [Steps -> Outputs]]
        BY DEF Outputs, TypeOK
      <3>2. returned' = [returned EXCEPT ![r] = f]
        BY <2>2
      <3> HIDE DEF f
      <3> QED BY <3>1, <3>2
    <2> QED BY <2>1, <2>2 DEF Retry, Crash, Recover, Deliver, Disconnect
  <1>3. listening' \subseteq Runs /\ inflight' \subseteq listening' /\ faults' \in Nat
    BY DEF Retry, Crash, Recover, Deliver, Disconnect, TypeOK
  <1>4. Settled
    BY <1>1, <1>2, <1>3 DEF Settled, TypeOK
  <1>5. run \in [Runs -> RunType] /\ run[r].i \in Nat \ {0}
    BY DEF TypeOK, RunType
  <1>6. run[r].pc \notin Stopped => run[r].i \in 1 .. Len(plan.calls)
    BY PlanFacts DEF TypeOK, Active, Stopped
  <1>7. ASSUME NEW i \in Nat \ {0}, run' = [run EXCEPT ![r] = Call(r, i)], i = 1 \/ i = run[r].i
        PROVE  Moved(r)
    BY <1>7, CallFacts DEF Moved, Stopped, Recving
  <1>8. CASE Retry(r)
    BY <1>1, <1>4, <1>5, <1>7, <1>8 DEF Retry
  <1>9. CASE Recover(r)
    <2>1. run' = [run EXCEPT ![r] = Call(r, 1)] /\ 1 \in Nat \ {0}
      BY <1>9 DEF Recover
    <2> QED BY <1>1, <1>4, <1>7, <2>1
  <1>10. CASE Crash(r)
    <2>1. PICK rr \in RunType : rr = Idle("down") /\ rr.pc = "down" /\ rr.i = 1
      BY IdleFacts
    <2>2. run' = [run EXCEPT ![r] = rr]
      BY <1>10, <2>1 DEF Crash
    <2>3. run' \in [Runs -> RunType] /\ run'[r] = rr /\ \A x \in Runs \ {r} : run'[x] = run[x]
      BY <1>5, <2>2
    <2>4. Moved(r)
      BY <2>1, <2>3 DEF Moved, Stopped, Recving
    <2> QED BY <1>1, <1>4, <2>4
  <1>11. CASE Deliver(r) \/ Disconnect(r)
    <2>1. /\ run' \in [Runs -> RunType] /\ \A x \in Runs \ {r} : run'[x] = run[x]
          /\ run'[r].pc = run[r].pc /\ run'[r].i = run[r].i /\ run'[r].saw = run[r].saw
      <3>1. CASE run' = [run EXCEPT ![r].woken = TRUE]
        BY <1>5, <3>1 DEF RunType
      <3>2. CASE run' = [run EXCEPT ![r].covered = FALSE]
        BY <1>5, <3>2 DEF RunType
      <3>3. CASE run' = run
        BY <1>5, <3>3
      <3> QED BY <1>11, <3>1, <3>2, <3>3 DEF Deliver, Disconnect
    <2>2. Moved(r)
      BY <1>6, <2>1 DEF Moved, Recving
    <2> QED BY <1>1, <1>4, <2>2
  <1> QED BY <1>8, <1>9, <1>10, <1>11

\* Every step is of one of these kinds.
LEMMA Kinds ==
    ASSUME TypeOK, ~SameMs, [Next]_vars
    PROVE  /\ Settled
           /\ \/ \E s \in Senders : Sends(s) \/ Resets(s)
              \/ \E r \in Runs : Moved(r) /\ (Quiet \/ Commits(r))
              \/ UNCHANGED run /\ Quiet
  <1>1. ASSUME UNCHANGED <<returned, deadlines, inflight>>, status' \in {"NONE", "PENDING", "CANCELLED"},
               listening' \in SUBSET Runs, listening \subseteq listening', now' \in Nat, now <= now',
               faults' = faults
        PROVE  Settled
    BY <1>1 DEF Settled, TypeOK
  <1>2. CASE UNCHANGED vars
    <2>1. status \in {"NONE", "PENDING", "CANCELLED"} /\ listening \in SUBSET Runs /\ now \in Nat /\ now <= now
      BY DEF TypeOK
    <2>2. UNCHANGED run /\ Quiet /\ UNCHANGED <<returned, deadlines, inflight, status, listening, now, faults>>
      BY <1>2 DEF vars, Quiet
    <2> QED BY <1>1, <2>1, <2>2
  <1>3. CASE StartReceiver \/ Cancel \/ Tick \/ \E r \in Runs : Connect(r)
    <2>1. UNCHANGED <<returned, deadlines, inflight, run, faults>> /\ Quiet
      BY <1>3 DEF StartReceiver, Cancel, Tick, Connect, Quiet, receiver, senders
    <2>2. /\ status' \in {"NONE", "PENDING", "CANCELLED"} /\ listening' \in SUBSET Runs
          /\ listening \subseteq listening'
      BY <1>3 DEF StartReceiver, Cancel, Tick, Connect, TypeOK
    <2>3. now' \in Nat /\ now <= now'
      BY <1>3 DEF StartReceiver, Cancel, Tick, Connect, TypeOK
    <2> QED BY <1>1, <2>1, <2>2, <2>3
  <1>4. ASSUME NEW s \in Senders, SenderStep(s) \/ CrashSender(s)
        PROVE  Settled /\ (Sends(s) \/ Resets(s))
    BY <1>4, SenderSteps
  <1>5. ASSUME NEW r \in Runs,
               \/ RecvStep(r) \/ Retry(r) \/ CommitAckLost(r) \/ Crash(r) \/ Recover(r)
               \/ Deliver(r) \/ Disconnect(r)
        PROVE  Settled /\ Moved(r) /\ (Quiet \/ Commits(r))
    <2>1. CASE CommitRecv(r) \/ CommitAckLost(r)
      BY <2>1, CommitSteps
    <2>2. CASE Retry(r) \/ Crash(r) \/ Recover(r) \/ Deliver(r) \/ Disconnect(r)
      BY <2>2, FaultSteps
    <2>3. CASE \/ RecvCheck(r) \/ DurableSleep(r) \/ RecordDeadline(r) \/ WakeUp(r) \/ Register(r)
               \/ PollRead(r) \/ Poll(r) \/ WaitEnds(r) \/ Choose(r)
      BY <2>3, CallSteps
    <2> QED BY <1>5, <2>1, <2>2, <2>3 DEF RecvStep
  <1> QED BY <1>2, <1>3, <1>4, <1>5 DEF Next

-----------------------------------------------------------------------------
(* What happens to the messages.                                           *)

\* t is consumed: u stands in its place.
Took(r, t, u) ==
    /\ t \in msgs /\ ~t.consumed /\ Identity(t) = run[r].saw
    /\ u \in Messages /\ u.from = t.from /\ u.seq = t.seq /\ u.copy = t.copy /\ u.at = t.at
    /\ u.consumed /\ Identity(u) = Identity(t)
    /\ msgs' = (msgs \ {t}) \cup {u}
    /\ outputs' = [outputs EXCEPT ![Step(r)] = [value |-> Identity(t)]]

\* The UPDATE finds nothing, or one message: the identity is the primary key.
LEMMA CommitTakes ==
    ASSUME TypeOK, UniqueInv, NEW r \in Runs, Commits(r)
    PROVE  \/ UNCHANGED msgs /\ outputs' = [outputs EXCEPT ![Step(r)] = [value |-> Null]]
           \/ \E t, u \in Messages : Took(r, t, u)
  <1>0. /\ msgs' = Consume(Taken(r)) /\ outputs' = [outputs EXCEPT ![Step(r)] = Output(r)]
        /\ msgs \subseteq Messages
    BY DEF Commits, TypeOK
  <1>1. CASE Taken(r) = {}
    <2>1. Output(r) = [value |-> Null]
      BY <1>1 DEF Output
    <2>2. msgs' = msgs
      BY <1>0, <1>1 DEF Consume
    <2> QED BY <1>0, <2>1, <2>2
  <1>2. CASE Taken(r) # {}
    <2>1. PICK t \in Messages : t \in Taken(r)
      BY <1>0, <1>2 DEF Taken, Unread
    <2>2. t \in msgs /\ ~t.consumed /\ Identity(t) = run[r].saw
      BY <2>1 DEF Taken, Unread
    <2>3. Taken(r) = {t}
      BY <2>1, <2>2 DEF Taken, Unread, UniqueInv
    <2>4. PICK u \in Messages : u = [t EXCEPT !.consumed = TRUE]
      BY DEF Messages
    <2>5. /\ u.from = t.from /\ u.seq = t.seq /\ u.copy = t.copy /\ u.at = t.at
          /\ u.consumed
      BY <2>4 DEF Messages
    <2>6. Identity(u) = Identity(t)
      BY <2>5 DEF Identity
    <2>7. msgs' = (msgs \ {t}) \cup {u}
      <3>1. Consume({t}) = (msgs \ {t}) \cup {[t EXCEPT !.consumed = TRUE]}
        BY DEF Consume
      <3> QED BY <1>0, <2>3, <2>4, <3>1
    <2>8. Output(r) = [value |-> Identity(t)]
      BY <1>2, <2>2 DEF Output
    <2>9. Took(r, t, u)
      BY <1>0, <2>2, <2>5, <2>6, <2>7, <2>8 DEF Took
    <2> QED BY <2>9
  <1> QED BY <1>1, <1>2

LEMMA TypeNext ==
    ASSUME TypeOK, UniqueInv, ~SameMs, [Next]_vars
    PROVE  TypeOK'
  <1>1. Settled
    BY Kinds
  <1>2. ASSUME plan' \in Plans, msgs' \subseteq Messages, IsFiniteSet(msgs'),
               pos' \in [Senders -> 0 .. MaxSends + 1], recorded' \in [Senders -> SUBSET (1 .. MaxSends)],
               outputs' \in [Steps -> Outputs], run' \in [Runs -> RunType],
               \A r \in Runs : run'[r].pc \notin Stopped => run'[r].i \in DOMAIN plan'.calls
        PROVE  TypeOK'
    BY <1>1, <1>2 DEF TypeOK, Settled, Active, Stopped
  <1>3. \A r \in Runs : run[r].pc \notin Stopped => run[r].i \in DOMAIN plan.calls
    BY DEF TypeOK, Active, Stopped
  <1>4. CASE UNCHANGED run /\ Quiet
    BY <1>2, <1>3, <1>4 DEF Quiet, TypeOK
  <1>5. ASSUME NEW s \in Senders, Sends(s) \/ Resets(s) PROVE TypeOK'
    <2>1. UNCHANGED <<plan, outputs, run>>
      BY <1>5 DEF Sends, Resets, receiver
    <2>2. msgs' \subseteq Messages /\ IsFiniteSet(msgs')
      <3>1. UNCHANGED msgs \/ \E m \in Messages : msgs' = msgs \cup {m}
        BY <1>5 DEF Sends, Resets, Adds
      <3>2. msgs \subseteq Messages /\ IsFiniteSet(msgs)
        BY DEF TypeOK
      <3>3. ASSUME NEW m \in Messages PROVE IsFiniteSet(msgs \cup {m})
        BY <3>2, FS_AddElement
      <3> QED BY <3>1, <3>2, <3>3
    <2>3. pos' \in [Senders -> 0 .. MaxSends + 1]
      <3>1. pos \in [Senders -> 0 .. MaxSends + 1] /\ MaxSends \in Nat
        BY MessagingAssumption DEF TypeOK
      <3>2. CASE Sends(s)
        BY <3>1, <3>2 DEF Sends
      <3>3. CASE Resets(s)
        BY <3>1, <3>3 DEF Resets
      <3> QED BY <1>5, <3>2, <3>3
    <2>4. recorded' \in [Senders -> SUBSET (1 .. MaxSends)]
      BY <1>5 DEF Sends, Resets, TypeOK
    <2> QED BY <1>2, <1>3, <2>1, <2>2, <2>3, <2>4 DEF TypeOK
  <1>6. ASSUME NEW r \in Runs, Moved(r), Quiet \/ Commits(r) PROVE TypeOK'
    <2>1. UNCHANGED <<plan, pos, recorded>>
      BY <1>6 DEF Quiet, Commits
    <2>2. run' \in [Runs -> RunType]
      BY <1>6 DEF Moved
    <2>3. \A x \in Runs : run'[x].pc \notin Stopped => run'[x].i \in DOMAIN plan'.calls
      BY <1>3, <1>6, <2>1, PlanFacts DEF Moved
    <2>4. msgs' \subseteq Messages /\ IsFiniteSet(msgs')
      <3>1. UNCHANGED msgs \/ \E t, u \in Messages : msgs' = (msgs \ {t}) \cup {u}
        BY <1>6, CommitTakes DEF Quiet, Took
      <3>2. msgs \subseteq Messages /\ IsFiniteSet(msgs)
        BY DEF TypeOK
      <3>3. ASSUME NEW t \in Messages, NEW u \in Messages PROVE IsFiniteSet((msgs \ {t}) \cup {u})
        BY <3>2, FS_RemoveElement, FS_AddElement
      <3> QED BY <3>1, <3>2, <3>3
    <2>5. outputs' \in [Steps -> Outputs]
      <3>1. CASE Quiet
        BY <3>1 DEF Quiet, TypeOK
      <3>2. CASE Commits(r)
        <4>1. run[r].pc = "commit" /\ outputs' = [outputs EXCEPT ![Step(r)] = Output(r)]
          BY <3>2 DEF Commits
        <4>2. Output(r) \in Outputs
          BY <4>1, TakenFacts
        <4> QED BY <4>1, <4>2 DEF TypeOK
      <3> QED BY <1>6, <3>1, <3>2
    <2> QED BY <1>2, <2>1, <2>2, <2>3, <2>4, <2>5 DEF TypeOK
  <1> QED BY <1>4, <1>5, <1>6, Kinds

LEMMA UniqueNext ==
    ASSUME TypeOK, UniqueInv, ~SameMs, [Next]_vars
    PROVE  UniqueInv'
  <1>1. CASE UNCHANGED msgs
    BY <1>1 DEF UniqueInv, Identity
  <1>2. ASSUME NEW s \in Senders, NEW m \in Messages, Adds(s, m) PROVE UniqueInv'
    BY <1>2 DEF UniqueInv, Adds, Identity
  <1>3. ASSUME NEW r \in Runs, NEW t \in Messages, NEW u \in Messages, Took(r, t, u) PROVE UniqueInv'
    BY <1>3 DEF UniqueInv, Took, Identity
  <1>4. ASSUME NEW r \in Runs, Commits(r) PROVE UniqueInv'
    BY <1>1, <1>3, <1>4, CommitTakes
  <1>5. ASSUME NEW s \in Senders, Sends(s) \/ Resets(s) PROVE UniqueInv'
    BY <1>1, <1>2, <1>5 DEF Sends, Resets
  <1> QED BY <1>1, <1>4, <1>5, Kinds DEF Quiet

\* Consuming a message does not take it off the table.
LEMMA NamesKept ==
    ASSUME TypeOK, UniqueInv, NEW r \in Runs, Quiet \/ Commits(r)
    PROVE  /\ \A m \in msgs : \E n \in msgs' : n.from = m.from /\ n.seq = m.seq /\ n.copy = m.copy /\ n.at = m.at
           /\ \A n \in msgs' : \E m \in msgs : n.from = m.from /\ n.seq = m.seq /\ n.copy = m.copy /\ n.at = m.at
  <1>1. CASE UNCHANGED msgs
    BY <1>1
  <1>2. ASSUME NEW t \in Messages, NEW u \in Messages, Took(r, t, u)
        PROVE  /\ t \in msgs /\ msgs' = (msgs \ {t}) \cup {u}
               /\ u.from = t.from /\ u.seq = t.seq /\ u.copy = t.copy /\ u.at = t.at
    BY <1>2 DEF Took
  <1> QED BY <1>1, <1>2, CommitTakes DEF Quiet

LEMMA NamedEmpty ==
    ASSUME NEW s \in Senders, NEW k \in 1 .. MaxSends
    PROVE  /\ Named(s, k) # {} <=> \E m \in msgs : m.from = s /\ m.seq = k
           /\ Named(s, k)' # {} <=> \E m \in msgs' : m.from = s /\ m.seq = k
  BY DEF Named

\* A durable send, or one under a key, adds its message when there is none.
LEMMA NewCopy ==
    ASSUME TypeOK, SentInv, NEW s \in Senders, NEW m \in Messages, Sends(s), Adds(s, m),
           plan.kind[s] # "unkeyed"
    PROVE  m.copy = 0
  <1>0. PICK p \in 1 .. MaxSends : p = pos[s] /\ m.copy = MessageUUID(s, p)
    BY DEF Adds, Message
  <1>1. CASE plan.kind[s] = "workflow"
    <2>1. m \notin msgs /\ m \in msgs'
      BY DEF Adds
    <2>2. p \notin recorded[s]
      BY <1>0, <1>1, <2>1 DEF Sends
    <2>3. Named(s, p) = {}
      BY <1>1, <2>2 DEF SentInv
    <2> QED BY <1>0, <1>1, <2>3, FS_EmptySet DEF MessageUUID
  <1>2. CASE plan.kind[s] = "keyed"
    BY <1>0, <1>2 DEF MessageUUID
  <1> QED BY <1>1, <1>2, PlanFacts

LEMMA SentNext ==
    ASSUME TypeOK, UniqueInv, SentInv, ~SameMs, [Next]_vars
    PROVE  SentInv'
  <1>0. /\ pos \in [Senders -> 0 .. MaxSends + 1] /\ recorded \in [Senders -> SUBSET (1 .. MaxSends)]
        /\ MaxSends \in Nat /\ msgs \subseteq Messages
    BY MessagingAssumption DEF TypeOK
  <1>1. ASSUME NEW r \in Runs, Quiet \/ Commits(r) PROVE SentInv'
    <2>1. UNCHANGED <<plan, pos, recorded>>
      BY <1>1 DEF Quiet, Commits
    <2>2. \A s \in Senders, k \in 1 .. MaxSends : Named(s, k)' # {} <=> Named(s, k) # {}
      BY <1>1, NamesKept, NamedEmpty
    <2>3. \A m \in msgs' : plan.kind[m.from] # "unkeyed" => m.copy = 0
      BY <1>1, NamesKept DEF SentInv
    <2> QED BY <2>1, <2>2, <2>3 DEF SentInv
  <1>2. ASSUME UNCHANGED run, Quiet PROVE SentInv'
    BY <1>2 DEF Quiet, SentInv, Named
  <1>3. ASSUME NEW s \in Senders, Resets(s) PROVE SentInv'
    <2>1. \A x \in Senders, k \in 1 .. MaxSends : k < pos'[x] => k < pos[x]
      BY <1>0, <1>3 DEF Resets
    <2>2. UNCHANGED <<plan, msgs, recorded>>
      BY <1>3 DEF Resets
    <2> QED BY <2>1, <2>2 DEF SentInv, Named
  <1>4. ASSUME NEW s \in Senders, Sends(s) PROVE SentInv'
    <2>0. PICK p \in 1 .. MaxSends : p = pos[s] /\ UNCHANGED plan
      BY <1>4 DEF Sends
    <2>1. Named(s, p)' # {} /\ \A m \in msgs : m \in msgs'
      <3>1. CASE \E m \in Messages : Adds(s, m)
        <4>1. Message(s, p).from = s /\ Message(s, p).seq = p /\ msgs' = msgs \cup {Message(s, p)}
          BY <2>0, <3>1 DEF Adds, Message
        <4> QED BY <2>0, <4>1, NamedEmpty
      <3>2. CASE UNCHANGED msgs /\ \E x \in msgs : Identity(x) = Identity(Message(s, p))
        <4>1. Message(s, p).from = s /\ Message(s, p).seq = p
          BY DEF Message
        <4>2. \E x \in msgs' : x.from = s /\ x.seq = p
          BY <3>2, <4>1 DEF Identity
        <4> QED BY <2>0, <3>2, <4>2, NamedEmpty
      <3>3. CASE UNCHANGED msgs /\ plan.kind[s] = "workflow" /\ p \in recorded[s]
        <4>1. Named(s, p) # {}
          BY <2>0, <3>3 DEF SentInv
        <4> QED BY <2>0, <3>3, <4>1, NamedEmpty
      <3> QED BY <1>4, <2>0, <3>1, <3>2, <3>3 DEF Sends
    <2>2. \A m \in msgs' : m \in msgs \/ m = Message(s, p)
      BY <1>4, <2>0 DEF Sends, Adds
    <2>3. \A x \in Senders, k \in 1 .. MaxSends :
              Named(x, k)' # {} <=> Named(x, k) # {} \/ (x = s /\ k = p)
      <3>1. Message(s, p).from = s /\ Message(s, p).seq = p
        BY DEF Message
      <3>2. \E m \in msgs' : m.from = s /\ m.seq = p
        BY <2>0, <2>1, NamedEmpty
      <3>3. ASSUME NEW x \in Senders, NEW k \in 1 .. MaxSends
            PROVE  (\E m \in msgs' : m.from = x /\ m.seq = k)
                       <=> (\E m \in msgs : m.from = x /\ m.seq = k) \/ (x = s /\ k = p)
        BY <2>1, <2>2, <3>1, <3>2
      <3> QED BY <3>3, NamedEmpty
    <2>4. \A x \in Senders, k \in 1 .. MaxSends : k < pos'[x] => k < pos[x] \/ (x = s /\ k = p)
      BY <1>0, <1>4, <2>0 DEF Sends
    <2>5. \A x \in Senders, k \in 1 .. MaxSends : plan.kind[x] = "workflow" =>
              (k \in recorded'[x] <=> k \in recorded[x] \/ (x = s /\ k = p))
      BY <1>0, <1>4, <2>0 DEF Sends
    <2>6. \A m \in msgs' : plan.kind[m.from] # "unkeyed" => m.copy = 0
      <3>1. ASSUME NEW m \in Messages, Adds(s, m), plan.kind[s] # "unkeyed" PROVE m.copy = 0
        BY <1>4, <3>1, NewCopy
      <3>2. \A m \in msgs' : m \in msgs \/ (m \in Messages /\ Adds(s, m) /\ m.from = s)
        <4>1. msgs' = msgs \/ \E n \in Messages : Adds(s, n)
          BY <1>4 DEF Sends
        <4>2. ASSUME NEW n \in Messages, Adds(s, n) PROVE msgs' = msgs \cup {n} /\ n.from = s
          <5>1. msgs' = msgs \cup {n} /\ n = Message(s, pos[s])
            BY <4>2 DEF Adds
          <5> QED BY <5>1 DEF Message
        <4> QED BY <4>1, <4>2
      <3> QED BY <3>1, <3>2 DEF SentInv
    <2> QED BY <2>0, <2>3, <2>4, <2>5, <2>6 DEF SentInv
  <1> QED BY <1>1, <1>2, <1>3, <1>4, Kinds

LEMMA ReceivedNext ==
    ASSUME TypeOK, UniqueInv, ReceivedInv, ~SameMs, [Next]_vars
    PROVE  ReceivedInv'
  <1>1. CASE UNCHANGED <<msgs, outputs>>
    BY <1>1 DEF ReceivedInv, Received, Recorded, Identity
  <1>2. ASSUME NEW s \in Senders, NEW m \in Messages, Adds(s, m), UNCHANGED outputs PROVE ReceivedInv'
    <2>1. /\ msgs' = msgs \cup {m} /\ \A x \in msgs : Identity(x) # Identity(m)
          /\ ~m.consumed
      BY <1>2 DEF Adds, Message
    <2>2. \A k \in Steps : Received(k) => outputs[k].value # Identity(m)
      BY <2>1 DEF ReceivedInv
    <2>3. /\ \A k \in Steps : (Received(k)' <=> Received(k)) /\ outputs'[k] = outputs[k]
          /\ \A x : Identity(x)' = Identity(x)
      BY <1>2 DEF Received, Recorded, Identity
    <2> QED BY <2>1, <2>2, <2>3 DEF ReceivedInv
  <1>3. ASSUME NEW r \in Runs, Commits(r) PROVE ReceivedInv'
    <2>1. PICK k \in Steps : /\ k = Step(r) /\ outputs[k] = Null
                             /\ outputs \in [Steps -> Outputs] /\ msgs \subseteq Messages
      BY <1>3, TakenFacts DEF Commits, TypeOK
    <2>2. CASE UNCHANGED msgs /\ outputs' = [outputs EXCEPT ![k] = [value |-> Null]]
      <3>1. \A j \in Steps : /\ Received(j)' <=> Received(j)
                             /\ Received(j) => outputs'[j] = outputs[j]
        BY <2>1, <2>2 DEF Received, Recorded
      <3> QED BY <2>2, <3>1 DEF ReceivedInv, Identity
    <2>3. ASSUME NEW t \in Messages, NEW u \in Messages, Took(r, t, u) PROVE ReceivedInv'
      <3>1. PICK v \in Identities : v = Identity(t)
        BY DEF Messages, Identities, Identity
      <3>2. /\ t \in msgs /\ ~t.consumed /\ u.consumed /\ Identity(u) = v
            /\ msgs' = (msgs \ {t}) \cup {u} /\ outputs' = [outputs EXCEPT ![k] = [value |-> v]]
        BY <2>1, <2>3, <3>1 DEF Took
      <3>3. [value |-> v] # Null /\ v # Null
        BY MessagingAssumption
      <3>4. outputs'[k].value = v /\ outputs'[k] # Null
        BY <2>1, <3>2, <3>3
      <3>5. \A j \in Steps : j # k => outputs'[j] = outputs[j]
        BY <2>1, <3>2
      <3>6. Received(k)' /\ ~Received(k)
        <4>1. Received(k)' <=> outputs'[k] # Null /\ outputs'[k].value # Null
          BY DEF Received, Recorded
        <4>2. ~Received(k)
          BY <2>1 DEF Received, Recorded
        <4> QED BY <3>3, <3>4, <4>1, <4>2
      <3>7. \A j \in Steps : j # k => (Received(j)' <=> Received(j))
        BY <3>5 DEF Received, Recorded
      <3>8. \A j \in Steps : Received(j) => outputs[j].value # v
        BY <3>1, <3>2 DEF ReceivedInv
      <3>9. \A m \in msgs : m # t => Identity(m) # v
        BY <3>1, <3>2 DEF UniqueInv
      <3>10. \A m \in msgs', j \in Steps : Received(j)' /\ outputs'[j].value = Identity(m) => m.consumed
        <4>1. \A m \in msgs, j \in Steps : Received(j) /\ outputs[j].value = Identity(m) => m.consumed
          BY DEF ReceivedInv
        <4> QED BY <3>2, <3>4, <3>5, <3>7, <3>9, <4>1
      <3>11. \A m \in msgs' : m.consumed => \E j \in Steps : Received(j)' /\ outputs'[j].value = Identity(m)
        <4>1. \A m \in msgs : m.consumed => \E j \in Steps : Received(j) /\ outputs[j].value = Identity(m)
          BY DEF ReceivedInv
        <4>2. ASSUME NEW m \in msgs \ {t}, m.consumed
              PROVE  \E j \in Steps : Received(j)' /\ outputs'[j].value = Identity(m)
          <5>1. PICK j \in Steps : Received(j) /\ outputs[j].value = Identity(m)
            BY <4>1, <4>2
          <5>2. j # k
            BY <3>6, <5>1
          <5> QED BY <3>5, <3>7, <5>1, <5>2
        <4>3. \E j \in Steps : Received(j)' /\ outputs'[j].value = Identity(u)
          BY <2>1, <3>2, <3>4, <3>6
        <4> QED BY <3>2, <4>2, <4>3
      <3>12. \A j \in Steps : Received(j)' => \E m \in msgs' : outputs'[j].value = Identity(m)
        <4>1. \A j \in Steps : Received(j) => \E m \in msgs : outputs[j].value = Identity(m)
          BY DEF ReceivedInv
        <4> QED BY <3>1, <3>2, <3>4, <3>5, <3>7, <4>1
      <3>13. \A i, j \in Steps : Received(i)' /\ Received(j)' /\ outputs'[i].value = outputs'[j].value => i = j
        <4>1. \A i, j \in Steps : Received(i) /\ Received(j) /\ outputs[i].value = outputs[j].value => i = j
          BY DEF ReceivedInv
        <4> QED BY <3>4, <3>5, <3>7, <3>8, <4>1
      <3> QED BY <3>10, <3>11, <3>12, <3>13 DEF ReceivedInv, Identity
    <2> QED BY <1>3, <2>1, <2>2, <2>3, CommitTakes
  <1>4. ASSUME NEW s \in Senders, Sends(s) \/ Resets(s) PROVE ReceivedInv'
    <2>1. UNCHANGED outputs
      BY <1>4 DEF Sends, Resets, receiver
    <2> QED BY <1>1, <1>2, <1>4, <2>1 DEF Sends, Resets
  <1> QED BY <1>1, <1>3, <1>4, Kinds DEF Quiet

\* A sender's new message is the last of its messages.
LEMMA NewestSeq ==
    ASSUME TypeOK, SentInv, TimeInv, NEW s \in Senders, NEW m \in Messages, Sends(s), Adds(s, m)
    PROVE  /\ m.from = s /\ m.at = now /\ ~m.consumed
           /\ \A x \in msgs : x.from = s => x.seq <= m.seq
  <1>0. PICK p \in 1 .. MaxSends : p = pos[s]
    BY DEF Adds
  <1>1. m.from = s /\ m.seq = p /\ m.at = now /\ ~m.consumed
    BY <1>0 DEF Adds, Message
  <1>2. ASSUME NEW x \in msgs, x.from = s PROVE x.seq <= m.seq
    <2>0. x.seq \in 1 .. MaxSends /\ MaxSends \in Nat
      BY MessagingAssumption DEF TypeOK, Messages
    <2>1. CASE plan.kind[s] = "unkeyed"
      <3>1. x.seq <= pos[s] \/ pos[s] = 0
        BY <1>2, <2>1 DEF TimeInv
      <3> QED BY <1>0, <1>1, <2>0, <3>1
    <2>2. CASE plan.kind[s] # "unkeyed" /\ x.seq > p
      <3>1. \A k \in 1 .. x.seq : Named(s, k) # {}
        BY <1>2, <2>2 DEF TimeInv
      <3>2. Named(s, p) # {}
        BY <1>0, <2>0, <2>2, <3>1
      <3>3. PICK y \in msgs : y.from = s /\ y.seq = p
        BY <3>2 DEF Named
      <3>4. y.copy = 0 /\ m.copy = 0
        BY <2>2, <3>3, NewCopy DEF SentInv
      <3>5. Identity(y) = Identity(m)
        BY <1>1, <3>3, <3>4 DEF Identity
      <3> QED BY <3>5 DEF Adds
    <2> QED BY <1>0, <1>1, <2>0, <2>1, <2>2
  <1> QED BY <1>1, <1>2

LEMMA TimeNext ==
    ASSUME TypeOK, UniqueInv, SentInv, TimeInv, ~SameMs, [Next]_vars
    PROVE  TimeInv'
  <1>0. /\ pos \in [Senders -> 0 .. MaxSends + 1] /\ MaxSends \in Nat /\ msgs \subseteq Messages
        /\ now \in Nat /\ now' \in Nat /\ now <= now'
    BY Kinds, MessagingAssumption DEF TypeOK, Settled
  <1>1. /\ \A m \in msgs : m.at <= now
        /\ \A m, n \in msgs : m.from = n.from /\ m.seq < n.seq => m.at < n.at
    BY DEF TimeInv
  <1>2. \A m \in msgs : m.at \in Nat /\ m.seq \in 1 .. MaxSends /\ m.from \in Senders
    BY <1>0 DEF Messages
  <1>3. ASSUME Quiet PROVE TimeInv'
    <2>1. \A m \in msgs : m.at <= now'
      BY <1>0, <1>1, <1>2
    <2> QED BY <1>1, <1>3, <2>1 DEF Quiet, TimeInv, Named
  <1>4. ASSUME NEW r \in Runs, Commits(r) PROVE TimeInv'
    <2>1. UNCHANGED <<plan, pos>>
      BY <1>4 DEF Commits
    <2>2. \A n \in msgs' : \E m \in msgs : n.from = m.from /\ n.seq = m.seq /\ n.at = m.at
      BY <1>4, NamesKept
    <2>3. \A m \in msgs' : m.at <= now'
      BY <1>0, <1>1, <1>2, <2>2
    <2>4. \A m, n \in msgs' : m.from = n.from /\ m.seq < n.seq => m.at < n.at
      BY <1>1, <2>2
    <2>5. ASSUME NEW n \in msgs'
          PROVE  IF plan.kind[n.from] = "unkeyed" THEN n.seq <= pos[n.from] \/ pos[n.from] = 0
                 ELSE \A k \in 1 .. n.seq : Named(n.from, k)' # {}
      <3>1. PICK m \in msgs : n.from = m.from /\ n.seq = m.seq
        BY <2>2
      <3>2. IF plan.kind[m.from] = "unkeyed" THEN m.seq <= pos[m.from] \/ pos[m.from] = 0
            ELSE \A k \in 1 .. m.seq : Named(m.from, k) # {}
        BY DEF TimeInv
      <3>3. ASSUME NEW x \in Senders, NEW k \in 1 .. MaxSends, Named(x, k) # {} PROVE Named(x, k)' # {}
        <4>1. PICK y \in msgs : y.from = x /\ y.seq = k
          BY <3>3, NamedEmpty
        <4>2. \E z \in msgs' : z.from = x /\ z.seq = k
          BY <1>4, <4>1, NamesKept
        <4> QED BY <4>2, NamedEmpty
      <3>4. \A k \in 1 .. m.seq : k \in 1 .. MaxSends
        BY <1>0, <1>2
      <3> QED BY <1>2, <3>1, <3>2, <3>3, <3>4
    <2> QED BY <2>1, <2>3, <2>4, <2>5 DEF TimeInv
  <1>5. ASSUME NEW s \in Senders, Resets(s) PROVE TimeInv'
    <2>1. UNCHANGED <<plan, msgs, now>>
      BY <1>5 DEF Resets
    <2>2. \A x \in Senders : plan.kind[x] = "unkeyed" => pos'[x] = pos[x] \/ pos'[x] = 0
      BY <1>0, <1>5 DEF Resets
    <2>3. ASSUME NEW m \in msgs, plan.kind[m.from] = "unkeyed"
          PROVE  m.seq <= pos'[m.from] \/ pos'[m.from] = 0
      <3>1. m.seq <= pos[m.from] \/ pos[m.from] = 0
        BY <2>3 DEF TimeInv
      <3> QED BY <1>2, <2>2, <2>3, <3>1
    <2> QED BY <2>1, <2>3 DEF TimeInv, Named
  <1>6. ASSUME NEW s \in Senders, Sends(s) PROVE TimeInv'
    <2>0. PICK p \in 1 .. MaxSends : p = pos[s] /\ UNCHANGED <<plan, now>>
      BY <1>6 DEF Sends
    <2>1. \A x \in Senders : pos'[x] \in Nat /\ (pos'[x] = pos[x] \/ (pos[x] \in Nat \ {0} /\ pos[x] <= pos'[x]))
      BY <1>0, <1>6 DEF Sends
    <2>2. \A x \in Senders, k \in 1 .. MaxSends : Named(x, k) # {} => Named(x, k)' # {}
      BY <1>6 DEF Sends, Adds, Named
    <2>3. ASSUME NEW m \in msgs
          PROVE  IF plan.kind[m.from] = "unkeyed" THEN m.seq <= pos'[m.from] \/ pos'[m.from] = 0
                 ELSE \A k \in 1 .. m.seq : Named(m.from, k)' # {}
      <3>1. IF plan.kind[m.from] = "unkeyed" THEN m.seq <= pos[m.from] \/ pos[m.from] = 0
            ELSE \A k \in 1 .. m.seq : Named(m.from, k) # {}
        BY DEF TimeInv
      <3>2. m.from \in Senders /\ m.seq \in Nat /\ \A k \in 1 .. m.seq : k \in 1 .. MaxSends
        BY <1>0, <1>2
      <3>3. pos[m.from] \in Nat /\ pos'[m.from] \in Nat
        BY <1>0, <2>1, <3>2
      <3>4. CASE plan.kind[m.from] = "unkeyed"
        BY <2>1, <3>1, <3>2, <3>3, <3>4
      <3>5. CASE plan.kind[m.from] # "unkeyed"
        BY <2>2, <3>1, <3>2, <3>5
      <3> QED BY <3>4, <3>5
    <2>4. CASE UNCHANGED msgs
      BY <1>1, <2>0, <2>3, <2>4 DEF TimeInv
    <2>5. ASSUME NEW m \in Messages, Adds(s, m) PROVE TimeInv'
      <3>1. /\ m.from = s /\ m.at = now /\ m.seq = p /\ msgs' = msgs \cup {m}
            /\ \A x \in msgs : x.from = s => x.seq <= m.seq /\ x.at < now
        BY <1>6, <2>0, <2>5, NewestSeq DEF Adds, Message
      <3>2. \A x \in msgs' : x.at <= now'
        BY <1>0, <1>1, <2>0, <3>1
      <3>3. \A x, n \in msgs' : x.from = n.from /\ x.seq < n.seq => x.at < n.at
        <4>1. \A x \in msgs : x.from = s => ~(m.seq < x.seq) /\ x.at < m.at
          BY <1>2, <3>1
        <4>2. ~(m.seq < m.seq)
          BY <3>1
        <4> QED BY <1>1, <3>1, <4>1, <4>2
      <3>4. CASE plan.kind[s] = "unkeyed"
        <4>1. p <= pos'[s]
          BY <1>0, <2>0, <2>1
        <4> QED BY <2>0, <2>3, <3>1, <3>2, <3>3, <3>4, <4>1 DEF TimeInv
      <3>5. CASE plan.kind[s] # "unkeyed"
        <4>1. ASSUME NEW k \in 1 .. p PROVE Named(s, k)' # {}
          <5>1. CASE k = p
            BY <3>1, <5>1 DEF Named
          <5>2. CASE k < p
            <6>1. k \in 1 .. MaxSends /\ k < pos[s]
              BY <1>0, <2>0, <5>2
            <6> QED BY <2>2, <6>1 DEF SentInv
          <5> QED BY <1>0, <5>1, <5>2
        <4> QED BY <2>0, <2>3, <3>1, <3>2, <3>3, <3>5, <4>1 DEF TimeInv
      <3> QED BY <3>4, <3>5
    <2> QED BY <1>6, <2>4, <2>5 DEF Sends
  <1> QED BY <1>3, <1>4, <1>5, <1>6, Kinds

\* A commit reads what it takes, and nothing becomes unread.
LEMMA UnreadShrinks ==
    ASSUME TypeOK, UniqueInv, NEW r \in Runs, Quiet \/ Commits(r)
    PROVE  \A m \in Unread' : m \in Unread
  <1>1. CASE UNCHANGED msgs
    BY <1>1 DEF Unread
  <1>2. ASSUME NEW t \in Messages, NEW u \in Messages, Took(r, t, u) PROVE \A m \in Unread' : m \in Unread
    BY <1>2 DEF Took, Unread
  <1> QED BY <1>1, <1>2, CommitTakes DEF Quiet

LEMMA FrontNext ==
    ASSUME TypeOK, UniqueInv, SentInv, ReceivedInv, TimeInv, FrontInv, ~SameMs, [Next]_vars
    PROVE  FrontInv'
  <1>0. msgs \subseteq Messages /\ \A m \in msgs : Identity(m).from = m.from /\ Identity(m).seq = m.seq
    BY DEF TypeOK, Identity
  <1>1. \A k \in Steps : Received(k) =>
            \A m \in Unread : m.from = outputs[k].value.from => outputs[k].value.seq <= m.seq
    BY DEF FrontInv
  <1>2. \A r \in Runs : run[r].pc = "commit" /\ run[r].saw # Null =>
            /\ \E n \in msgs : run[r].saw = Identity(n)
            /\ \A m \in Unread : m.from = run[r].saw.from => run[r].saw.seq <= m.seq
    BY DEF FrontInv
  <1>3. ASSUME UNCHANGED run, Quiet PROVE FrontInv'
    BY <1>3 DEF Quiet, FrontInv, Received, Recorded, Unread, Identity
  <1>4. ASSUME NEW s \in Senders, Sends(s) \/ Resets(s) PROVE FrontInv'
    <2>1. UNCHANGED <<outputs, run>>
      BY <1>4 DEF Sends, Resets, receiver
    <2>2. CASE UNCHANGED msgs
      BY <2>1, <2>2 DEF FrontInv, Received, Recorded, Unread, Identity
    <2>3. ASSUME NEW m \in Messages, Sends(s), Adds(s, m) PROVE FrontInv'
      <3>1. /\ msgs' = msgs \cup {m} /\ Unread' = Unread \cup {m} /\ m.from = s
            /\ \A x \in msgs : x.from = m.from => x.seq <= m.seq
        BY <2>3, NewestSeq DEF Adds, Unread
      <3>2. \A k \in Steps : Received(k) => \E n \in msgs : outputs[k].value = Identity(n)
        BY DEF ReceivedInv
      <3>3. \A k \in Steps : Received(k) =>
                \A x \in Unread' : x.from = outputs[k].value.from => outputs[k].value.seq <= x.seq
        BY <1>0, <1>1, <3>1, <3>2
      <3>4. \A r \in Runs : run[r].pc = "commit" /\ run[r].saw # Null =>
                /\ \E n \in msgs' : run[r].saw = Identity(n)
                /\ \A x \in Unread' : x.from = run[r].saw.from => run[r].saw.seq <= x.seq
        BY <1>0, <1>2, <3>1
      <3> QED BY <2>1, <3>3, <3>4 DEF FrontInv, Received, Recorded, Identity
    <2> QED BY <1>4, <2>2, <2>3 DEF Sends, Resets
  <1>5. ASSUME NEW r \in Runs, Moved(r), Quiet \/ Commits(r) PROVE FrontInv'
    <2>1. \A m \in Unread' : m \in Unread
      BY <1>5, UnreadShrinks
    <2>2. \A n \in msgs : \E x \in msgs' : Identity(x) = Identity(n)
      BY <1>5, NamesKept DEF Identity
    <2>3. ASSUME NEW k \in Steps, Received(k)', NEW m \in Unread', m.from = outputs'[k].value.from
          PROVE  outputs'[k].value.seq <= m.seq
      <3>1. CASE outputs'[k] = outputs[k]
        <4>1. Received(k)
          BY <2>3, <3>1 DEF Received, Recorded
        <4> QED BY <1>1, <2>1, <2>3, <3>1, <4>1
      <3>2. CASE outputs'[k] # outputs[k]
        <4>1. Commits(r) /\ run[r].pc = "commit" /\ outputs \in [Steps -> Outputs]
          BY <1>5, <3>2 DEF Quiet, Commits, TypeOK
        <4>2. CASE outputs' = [outputs EXCEPT ![Step(r)] = [value |-> Null]]
          <5>1. outputs'[k].value = Null
            BY <3>2, <4>1, <4>2
          <5> QED BY <2>3, <5>1 DEF Received
        <4>3. ASSUME NEW t \in Messages, NEW u \in Messages, Took(r, t, u)
              PROVE  outputs'[k].value.seq <= m.seq
          <5>1. outputs'[k].value = Identity(t) /\ Identity(t) = run[r].saw
            BY <3>2, <4>1, <4>3 DEF Took
          <5>2. run[r].saw # Null
            BY <2>3, <5>1 DEF Received
          <5> QED BY <1>2, <2>1, <2>3, <4>1, <5>1, <5>2
        <4> QED BY <4>1, <4>2, <4>3, CommitTakes
      <3> QED BY <3>1, <3>2
    <2>4. ASSUME NEW x \in Runs, run'[x].pc = "commit", run'[x].saw # Null
          PROVE  /\ \E n \in msgs' : run'[x].saw = Identity(n)
                 /\ \A m \in Unread' : m.from = run'[x].saw.from => run'[x].saw.seq <= m.seq
      <3>1. CASE run[x].pc = "commit" /\ run'[x].saw = run[x].saw
        BY <1>2, <2>1, <2>2, <2>4, <3>1
      <3>2. CASE x = r /\ \E m \in Oldest : run'[r].saw = Identity(m)
        <4>1. PICK n \in Oldest : run'[r].saw = Identity(n)
          BY <3>2
        <4>2. n \in msgs /\ \A m \in Unread : m \in msgs /\ n.at <= m.at
          BY <4>1 DEF Oldest, Unread
        <4>3. \A m \in msgs : m.from = n.from /\ m.seq < n.seq => m.at < n.at
          BY <4>2 DEF TimeInv
        <4>4. \A m \in msgs : m.at \in Nat /\ m.seq \in Nat
          BY <1>0, MessagingAssumption DEF Messages
        <4>5. \A m \in Unread : m.from = n.from => n.seq <= m.seq
          BY <4>2, <4>3, <4>4
        <4> QED BY <1>0, <2>1, <2>2, <3>2, <4>1, <4>2, <4>5
      <3> QED BY <1>5, <2>4, <3>1, <3>2 DEF Moved
    <2> QED BY <2>3, <2>4 DEF FrontInv, Identity
  <1> QED BY <1>3, <1>4, <1>5, Kinds

LEMMA CallsNext ==
    ASSUME TypeOK, CallsInv, ~SameMs, [Next]_vars
    PROVE  CallsInv'
  <1>1. ASSUME UNCHANGED <<plan, run, outputs>> PROVE CallsInv'
    BY <1>1 DEF CallsInv, Before, Recorded, Step
  <1>2. ASSUME NEW r \in Runs, Moved(r), Quiet \/ Commits(r) PROVE CallsInv'
    <2>1. UNCHANGED plan /\ run[r].i \in Nat \ {0} /\ outputs \in [Steps -> Outputs]
      BY <1>2 DEF Quiet, Commits, TypeOK, RunType
    <2>2. \A k \in Steps : Recorded(k) => Recorded(k)'
      BY <1>2, <2>1 DEF Quiet, Commits, Recorded
    <2>3. \A k \in Steps : Recorded(k)' => Recorded(k) \/ (Commits(r) /\ k = Step(r))
      BY <1>2, <2>1 DEF Quiet, Commits, Recorded
    <2>4. \A a \in 1 .. Len(plan.calls) : plan.calls[a] \in Steps
      BY PlanFacts
    <2>5. ASSUME NEW i, Before(i) PROVE Before(i)'
      BY <2>1, <2>2, <2>4, <2>5 DEF Before
    <2>6. Before(run[r].i) /\ (run[r].pc = "asleep" => Step(r) \in plan.sleeps)
          /\ (run[r].pc \in Recving => Step(r) \notin plan.sleeps)
      BY DEF CallsInv
    <2>7. PICK i \in Nat \ {0} : i = run'[r].i
      BY <1>2 DEF Moved, RunType
    <2>8. Before(i)'
      <3>1. CASE i = 1
        BY <2>1, <3>1, PlanFacts DEF Before
      <3>2. CASE i = run[r].i
        BY <2>5, <2>6, <3>2
      <3>3. CASE /\ i = run[r].i + 1 /\ run[r].i \in 1 .. Len(plan.calls)
                 /\ run[r].pc = "asleep" \/ outputs'[Step(r)] # Null
        <4>1. \A a \in 1 .. Len(plan.calls) :
                  a < run[r].i /\ plan.calls[a] \notin plan.sleeps => Recorded(plan.calls[a])
          BY <2>6 DEF Before
        <4>2. plan.calls[run[r].i] \notin plan.sleeps => outputs'[plan.calls[run[r].i]] # Null
          BY <2>6, <3>3 DEF Step
        <4>3. ASSUME NEW a \in 1 .. Len(plan.calls), a < i, plan.calls[a] \notin plan.sleeps
              PROVE  outputs'[plan.calls[a]] # Null
          <5>1. a < run[r].i \/ a = run[r].i
            BY <2>1, <3>3, <4>3, PlanFacts
          <5>2. CASE a < run[r].i
            <6>1. plan.calls[a] \in Steps /\ Recorded(plan.calls[a])
              BY <2>4, <4>1, <4>3, <5>2
            <6>2. \A k \in Steps : Recorded(k) => outputs'[k] # Null
              BY <2>2 DEF Recorded
            <6> QED BY <6>1, <6>2
          <5> QED BY <4>2, <4>3, <5>1, <5>2
        <4> QED BY <2>1, <4>3 DEF Before, Recorded
      <3> QED BY <1>2, <2>7, <3>1, <3>2, <3>3 DEF Moved
    <2>9. /\ run'[r].pc = "asleep" => Step(r)' \in plan.sleeps
          /\ run'[r].pc \in Recving => Step(r)' \notin plan.sleeps
      <3>1. run'[r].i = run[r].i => Step(r)' = Step(r)
        BY <2>1 DEF Step
      <3> QED BY <1>2, <2>6, <3>1 DEF Moved
    <2>10. \A x \in Runs \ {r} : Step(x)' = Step(x) /\ run'[x] = run[x]
      BY <1>2, <2>1 DEF Moved, Step
    <2>11. ASSUME NEW x \in Runs
           PROVE  /\ Before(run[x].i)'
                  /\ run'[x].pc = "asleep" => Step(x)' \in plan.sleeps
                  /\ run'[x].pc \in Recving => Step(x)' \notin plan.sleeps
      <3>1. CASE x = r
        BY <2>7, <2>8, <2>9, <3>1
      <3>2. CASE x # r
        <4>1. Before(run[x].i) /\ (run[x].pc = "asleep" => Step(x) \in plan.sleeps)
              /\ (run[x].pc \in Recving => Step(x) \notin plan.sleeps)
          BY DEF CallsInv
        <4>2. PICK j : j = run[x].i /\ j = run'[x].i
          BY <2>10, <3>2
        <4>3. Before(j)'
          BY <2>5, <4>1, <4>2
        <4> QED BY <2>10, <3>2, <4>1, <4>2, <4>3
      <3> QED BY <3>1, <3>2
    <2>12. ASSUME NEW k \in Steps, Recorded(k)'
           PROVE  \E j \in 1 .. Len(plan.calls) : plan.calls[j] = k /\ Before(j)'
      <3>1. CASE Recorded(k)
        <4>1. PICK j \in 1 .. Len(plan.calls) : plan.calls[j] = k /\ Before(j)
          BY <3>1 DEF CallsInv
        <4> QED BY <2>5, <4>1
      <3>2. CASE Commits(r) /\ k = Step(r)
        <4>1. PICK j \in 1 .. Len(plan.calls) : j = run[r].i
          BY <3>2, TakenFacts DEF Commits
        <4> QED BY <2>5, <2>6, <3>2, <4>1 DEF Step
      <3> QED BY <2>3, <2>12, <3>1, <3>2
    <2> QED BY <2>1, <2>11, <2>12 DEF CallsInv
  <1>3. ASSUME NEW s \in Senders, Sends(s) \/ Resets(s) PROVE CallsInv'
    BY <1>1, <1>3 DEF Sends, Resets, receiver
  <1> QED BY <1>1, <1>2, <1>3, Kinds DEF Quiet

\* What the runs are given is what is recorded.
LEMMA AgreeNext ==
    ASSUME TypeOK, RunsAgree, ~SameMs, [Next]_vars
    PROVE  RunsAgree'
  <1>0. returned \in [Runs -> [Steps -> Outputs]] /\ outputs \in [Steps -> Outputs]
    BY DEF TypeOK
  <1>1. \A k \in Steps : outputs[k] # Null => outputs'[k] = outputs[k]
    <2>1. ASSUME NEW r \in Runs, Commits(r) PROVE \A k \in Steps : outputs[k] # Null => outputs'[k] = outputs[k]
      BY <1>0, <2>1 DEF Commits
    <2>2. ASSUME NEW s \in Senders, Sends(s) \/ Resets(s) PROVE UNCHANGED outputs
      BY <2>2 DEF Sends, Resets, receiver
    <2> QED BY <2>1, <2>2, Kinds DEF Quiet
  <1>2. CASE UNCHANGED returned
    BY <1>1, <1>2 DEF RunsAgree
  <1>3. ASSUME NEW r \in Runs, returned' = [returned EXCEPT ![r] = [k \in Steps |-> Null]] PROVE RunsAgree'
    <2>1. \A x \in Runs, k \in Steps : returned'[x][k] = returned[x][k] \/ returned'[x][k] = Null
      BY <1>0, <1>3
    <2> QED BY <1>1, <2>1 DEF RunsAgree
  <1>4. ASSUME NEW r \in Runs, NEW j \in Steps, NEW o, o = outputs'[j],
               returned' = [returned EXCEPT ![r][j] = o]
        PROVE  RunsAgree'
    <2>1. \A x \in Runs, k \in Steps : returned'[x][k] = returned[x][k] \/ (k = j /\ returned'[x][k] = o)
      BY <1>0, <1>4
    <2> QED BY <1>1, <1>4, <2>1 DEF RunsAgree
  <1>5. ASSUME NEW r \in Runs, RecvCheck(r) PROVE RunsAgree'
    <2>1. PICK j \in Steps : j = Step(r)
      BY <1>5, PlanFacts DEF RecvCheck, TypeOK, Active, Step
    <2>2. UNCHANGED outputs /\ (UNCHANGED returned \/ returned' = [returned EXCEPT ![r][j] = outputs[j]])
      BY <1>5, <2>1 DEF RecvCheck
    <2> QED BY <1>2, <1>4, <2>2
  <1>6. ASSUME NEW r \in Runs, CommitRecv(r) PROVE RunsAgree'
    <2>1. PICK j \in Steps : j = Step(r)
      BY <1>6, TakenFacts DEF CommitRecv
    <2>2. CASE UNCHANGED returned
      BY <1>2, <2>2
    <2>3. CASE /\ outputs' = [outputs EXCEPT ![j] = Output(r)]
               /\ returned' = [returned EXCEPT ![r][j] = Output(r)]
      <3>1. outputs'[j] = Output(r)
        BY <1>0, <2>3
      <3> QED BY <1>4, <2>3, <3>1
    <2> QED BY <1>6, <2>1, <2>2, <2>3 DEF CommitRecv, Conflict
  <1>7. ASSUME NEW r \in Runs, Crash(r) PROVE RunsAgree'
    BY <1>3, <1>7 DEF Crash
  <1>8. CASE UNCHANGED vars
    BY <1>2, <1>8 DEF vars
  <1>9. ASSUME NEW s \in Senders, SenderStep(s) \/ CrashSender(s) PROVE UNCHANGED returned
    BY <1>9 DEF SenderStep, CrashSender, Send, SendDirect, receiver
  <1>10. ASSUME NEW r \in Runs,
                \/ DurableSleep(r) \/ RecordDeadline(r) \/ WakeUp(r) \/ Register(r)
                \/ PollRead(r) \/ Poll(r) \/ WaitEnds(r) \/ Choose(r)
                \/ Retry(r) \/ CommitAckLost(r) \/ Recover(r) \/ Deliver(r) \/ Disconnect(r) \/ Connect(r)
         PROVE  UNCHANGED returned
    BY <1>10 DEF DurableSleep, RecordDeadline, WakeUp, Register, PollRead, Poll, WaitEnds, Choose,
       Retry, CommitAckLost, Recover, Deliver, Disconnect, Connect, shared, receiver
  <1>11. ASSUME StartReceiver \/ Cancel \/ Tick PROVE UNCHANGED returned
    BY <1>11 DEF StartReceiver, Cancel, Tick, receiver
  <1> QED BY <1>2, <1>5, <1>6, <1>7, <1>8, <1>9, <1>10, <1>11 DEF Next, RecvStep

\* Recvs that are recorded one after the other take the messages of a sender in turn.
LEMMA OrderNext ==
    ASSUME TypeOK, UniqueInv, FrontInv, CallsInv, SenderOrder, ~SameMs, [Next]_vars
    PROVE  SenderOrder'
  <1>0. outputs \in [Steps -> Outputs]
    BY DEF TypeOK
  <1>1. \A j, k \in Steps :
            j < k /\ Received(j) /\ Received(k) /\ outputs[j].value.from = outputs[k].value.from
            => outputs[j].value.seq <= outputs[k].value.seq
    BY DEF SenderOrder, Received, Recorded
  <1>2. ASSUME \A j, k \in Steps :
                   j < k /\ Received(j)' /\ Received(k)' /\ outputs'[j].value.from = outputs'[k].value.from
                   => outputs'[j].value.seq <= outputs'[k].value.seq
        PROVE  SenderOrder'
    BY <1>2 DEF SenderOrder, Received, Recorded
  <1>3. CASE UNCHANGED outputs
    BY <1>3 DEF SenderOrder
  <1>4. ASSUME NEW r \in Runs, Commits(r) PROVE SenderOrder'
    <2>1. PICK k \in Steps : k = Step(r) /\ outputs[k] = Null /\ run[r].pc = "commit"
      BY <1>4, TakenFacts DEF Commits
    <2>2. ASSUME NEW j \in Steps, Recorded(j) PROVE ~(k < j)
      <3>1. PICK b \in 1 .. Len(plan.calls) : plan.calls[b] = j /\ Before(b)
        BY <2>2 DEF CallsInv
      <3>2. PICK a \in 1 .. Len(plan.calls) : a = run[r].i /\ plan.calls[a] = k
        BY <2>1, TakenFacts DEF Step
      <3>3. k \notin plan.sleeps
        BY <2>1 DEF CallsInv, Recving
      <3>4. ~(a < b)
        BY <2>1, <3>1, <3>2, <3>3 DEF Before, Recorded
      <3>5. b < a => j < k
        BY <3>1, <3>2, PlanFacts
      <3>6. j \in Nat /\ k \in Nat /\ a \in Nat /\ b \in Nat
        BY PlanFacts, MessagingAssumption
      <3> QED BY <3>1, <3>2, <3>4, <3>5, <3>6
    <2>3. CASE outputs' = [outputs EXCEPT ![k] = [value |-> Null]]
      <3>1. \A j \in Steps : Received(j)' => Received(j) /\ outputs'[j] = outputs[j]
        BY <1>0, <2>1, <2>3 DEF Received, Recorded
      <3> QED BY <1>1, <1>2, <3>1
    <2>4. ASSUME NEW t \in Messages, NEW u \in Messages, Took(r, t, u) PROVE SenderOrder'
      <3>0. Identity(t).from = t.from /\ Identity(t).seq = t.seq
        BY DEF Identity
      <3>1. PICK v : v = Identity(t) /\ v.from = t.from /\ v.seq = t.seq
        BY <3>0
      <3>2. t \in Unread /\ outputs' = [outputs EXCEPT ![k] = [value |-> v]]
        BY <2>1, <2>4, <3>1 DEF Took, Unread
      <3>3. outputs'[k].value = v /\ \A j \in Steps : j # k => outputs'[j] = outputs[j]
        BY <1>0, <3>2
      <3>4. \A j \in Steps : j # k /\ Received(j)' => Received(j)
        BY <3>3 DEF Received, Recorded
      <3>5. \A j \in Steps : Received(j) /\ outputs[j].value.from = v.from => outputs[j].value.seq <= v.seq
        BY <3>1, <3>2 DEF FrontInv
      <3>6. \A j \in Steps : Received(j) => ~(k < j)
        BY <2>2 DEF Received
      <3>7. ~(k < k)
        BY MessagingAssumption
      <3>8. ASSUME NEW i \in Steps, NEW j \in Steps, i < j, Received(i)', Received(j)',
                   outputs'[i].value.from = outputs'[j].value.from
            PROVE  outputs'[i].value.seq <= outputs'[j].value.seq
        <4>1. CASE i = k
          BY <3>4, <3>6, <3>7, <3>8, <4>1
        <4>2. CASE i # k /\ j = k
          BY <3>3, <3>4, <3>5, <3>8, <4>2
        <4>3. CASE i # k /\ j # k
          BY <1>1, <3>3, <3>4, <3>8, <4>3
        <4> QED BY <4>1, <4>2, <4>3
      <3> QED BY <1>2, <3>8
    <2> QED BY <1>4, <2>1, <2>3, <2>4, CommitTakes
  <1>5. ASSUME NEW s \in Senders, Sends(s) \/ Resets(s) PROVE UNCHANGED outputs
    BY <1>5 DEF Sends, Resets, receiver
  <1> QED BY <1>3, <1>4, <1>5, Kinds DEF Quiet

\* A callback that is registered under a connection that stays is called.
LEMMA WakeNext ==
    ASSUME TypeOK, UniqueInv, WakeInv, ~SameMs, [Next]_vars
    PROVE  WakeInv'
  <1>0. run \in [Runs -> RunType] /\ \A x \in Runs : Called(x)
    BY DEF TypeOK, WakeInv
  <1>1. ASSUME NEW x \in Runs, run'[x] = run[x], x \in listening => x \in listening',
               x \in inflight => x \in inflight', \A m \in Unread' : m \in Unread
        PROVE  Called(x)'
    BY <1>0, <1>1 DEF Called
  <1>2. ASSUME NEW x \in Runs, run'[x].pc \notin Registered PROVE Called(x)'
    BY <1>2 DEF Called, Registered
  <1>3. CASE UNCHANGED vars
    BY <1>1, <1>3 DEF vars, WakeInv, Unread
  <1>4. CASE StartReceiver \/ Cancel \/ Tick \/ \E r \in Runs : Connect(r)
    <2>1. UNCHANGED <<run, inflight, msgs>> /\ listening \subseteq listening'
      BY <1>4 DEF StartReceiver, Cancel, Tick, Connect, receiver
    <2> QED BY <1>1, <2>1 DEF WakeInv, Unread
  <1>5. ASSUME NEW s \in Senders, SenderStep(s) \/ CrashSender(s) PROVE WakeInv'
    <2>1. (Sends(s) \/ Resets(s)) /\ UNCHANGED <<run, listening>>
      BY <1>5, SenderSteps DEF Sends, Resets, receiver
    <2>2. CASE UNCHANGED <<msgs, inflight>>
      BY <1>1, <2>1, <2>2 DEF WakeInv, Unread
    <2>3. CASE inflight' = inflight \cup listening
      <3>1. ASSUME NEW x \in Runs PROVE Called(x)'
        BY <1>0, <2>1, <2>3 DEF Called, Registered
      <3> QED BY <3>1 DEF WakeInv
    <2> QED BY <2>1, <2>2, <2>3 DEF Sends, Resets, Adds
  <1>6. ASSUME NEW r \in Runs,
               \/ RecvStep(r) \/ Retry(r) \/ CommitAckLost(r) \/ Crash(r) \/ Recover(r)
               \/ Deliver(r) \/ Disconnect(r)
        PROVE  WakeInv'
    <2>0. Moved(r) /\ (Quiet \/ Commits(r))
      <3>1. CASE CommitRecv(r) \/ CommitAckLost(r)
        BY <3>1, CommitSteps
      <3>2. CASE Retry(r) \/ Crash(r) \/ Recover(r) \/ Deliver(r) \/ Disconnect(r)
        BY <3>2, FaultSteps
      <3>3. CASE \/ RecvCheck(r) \/ DurableSleep(r) \/ RecordDeadline(r) \/ WakeUp(r) \/ Register(r)
                 \/ PollRead(r) \/ Poll(r) \/ WaitEnds(r) \/ Choose(r)
        BY <3>3, CallSteps
      <3> QED BY <1>6, <3>1, <3>2, <3>3 DEF RecvStep
    <2>1. \A m \in Unread' : m \in Unread
      BY <2>0, UnreadShrinks
    <2>2. run[r].i \in Nat \ {0} /\ run[r].i + 1 \in Nat \ {0}
      BY <1>0 DEF RunType
    <2>3. ASSUME NEW x \in Runs \ {r} PROVE Called(x)'
      <3>1. (x \in listening => x \in listening') /\ (x \in inflight => x \in inflight')
        BY <1>6 DEF RecvStep, Retry, CommitAckLost, Crash, Recover, Deliver, Disconnect, RecvCheck,
           DurableSleep, RecordDeadline, WakeUp, Register, PollRead, Poll, WaitEnds, Choose, CommitRecv,
           shared
      <3>2. run'[x] = run[x]
        BY <2>0 DEF Moved
      <3> QED BY <1>1, <2>1, <3>1, <3>2
    <2>4. ASSUME Goto(r, "stopped") \/ Goto(r, "deadline") \/ Goto(r, "asleep") \/ Goto(r, "register")
                 \/ Goto(r, "commit")
          PROVE  Called(r)'
      <3>1. run'[r].pc \in {"stopped", "deadline", "asleep", "register", "commit"}
        BY <2>4, GotoFacts
      <3> QED BY <1>2, <3>1 DEF Registered
    <2>5. ASSUME NEW i \in Nat \ {0}, run' = [run EXCEPT ![r] = Call(r, i)] PROVE Called(r)'
      <3>1. run'[r].pc \in {"done", "deadline", "check"}
        BY <2>5, CallFacts
      <3> QED BY <1>2, <3>1 DEF Registered
    <2>6. ASSUME Advance(r) PROVE Called(r)'
      BY <2>2, <2>5, <2>6 DEF Advance
    <2>7. ASSUME Leave(r, "register") \/ Leave(r, "update") PROVE Called(r)'
      <3>1. run'[r].pc \in {"register", "update"}
        BY <2>7, LeaveFacts
      <3> QED BY <1>2, <3>1 DEF Registered
    <2>8. ASSUME RecvCheck(r) PROVE Called(r)'
      BY <2>4, <2>6, <2>8 DEF RecvCheck
    <2>9. ASSUME DurableSleep(r) PROVE Called(r)'
      <3>1. Goto(r, "stopped") \/ run'[r].pc \in {"asleep", "register", "record"}
        BY <1>0, <2>9 DEF DurableSleep, RunType
      <3> QED BY <1>2, <2>4, <3>1 DEF Registered
    <2>10. ASSUME RecordDeadline(r) PROVE Called(r)'
      BY <2>4, <2>10 DEF RecordDeadline
    <2>11. ASSUME WakeUp(r) PROVE Called(r)'
      BY <2>4, <2>6, <2>11 DEF WakeUp
    <2>12. ASSUME Register(r) PROVE Called(r)'
      <3>1. CASE run' = [run EXCEPT ![r].pc = "poll", ![r].woken = FALSE, ![r].covered = r \in listening]
        <4>1. run'[r].pc = "poll" /\ (run'[r].covered <=> r \in listening) /\ UNCHANGED listening
          BY <1>0, <2>12, <3>1 DEF RunType, Register, shared
        <4> QED BY <4>1 DEF Called
      <3> QED BY <2>4, <2>12, <3>1 DEF Register
    <2>13. ASSUME PollRead(r) PROVE Called(r)'
      <3>1. /\ run'[r].pc = "polled" /\ (run'[r].found <=> Unread # {}) /\ run'[r].covered = run[r].covered
            /\ run[r].pc = "poll" /\ UNCHANGED <<listening, inflight>>
        BY <1>0, <2>13 DEF RunType, PollRead, shared
      <3> QED BY <1>0, <2>1, <3>1 DEF Called, Registered
    <2>14. ASSUME Poll(r) PROVE Called(r)'
      <3>1. CASE Goto(r, "wait") /\ ~run[r].found
        <4>1. /\ run'[r].pc = "wait" /\ run'[r].covered = run[r].covered /\ run'[r].woken = run[r].woken
              /\ run[r].pc = "polled" /\ UNCHANGED <<listening, inflight>>
          BY <2>14, <3>1, GotoFacts DEF Poll, shared
        <4> QED BY <1>0, <2>1, <3>1, <4>1 DEF Called, Registered
      <3> QED BY <2>7, <2>14, <3>1 DEF Poll
    <2>15. ASSUME WaitEnds(r) PROVE Called(r)'
      BY <2>7, <2>15 DEF WaitEnds
    <2>16. ASSUME Choose(r) PROVE Called(r)'
      <3>1. Goto(r, "stopped") \/ run'[r].pc = "commit"
        BY <1>0, <2>16 DEF Choose, RunType
      <3> QED BY <1>2, <2>4, <3>1 DEF Registered
    <2>17. ASSUME CommitRecv(r) PROVE Called(r)'
      BY <2>4, <2>6, <2>17 DEF CommitRecv
    <2>18. ASSUME Retry(r) \/ CommitAckLost(r) PROVE Called(r)'
      BY <2>2, <2>5, <2>18 DEF Retry, CommitAckLost
    <2>19. ASSUME Recover(r) PROVE Called(r)'
      <3>1. run' = [run EXCEPT ![r] = Call(r, 1)] /\ 1 \in Nat \ {0}
        BY <2>19 DEF Recover
      <3> QED BY <2>5, <3>1
    <2>20. ASSUME Crash(r) PROVE Called(r)'
      <3>1. run'[r].pc = "down"
        BY <1>0, <2>20, IdleFacts DEF Crash
      <3> QED BY <1>2, <3>1 DEF Registered
    <2>21. ASSUME Deliver(r) PROVE Called(r)'
      <3>1. CASE run[r].pc \in Registered
        <4>1. /\ run'[r].pc = run[r].pc /\ run'[r].woken /\ run'[r].covered = run[r].covered
              /\ UNCHANGED listening
          BY <1>0, <2>21, <3>1 DEF Deliver, RunType
        <4> QED BY <1>0, <3>1, <4>1 DEF Called
      <3>2. CASE run[r].pc \notin Registered
        BY <1>2, <2>21, <3>2 DEF Deliver
      <3> QED BY <3>1, <3>2
    <2>22. ASSUME Disconnect(r) PROVE Called(r)'
      <3>1. run'[r].covered = FALSE
        BY <1>0, <2>22 DEF Disconnect, RunType
      <3> QED BY <3>1 DEF Called
    <2>23. Called(r)'
      BY <1>6, <2>8, <2>9, <2>10, <2>11, <2>12, <2>13, <2>14, <2>15, <2>16, <2>17, <2>18, <2>19, <2>20,
         <2>21, <2>22 DEF RecvStep
    <2> QED BY <2>3, <2>23 DEF WakeInv
  <1> QED BY <1>3, <1>4, <1>5, <1>6 DEF Next

-----------------------------------------------------------------------------
(* The theorems.                                                           *)

Inv ==
    /\ TypeOK /\ UniqueInv /\ SentInv /\ ReceivedInv
    /\ TimeInv /\ FrontInv /\ CallsInv
    /\ RunsAgree /\ SenderOrder /\ WakeInv

LEMMA InvInit ==
    ASSUME Init PROVE Inv
  <1>0. /\ plan \in Plans /\ msgs = {} /\ pos = [s \in Senders |-> 1] /\ recorded = [s \in Senders |-> {}]
        /\ outputs = [k \in Steps |-> Null] /\ run = [r \in Runs |-> Idle("down")]
        /\ returned = [r \in Runs |-> [k \in Steps |-> Null]]
    BY DEF Init
  <1>1. Idle("down") \in RunType /\ Idle("down").pc = "down" /\ Idle("down").i = 1
    BY IdleFacts
  <1>2. TypeOK
    <2>1. pos \in [Senders -> 0 .. MaxSends + 1] /\ recorded \in [Senders -> SUBSET (1 .. MaxSends)]
      <3>1. 1 \in 0 .. MaxSends + 1
        BY MessagingAssumption
      <3>2. {} \in SUBSET (1 .. MaxSends)
        OBVIOUS
      <3> QED BY <1>0, <3>1, <3>2
    <2>2. outputs \in [Steps -> Outputs] /\ returned \in [Runs -> [Steps -> Outputs]]
      BY <1>0 DEF Outputs
    <2>3. deadlines \in [Steps -> {Null} \cup [end : Nat, at : Nat]]
      BY DEF Init
    <2>4. run \in [Runs -> RunType] /\ \A r \in Runs : ~Active(r)
      BY <1>0, <1>1 DEF Active
    <2>5. msgs \subseteq Messages /\ IsFiniteSet(msgs)
      BY <1>0, FS_EmptySet
    <2> QED BY <1>0, <2>1, <2>2, <2>3, <2>4, <2>5 DEF Init, TypeOK
  <1>3. UniqueInv /\ ReceivedInv /\ RunsAgree
    BY <1>0 DEF UniqueInv, ReceivedInv, Received, Recorded, RunsAgree
  <1>4. SentInv
    <2>1. \A s \in Senders, k \in 1 .. MaxSends : Named(s, k) = {} /\ k \notin recorded[s] /\ ~(k < pos[s])
      BY <1>0, MessagingAssumption DEF Named
    <2> QED BY <1>0, <2>1 DEF SentInv
  <1>5. TimeInv
    BY <1>0 DEF TimeInv
  <1>6. FrontInv
    BY <1>0, <1>1 DEF FrontInv, Received, Recorded
  <1>7. CallsInv
    BY <1>0, <1>1, <1>2, PlanFacts DEF CallsInv, Before, Recorded, Recving
  <1>8. SenderOrder
    BY <1>0 DEF SenderOrder
  <1>9. WakeInv
    BY <1>0, <1>1 DEF WakeInv, Called, Registered
  <1> QED BY <1>2, <1>3, <1>4, <1>5, <1>6, <1>7, <1>8, <1>9 DEF Inv

LEMMA InvNext ==
    ASSUME Inv, ~SameMs, [Next]_vars PROVE Inv'
  <1>1. /\ TypeOK /\ UniqueInv /\ SentInv /\ ReceivedInv
        /\ TimeInv /\ FrontInv /\ CallsInv
        /\ RunsAgree /\ SenderOrder /\ WakeInv
    BY DEF Inv
  <1>2. TypeOK' /\ UniqueInv' /\ SentInv'
    BY <1>1, TypeNext, UniqueNext, SentNext
  <1>3. ReceivedInv' /\ TimeInv' /\ FrontInv'
    BY <1>1, ReceivedNext, TimeNext, FrontNext
  <1>4. CallsInv' /\ RunsAgree'
    BY <1>1, CallsNext, AgreeNext
  <1>5. SenderOrder' /\ WakeInv'
    BY <1>1, OrderNext, WakeNext
  <1> QED BY <1>2, <1>3, <1>4, <1>5 DEF Inv

LEMMA InvSentOnce ==
    ASSUME Inv PROVE SentOnce
  <1>1. SUFFICES ASSUME NEW s \in Senders, plan.kind[s] # "unkeyed", NEW k \in 1 .. MaxSends
                 PROVE  /\ Cardinality(Named(s, k)) <= 1
                        /\ k < pos[s] => Cardinality(Named(s, k)) = 1
    BY DEF SentOnce
  <1>2. CASE Named(s, k) = {}
    <2>1. ~(k < pos[s])
      BY <1>2 DEF Inv, SentInv
    <2> QED BY <1>2, <2>1, FS_EmptySet
  <1>3. CASE Named(s, k) # {}
    <2>1. PICK m \in Named(s, k) : TRUE
      BY <1>3
    <2>2. \A n \in Named(s, k) : n \in msgs /\ n.from = s /\ n.seq = k /\ n.copy = 0
      BY <1>1 DEF Named, Inv, SentInv
    <2>3. \A n \in Named(s, k) : n = m
      BY <2>1, <2>2 DEF Inv, UniqueInv, Identity
    <2>4. Named(s, k) = {m}
      BY <2>1, <2>3
    <2>5. Cardinality(Named(s, k)) = 1
      BY <2>4, FS_Singleton
    <2> QED BY <2>5
  <1> QED BY <1>2, <1>3

LEMMA InvReceivedOnce ==
    ASSUME Inv PROVE ReceivedOnce
  <1>1. SUFFICES ASSUME NEW m \in msgs
                 PROVE  Cardinality({k \in Steps : outputs[k] # Null /\ outputs[k].value = Identity(m)})
                            = IF m.consumed THEN 1 ELSE 0
    BY DEF ReceivedOnce
  <1> DEFINE S == {k \in Steps : outputs[k] # Null /\ outputs[k].value = Identity(m)}
  <1>2. Identity(m) # Null
    BY MessagingAssumption DEF Inv, TypeOK, Messages, Identity, Identities
  <1>3. \A k \in Steps : k \in S <=> Received(k) /\ outputs[k].value = Identity(m)
    BY <1>2 DEF Received, Recorded
  <1>4. CASE m.consumed
    <2>1. PICK k \in Steps : Received(k) /\ outputs[k].value = Identity(m)
      BY <1>4 DEF Inv, ReceivedInv
    <2>2. \A j \in S : j = k
      BY <1>3, <2>1 DEF Inv, ReceivedInv
    <2>3. S = {k}
      BY <1>3, <2>1, <2>2
    <2> QED BY <1>4, <2>3, FS_Singleton
  <1>5. CASE ~m.consumed
    <2>1. S = {}
      BY <1>3, <1>5 DEF Inv, ReceivedInv
    <2> QED BY <1>5, <2>1, FS_EmptySet
  <1> QED BY <1>4, <1>5

\* Messages are sent and received once (send, sendDirect and recv): whatever fails, a
\* send under a key or in a workflow that returned has one row in notifications, and
\* the rows consumed are those that one recv step each has recorded.
THEOREM MessagesOnce ==
    ASSUME ~SameMs PROVE Spec => []ExactlyOnce
  <1>1. Inv /\ [Next]_vars => Inv'
    BY InvNext
  <1>2. Inv => ExactlyOnce
    BY InvSentOnce, InvReceivedOnce DEF ExactlyOnce
  <1> QED BY InvInit, <1>1, <1>2, PTL DEF Spec

\* Every run of the receiving workflow is given by each recv what is recorded of it,
\* however many executors run the workflow, crash and recover it.
THEOREM RecvsAgree ==
    ASSUME ~SameMs PROVE Spec => []RunsAgree
  <1>1. Inv /\ [Next]_vars => Inv'
    BY InvNext
  <1>2. Inv => RunsAgree
    BY DEF Inv
  <1> QED BY InvInit, <1>1, <1>2, PTL DEF Spec

\* recv takes the messages of one sender in the order in which they were sent, the
\* oldest first, also when several runs of the workflow compete for them.
THEOREM OrderIsKept ==
    ASSUME ~SameMs PROVE Spec => []SenderOrder
  <1>1. Inv /\ [Next]_vars => Inv'
    BY InvNext
  <1>2. Inv => SenderOrder
    BY DEF Inv
  <1> QED BY InvInit, <1>1, <1>2, PTL DEF Spec

\* recv registers its callback before it reads the table, so that while its
\* connection is up a message that comes later calls it back.
THEOREM WakeUpsAreKept ==
    ASSUME ~SameMs PROVE Spec => []NoLostWakeup
  <1>1. Inv /\ [Next]_vars => Inv'
    BY InvNext
  <1>2. Inv => NoLostWakeup
    BY DEF Inv, WakeInv, Called, NoLostWakeup
  <1> QED BY InvInit, <1>1, <1>2, PTL DEF Spec
=============================================================================
