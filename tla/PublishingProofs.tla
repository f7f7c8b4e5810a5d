--------------------------- MODULE PublishingProofs ---------------------------
(***************************************************************************)
(* Theorems about module Publishing: what is published agrees with the     *)
(* checkpoints, what is read is complete and agreed on, and the limiter    *)
(* conserves its permits.  They hold for any program, runs, readers and    *)
(* number of faults; where runs must know their own checkpoints, as long   *)
(* as no two record a call in the same millisecond.                        *)
(***************************************************************************)
EXTENDS Publishing, FiniteSetTheorems, TLAPS

\* The provers tried, in turn, on a leaf that names none.  Zenon comes first: its
\* translation is deterministic, that to SMT now and then runs out of time.
USE ZenonT(5), SMT, Zenon, Z3, SMTT(6), Z3T(6)

RunPCs == {"absent", "down", "check", "max", "commit", "checkpoint", "error", "failed", "stopped", "done"}
RunType == [pc : RunPCs, i : Nat, max : Nat]

WriterTypes ==
    /\ recorded \subseteq Ids /\ stream \in Seq(Ids) /\ atEnd \in Nat
    /\ run \in [Runs -> RunType]

-----------------------------------------------------------------------------
(* What the steps do, as far as the tables are concerned.                  *)

\* A run has the checkpoints of all calls before its own, and is at a call that it
\* can make.
Sound(rr) ==
    /\ rr \in RunType
    /\ \A j \in Ids : j < rr.i => j \in recorded
    /\ rr.pc \in {"max", "commit", "checkpoint", "error"} => rr.i \in Ids
    /\ rr.pc = "max" => Program[rr.i] # "set"
    /\ rr.pc \in {"checkpoint", "error"} => Program[rr.i] = "step"

\* The calls are recorded in order.
LogInv ==
    /\ \A i \in recorded, j \in Ids : j < i => j \in recorded
    /\ \A r \in Runs : Sound(run[r])

RunMoves(r) ==
    /\ run' \in [Runs -> RunType] /\ \A x \in Runs \ {r} : run'[x] = run[x]
    /\ Sound(run[r])'

\* A run that goes on, ends or begins again.
Proceeds(r) == UNCHANGED <<tables, status, atEnd>> /\ RunMoves(r)

\* The writes of a call, which has no checkpoint yet unless it is a step's or two runs
\* record in the same millisecond.
Writes(r) ==
    /\ run[r].i \in Ids /\ (Op(r) = "step" \/ Owns(r))
    /\ Write(r) /\ UNCHANGED <<status, atEnd>> /\ RunMoves(r)

RecordsStep(r) ==
    /\ run[r].i \in Ids /\ Op(r) = "step" /\ recorded' = recorded \cup {run[r].i}
    /\ UNCHANGED <<event, history, stream, status, atEnd>> /\ RunMoves(r)

\* The workflow gets a final status, perhaps another one.
Settles ==
    /\ UNCHANGED tables /\ status' # "PENDING"
    /\ atEnd' = IF status = "PENDING" THEN Len(stream) ELSE atEnd
    /\ UNCHANGED run \/ \E r \in Runs : RunMoves(r)

WriterStep ==
    \/ \E r \in Runs : Proceeds(r) \/ Writes(r) \/ RecordsStep(r)
    \/ Settles
    \/ UNCHANGED <<tables, status, atEnd, run>>

\* Replacing a run, and what is sound for it.
LEMMA MoveRun ==
    ASSUME WriterTypes, NEW r \in Runs, NEW rr, run' = [run EXCEPT ![r] = rr], Sound(rr)'
    PROVE  RunMoves(r)
  <1>1. run'[r] = rr /\ rr \in RunType /\ \A x \in Runs \ {r} : run'[x] = run[x]
    BY DEF WriterTypes, Sound
  <1>2. run' \in [Runs -> RunType]
    BY <1>1 DEF WriterTypes
  <1>3. Sound(run[r])'
    BY <1>1 DEF Sound
  <1> QED BY <1>1, <1>2, <1>3 DEF RunMoves

LEMMA RunPlaces ==
    ASSUME NEW rr \in RunType
    PROVE  /\ \A pc \in RunPCs : LET n == [rr EXCEPT !.pc = pc]
                                 IN  n \in RunType /\ n.pc = pc /\ n.i = rr.i
           /\ LET n == [pc |-> "check", i |-> rr.i + 1, max |-> 0]
              IN  n \in RunType /\ n.pc = "check" /\ n.i = rr.i + 1
           /\ \A pc \in {"down", "check"} : Idle(pc) \in RunType /\ Idle(pc).pc = pc /\ Idle(pc).i = 1
  BY DEF RunType, RunPCs, Idle

LEMMA WriterSteps ==
    ASSUME WriterTypes, LogInv, [Next]_vars PROVE WriterStep
  <1>0. \A r \in Runs : run[r] \in RunType /\ Sound(run[r])
    BY DEF WriterTypes, LogInv
  \* The call stays, and none is recorded.
  <1>1. ASSUME NEW r \in Runs, NEW pc \in RunPCs, Goto(r, pc), UNCHANGED <<tables, status, atEnd>>,
               pc \in {"max", "commit", "checkpoint", "error"} => run[r].i \in Ids,
               pc = "max" => Op(r) # "set", pc \in {"checkpoint", "error"} => Op(r) = "step"
        PROVE  WriterStep
    <2>1. PICK rr : rr = [run[r] EXCEPT !.pc = pc]
      OBVIOUS
    <2>2. run' = [run EXCEPT ![r] = rr] /\ rr \in RunType /\ rr.pc = pc /\ rr.i = run[r].i
      BY <1>0, <1>1, <2>1, RunPlaces DEF Goto, WriterTypes
    <2>3. Sound(rr)'
      BY <1>0, <1>1, <2>2 DEF Sound, Op, tables
    <2> QED BY <1>1, <2>2, <2>3, MoveRun DEF Proceeds, WriterStep
  <1>2. ASSUME NEW r \in Runs, NEW pc \in {"down", "check"}, run' = [run EXCEPT ![r] = Idle(pc)],
               UNCHANGED <<tables, status, atEnd>>
        PROVE  WriterStep
    <2>1. Idle(pc) \in RunType /\ Idle(pc).pc = pc /\ Idle(pc).i = 1
      BY <1>0, RunPlaces
    <2>2. PICK rr : rr = Idle(pc)
      OBVIOUS
    <2>3. Sound(rr)'
      BY <1>2, <2>1, <2>2 DEF Sound, Ids
    <2> QED BY <1>2, <2>2, <2>3, MoveRun DEF Proceeds, WriterStep
  \* The next call, once the call is recorded.
  <1>3. ASSUME NEW r \in Runs, Advance(r), run[r].i \in recorded', recorded \subseteq recorded'
        PROVE  RunMoves(r)
    <2>1. PICK rr : rr = [pc |-> "check", i |-> run[r].i + 1, max |-> 0]
      OBVIOUS
    <2>2. run' = [run EXCEPT ![r] = rr] /\ rr \in RunType /\ rr.pc = "check" /\ rr.i = run[r].i + 1
      BY <1>0, <1>3, <2>1, RunPlaces DEF Advance
    <2>3. \A j \in Ids : j < rr.i => j < run[r].i \/ j = run[r].i
      BY <1>0, <2>2 DEF Ids, RunType
    <2>4. Sound(rr)'
      BY <1>0, <1>3, <2>2, <2>3 DEF Sound
    <2> QED BY <2>2, <2>4, MoveRun
  <1>4. ASSUME NEW r \in Runs, NEW pc \in {"check", "max", "checkpoint"}, Goto(r, pc), Write(r),
               run[r].i \in Ids, pc \in {"max", "checkpoint"} => Op(r) = "step"
        PROVE  RunMoves(r)
    <2>0. pc \in RunPCs
      BY DEF RunPCs
    <2>1. PICK rr : rr = [run[r] EXCEPT !.pc = pc]
      OBVIOUS
    <2>2. run' = [run EXCEPT ![r] = rr] /\ rr \in RunType /\ rr.pc = pc /\ rr.i = run[r].i
      <3>1. run' = [run EXCEPT ![r] = rr]
        BY <1>4, <2>1 DEF Goto
      <3>2. run[r] \in RunType
        BY <1>0 DEF WriterTypes
      <3> QED BY <2>0, <2>1, <3>1, <3>2 DEF RunType
    <2>3. recorded \subseteq recorded'
      BY <1>4 DEF Write
    <2>4. Sound(rr)'
      BY <1>0, <1>4, <2>2, <2>3 DEF Sound, Op
    <2> QED BY <2>2, <2>4, MoveRun
  <1>5. ASSUME NEW r \in Runs, CheckRecorded(r) PROVE WriterStep
    <2>1. UNCHANGED <<tables, status, atEnd>> /\ run[r].i \in Ids
      BY <1>5 DEF CheckRecorded
    <2>2. CASE run[r].i \in recorded /\ Advance(r)
      <3>1. RunMoves(r)
        BY <1>3, <2>1, <2>2 DEF tables
      <3> QED BY <2>1, <3>1 DEF Proceeds, WriterStep
    <2>3. CASE Goto(r, "stopped") \/ Goto(r, "failed")
      BY <1>1, <2>1, <2>3 DEF RunPCs
    <2>4. CASE Goto(r, IF Op(r) = "set" THEN "commit" ELSE "max")
      BY <1>1, <2>1, <2>4 DEF RunPCs
    <2> QED BY <1>5, <2>2, <2>3, <2>4 DEF CheckRecorded
  <1>6. ASSUME NEW r \in Runs, SelectMaxOffset(r) PROVE WriterStep
    <2>0. PICK n \in Nat : n = Len(stream)
      BY DEF WriterTypes
    <2>1. PICK rr : rr = [run[r] EXCEPT !.pc = "commit", !.max = n]
      OBVIOUS
    <2>2. /\ run' = [run EXCEPT ![r].pc = "commit", ![r].max = n]
          /\ run[r].pc = "max" /\ UNCHANGED <<tables, status, atEnd>>
      BY <1>6, <2>0 DEF SelectMaxOffset
    <2>3. rr \in RunType /\ rr.pc = "commit" /\ rr.i = run[r].i
      BY <1>0, <2>1 DEF RunType, RunPCs
    <2>4. run' = [run EXCEPT ![r] = rr]
      BY <2>1, <2>2 DEF WriterTypes
    <2>5. Sound(rr)'
      BY <1>0, <2>2, <2>3 DEF Sound, tables
    <2> QED BY <2>2, <2>4, <2>5, MoveRun DEF Proceeds, WriterStep
  <1>7. ASSUME NEW r \in Runs, Commit(r) PROVE WriterStep
    <2>1. /\ run[r].i \in Ids /\ (Op(r) = "step" \/ Owns(r))
          /\ Write(r) /\ UNCHANGED <<status, atEnd>>
      BY <1>0, <1>7 DEF Commit, Sound
    <2>2. CASE Op(r) = "step"
      <3>1. RunMoves(r)
        BY <1>4, <1>7, <2>1, <2>2 DEF Commit
      <3> QED BY <2>1, <3>1 DEF Writes, WriterStep
    <2>3. CASE Op(r) # "step"
      <3>1. recorded' = recorded \cup {run[r].i}
        BY <2>1, <2>3 DEF Write
      <3>2. RunMoves(r)
        BY <1>3, <1>7, <2>3, <3>1 DEF Commit
      <3> QED BY <2>1, <3>2 DEF Writes, WriterStep
    <2> QED BY <2>2, <2>3
  <1>8. ASSUME NEW r \in Runs, Retry(r) PROVE WriterStep
    <2>1. /\ run[r].i \in Ids /\ UNCHANGED <<status, atEnd>>
          /\ Goto(r, IF Op(r) = "step" THEN "max" ELSE "check")
      BY <1>0, <1>8 DEF Retry, Sound
    <2>2. CASE UNCHANGED tables
      <3>1. CASE Op(r) = "step"
        BY <1>1, <2>1, <2>2, <3>1 DEF RunPCs
      <3>2. CASE Op(r) # "step"
        BY <1>1, <2>1, <2>2, <3>2 DEF RunPCs
      <3> QED BY <3>1, <3>2
    <2>3. CASE (Op(r) = "step" \/ Owns(r)) /\ Write(r)
      <3>1. RunMoves(r)
        <4>1. CASE Op(r) = "step"
          BY <1>4, <2>1, <2>3, <4>1
        <4>2. CASE Op(r) # "step"
          BY <1>4, <2>1, <2>3, <4>2
        <4> QED BY <4>1, <4>2
      <3> QED BY <2>1, <2>3, <3>1 DEF Writes, WriterStep
    <2> QED BY <1>8, <2>2, <2>3 DEF Retry
  <1>9. ASSUME NEW r \in Runs, CommitConflict(r) \/ CommitFails(r) PROVE WriterStep
    <2>1. run[r].i \in Ids /\ UNCHANGED <<tables, status, atEnd>>
      BY <1>0, <1>9 DEF CommitConflict, CommitFails, Sound
    <2>2. CASE Op(r) = "step" /\ Goto(r, "error")
      BY <1>1, <2>1, <2>2 DEF RunPCs
    <2>3. CASE Goto(r, "stopped") \/ Goto(r, "failed")
      BY <1>1, <2>1, <2>3 DEF RunPCs
    <2> QED BY <1>9, <2>2, <2>3 DEF CommitConflict, CommitFails
  <1>10. ASSUME NEW r \in Runs, Checkpoint(r) PROVE WriterStep
    <2>1. /\ run[r].i \in Ids /\ Op(r) = "step" /\ UNCHANGED <<event, history, stream, status, atEnd>>
      BY <1>0, <1>10 DEF Checkpoint, Sound, Op
    <2>2. CASE Goto(r, "stopped") /\ UNCHANGED <<recorded, errors>>
      BY <1>1, <2>1, <2>2 DEF RunPCs, tables
    <2>3. CASE recorded' = recorded \cup {run[r].i} /\ Advance(r)
      BY <1>3, <2>1, <2>3 DEF RecordsStep, WriterStep
    <2>4. CASE recorded' = recorded \cup {run[r].i} /\ Goto(r, "failed")
      <3>1. PICK rr : rr = [run[r] EXCEPT !.pc = "failed"]
        OBVIOUS
      <3>2. run' = [run EXCEPT ![r] = rr] /\ rr \in RunType /\ rr.pc = "failed" /\ rr.i = run[r].i
        <4>1. run' = [run EXCEPT ![r] = rr]
          BY <2>4, <3>1 DEF Goto
        <4>2. rr \in RunType /\ rr.pc = "failed" /\ rr.i = run[r].i
          BY <1>0, <3>1 DEF RunType, RunPCs
        <4> QED BY <4>1, <4>2
      <3>3. Sound(rr)'
        BY <1>0, <2>4, <3>2 DEF Sound
      <3> QED BY <2>1, <2>4, <3>2, <3>3, MoveRun DEF RecordsStep, WriterStep
    <2> QED BY <1>10, <2>2, <2>3, <2>4 DEF Checkpoint
  <1>11. ASSUME NEW r \in Runs, Finish(r) PROVE WriterStep
    <2>1. CASE UNCHANGED <<status, atEnd>>
      BY <1>1, <1>11, <2>1 DEF Finish, RunPCs
    <2>2. CASE ~UNCHANGED <<status, atEnd>>
      <3>1. /\ status' # "PENDING" /\ atEnd' = IF status = "PENDING" THEN Len(stream) ELSE atEnd
            /\ UNCHANGED tables /\ Goto(r, "done")
        BY <1>11, <2>2 DEF Finish
      <3>2. PICK rr : rr = [run[r] EXCEPT !.pc = "done"]
        OBVIOUS
      <3>3. run' = [run EXCEPT ![r] = rr] /\ rr \in RunType /\ rr.pc = "done" /\ rr.i = run[r].i
        <4>1. run' = [run EXCEPT ![r] = rr]
          BY <3>1, <3>2 DEF Goto
        <4>2. rr \in RunType /\ rr.pc = "done" /\ rr.i = run[r].i
          BY <1>0, <3>2 DEF RunType, RunPCs
        <4> QED BY <4>1, <4>2
      <3>4. Sound(rr)'
        BY <1>0, <3>1, <3>3 DEF Sound, tables
      <3> QED BY <3>1, <3>3, <3>4, MoveRun DEF Settles, WriterStep
    <2> QED BY <2>1, <2>2
  <1>12. ASSUME NEW r \in Runs, Crash(r) \/ Recover(r) \/ Destroy(r) PROVE WriterStep
    BY <1>2, <1>12 DEF Crash, Recover, Destroy
  <1>13. CASE Cancel
    BY <1>13 DEF Cancel, Settles, WriterStep
  <1>14. ASSUME NEW r \in Runs, Flush(r) PROVE WriterStep
    BY <1>14 DEF Flush, WriterStep
  <1>15. ASSUME UNCHANGED writers PROVE WriterStep
    BY <1>15 DEF writers, tables, WriterStep
  <1>16. ASSUME NEW w \in Waiters, WaiterStep(w) PROVE UNCHANGED writers
    BY <1>16 DEF WaiterStep, GetEventCheck, Register, CheckIfCanceled, Poll, Query, PollFails,
        GetEventDecide, RecordGetEvent, ReadStreamDecide, WaitEnds
  <1> QED BY <1>5, <1>6, <1>7, <1>8, <1>9, <1>10, <1>11, <1>12, <1>13, <1>14, <1>15, <1>16
          DEF Next, RunStep, Expire, CancelCaller, vars

-----------------------------------------------------------------------------
(* What is published.                                                      *)

\* The entries of the calls that write to the stream: one each, in order.
StreamInv ==
    /\ \A i \in Ids : Program[i] \in {"write", "close"} =>
           (i \in recorded <=> \E o \in 1 .. Len(stream) : stream[o] = i)
    /\ \A o \in 1 .. Len(stream) : Program[stream[o]] # "set"
    /\ \A o, p \in 1 .. Len(stream) :
           o < p /\ Durable(stream[o]) /\ Durable(stream[p]) => stream[o] < stream[p]

EventInv ==
    /\ history = {i \in recorded : Program[i] = "set"}
    /\ \/ history = {} /\ event = 0
       \/ event \in history /\ \A j \in history : j <= event

\* What holds whether or not runs know their own checkpoints.
BaseInv == WriterTypes /\ LogInv /\ event \in Ids \cup {0}

PublishInv == BaseInv /\ StreamInv /\ EventInv

LEMMA IdsAreNatural == \A i \in Ids : i \in Nat /\ i # 0
  BY PublishingAssumption DEF Ids

LEMMA Appended ==
    ASSUME stream \in Seq(Ids), NEW i \in Ids, stream' = Append(stream, i)
    PROVE  /\ stream' \in Seq(Ids) /\ Len(stream') = Len(stream) + 1 /\ Len(stream) \in Nat
           /\ \A o \in 1 .. Len(stream) : stream'[o] = stream[o] /\ stream[o] \in Ids
           /\ stream'[Len(stream) + 1] = i
  OBVIOUS

LEMMA BaseNext ==
    ASSUME BaseInv, WriterStep PROVE BaseInv'
  <1> USE DEF BaseInv
  <1>0. /\ recorded \subseteq Ids /\ stream \in Seq(Ids) /\ atEnd \in Nat /\ run \in [Runs -> RunType]
        /\ Len(stream) \in Nat
    BY DEF WriterTypes
  \* The runs that do not move remain sound: checkpoints are only added.
  <1>1. ASSUME NEW r \in Runs, RunMoves(r), recorded \subseteq recorded'
        PROVE  run' \in [Runs -> RunType] /\ \A x \in Runs : Sound(run[x])'
    BY <1>1 DEF RunMoves, LogInv, Sound
  <1>2. ASSUME UNCHANGED tables, atEnd' \in Nat, UNCHANGED run \/ \E r \in Runs : RunMoves(r)
        PROVE  BaseInv'
    <2>1. run' \in [Runs -> RunType] /\ \A x \in Runs : Sound(run[x])'
      <3>1. CASE UNCHANGED run
        BY <1>0, <1>2, <3>1 DEF LogInv, Sound, tables
      <3> QED BY <1>1, <1>2, <3>1 DEF tables
    <2> QED BY <1>2, <2>1 DEF tables, WriterTypes, LogInv
  <1>3. ASSUME NEW r \in Runs, run[r].i \in Ids, recorded' = recorded \cup {run[r].i}, RunMoves(r)
        PROVE  LogInv' /\ recorded' \subseteq Ids
    <2>1. \A i \in recorded', j \in Ids : j < i => j \in recorded'
      BY <1>0, <1>3 DEF LogInv, Sound
    <2> QED BY <1>0, <1>1, <1>3, <2>1 DEF LogInv
  <1>4. ASSUME NEW r \in Runs, RecordsStep(r) PROVE BaseInv'
    <2>1. LogInv' /\ recorded' \subseteq Ids
      BY <1>3, <1>4 DEF RecordsStep
    <2> QED BY <1>4, <2>1 DEF RecordsStep, RunMoves, WriterTypes
  <1>5. ASSUME NEW r \in Runs, Writes(r) PROVE BaseInv'
    <2>1. PICK i \in Ids : i = run[r].i
      BY <1>5 DEF Writes
    <2>2. /\ recorded' = recorded \/ recorded' = recorded \cup {i}
          /\ stream' = stream \/ stream' = Append(stream, i)
          /\ event' = event \/ event' = i
          /\ UNCHANGED atEnd /\ RunMoves(r)
      BY <1>5, <2>1 DEF Writes, Write, SetEvent
    <2>3. LogInv' /\ recorded' \subseteq Ids
      <3>1. CASE recorded' = recorded
        BY <1>0, <1>1, <2>2, <3>1 DEF LogInv
      <3>2. CASE recorded' = recorded \cup {i}
        BY <1>3, <2>1, <2>2, <3>2
      <3> QED BY <2>2, <3>1, <3>2
    <2>4. stream' \in Seq(Ids)
      BY <1>0, <2>2, Appended
    <2> QED BY <1>0, <2>2, <2>3, <2>4 DEF WriterTypes, RunMoves
  <1>6. CASE Settles
    BY <1>0, <1>2, <1>6 DEF Settles
  <1>7. ASSUME NEW r \in Runs, Proceeds(r) PROVE BaseInv'
    BY <1>0, <1>2, <1>7 DEF Proceeds
  <1>8. CASE UNCHANGED <<tables, status, atEnd, run>>
    BY <1>0, <1>2, <1>8
  <1> QED BY <1>4, <1>5, <1>6, <1>7, <1>8 DEF WriterStep

LEMMA PublishNext ==
    ASSUME ~SameMs, PublishInv, WriterStep PROVE PublishInv'
  <1> USE DEF PublishInv
  <1>0. /\ recorded \subseteq Ids /\ stream \in Seq(Ids)
        /\ Len(stream) \in Nat /\ \A o \in 1 .. Len(stream) : stream[o] \in Ids
    BY DEF BaseInv, WriterTypes
  <1>1. BaseInv'
    BY BaseNext
  <1>2. CASE UNCHANGED tables
    BY <1>1, <1>2 DEF tables, StreamInv, EventInv
  \* A call becomes recorded, after all calls before it.
  <1>3. ASSUME NEW r \in Runs, run[r].i \in Ids, run[r].i \notin recorded
        PROVE  \A j \in recorded : j < run[r].i
    BY <1>0, <1>3, IdsAreNatural DEF BaseInv, LogInv
  <1>5. ASSUME NEW r \in Runs, RecordsStep(r) PROVE PublishInv'
    <2>3. StreamInv'
      BY <1>0, <1>5 DEF RecordsStep, StreamInv, Op
    <2>4. EventInv'
      BY <1>5 DEF RecordsStep, EventInv, Op
    <2> QED BY <1>1, <2>3, <2>4
  <1>6. ASSUME NEW r \in Runs, Writes(r) PROVE PublishInv'
    <2>1. PICK i \in Ids : i = run[r].i
      BY <1>6 DEF Writes
    <2>2. /\ Program[i] = "step" \/ i \notin recorded
          /\ recorded' = IF Program[i] = "step" THEN recorded ELSE recorded \cup {i}
          /\ IF Program[i] = "set" THEN SetEvent(i) /\ UNCHANGED stream
             ELSE stream' = Append(stream, i) /\ UNCHANGED <<event, history>>
      BY <1>6, <2>1 DEF Writes, Write, Op, Owns
    <2>3. Program[i] # "step" => \A j \in recorded : j < i
      BY <1>3, <2>1, <2>2
    <2>5. CASE Program[i] = "set"
      <3>1. StreamInv'
        BY <1>0, <2>2, <2>5 DEF StreamInv
      <3>2. event' = i /\ history' = history \cup {i}
        BY <2>2, <2>5 DEF SetEvent
      <3>3. \A j \in history : j \in recorded
        BY DEF EventInv
      <3>4. history' = {x \in recorded' : Program[x] = "set"}
        BY <2>2, <2>5, <3>2 DEF EventInv
      <3>5. event' \in history' /\ \A j \in history' : j <= event'
        BY <1>0, <2>3, <2>5, <3>2, <3>3, IdsAreNatural
      <3> QED BY <1>1, <3>1, <3>4, <3>5 DEF EventInv
    <2>6. CASE Program[i] # "set"
      <3>1. stream' = Append(stream, i) /\ UNCHANGED <<event, history>>
        BY <2>2, <2>6
      <3>2. EventInv'
        <4>1. {x \in recorded' : Program[x] = "set"} = {x \in recorded : Program[x] = "set"}
          BY <2>2, <2>6
        <4> QED BY <3>1, <4>1 DEF EventInv
      <3>3. PICK n \in Nat : n = Len(stream)
        BY <1>0
      <3>4. /\ stream' \in Seq(Ids) /\ Len(stream') = n + 1
            /\ \A o \in 1 .. n : stream'[o] = stream[o] /\ stream[o] \in Ids
            /\ stream'[n + 1] = i
        BY <1>0, <3>1, <3>3, Appended
      <3>5. \A x \in Ids : Program[x] \in {"write", "close"} =>
                (x \in recorded' <=> \E o \in 1 .. Len(stream') : stream'[o] = x)
        <4>1. SUFFICES ASSUME NEW x \in Ids, Program[x] \in {"write", "close"}
                       PROVE  x \in recorded' <=> \E o \in 1 .. n + 1 : stream'[o] = x
          BY <3>4
        <4>2. x \in recorded <=> \E o \in 1 .. n : stream[o] = x
          BY <3>3, <4>1 DEF StreamInv
        <4>3. (\E o \in 1 .. n + 1 : stream'[o] = x) <=> x = i \/ \E o \in 1 .. n : stream[o] = x
          BY <3>4
        <4>4. x \in recorded' <=> x = i \/ x \in recorded
          BY <2>2, <4>1
        <4> QED BY <4>2, <4>3, <4>4
      <3>6. \A o \in 1 .. Len(stream') : Program[stream'[o]] # "set"
        <4>1. SUFFICES ASSUME NEW o \in 1 .. n + 1 PROVE Program[stream'[o]] # "set"
          BY <3>4
        <4>2. o \in 1 .. n \/ o = n + 1
          BY <4>1
        <4> QED BY <2>6, <3>3, <3>4, <4>2 DEF StreamInv
      <3>7. \A o, p \in 1 .. Len(stream') :
                o < p /\ Durable(stream'[o]) /\ Durable(stream'[p]) => stream'[o] < stream'[p]
        <4>1. SUFFICES ASSUME NEW o \in 1 .. n + 1, NEW p \in 1 .. n + 1,
                              o < p, Durable(stream'[o]), Durable(stream'[p])
                       PROVE  stream'[o] < stream'[p]
          BY <3>4
        <4>2. o \in 1 .. n /\ (p \in 1 .. n \/ p = n + 1)
          BY <4>1
        <4>3. CASE p \in 1 .. n
          BY <3>3, <3>4, <4>1, <4>2, <4>3 DEF StreamInv
        <4>4. CASE p = n + 1
          <5>1. Program[i] # "step"
            BY <3>4, <4>1, <4>4 DEF Durable
          <5>2. Program[stream[o]] \in {"write", "close"}
            <6>1. stream[o] \in Ids /\ Program[stream[o]] \in {"set", "write", "close", "step"}
              BY <3>4, <4>2, PublishingAssumption DEF Ids
            <6>2. Program[stream[o]] # "set" /\ Program[stream[o]] # "step"
              BY <3>3, <3>4, <4>1, <4>2 DEF StreamInv, Durable
            <6> QED BY <6>1, <6>2
          <5>3. stream[o] \in recorded
            BY <3>3, <3>4, <4>2, <5>2 DEF StreamInv
          <5> QED BY <2>3, <3>4, <4>2, <4>4, <5>1, <5>3
        <4> QED BY <4>2, <4>3, <4>4
      <3>8. StreamInv'
        BY <3>5, <3>6, <3>7 DEF StreamInv
      <3> QED BY <1>1, <3>2, <3>8
    <2> QED BY <2>5, <2>6
  <1> QED BY <1>2, <1>5, <1>6 DEF WriterStep, Proceeds, Settles

LEMMA PublishInit == Init => PublishInv
  <1> SUFFICES ASSUME Init PROVE PublishInv
    OBVIOUS
  <1>1. /\ recorded = {} /\ event = 0 /\ history = {} /\ stream = <<>> /\ atEnd = 0
        /\ \E present \in Present :
               run = [r \in Runs |-> Idle(IF r \in present THEN "down" ELSE "absent")]
    BY DEF Init
  <1>2. \A pc \in RunPCs : Idle(pc) \in RunType /\ Idle(pc).pc = pc /\ Idle(pc).i = 1
    BY DEF Idle, RunType
  <1>3. \A r \in Runs : run[r] \in RunType /\ run[r].pc \in {"down", "absent"} /\ run[r].i = 1
    BY <1>1, <1>2 DEF RunPCs
  <1>4. run \in [Runs -> RunType]
    BY <1>1, <1>3
  <1>5. \A r \in Runs : Sound(run[r])
    BY <1>3, IdsAreNatural DEF Sound
  <1> HIDE DEF Init
  <1> QED BY <1>1, <1>4, <1>5 DEF PublishInv, BaseInv, WriterTypes, LogInv, StreamInv, EventInv

\* Whatever runs race, crash, retry and replay, as long as no two of them record a call in
\* the same millisecond, the stream has one entry for each recorded
\* write, in the order of the calls, and the event has the value of the last recorded
\* setEvent: what is published is what the checkpoints say.
THEOREM PublishedIsLogged == ASSUME ~SameMs PROVE Spec => []PublishedMatchesLog
  <1>1. PublishInv /\ [Next]_vars => PublishInv'
    BY WriterSteps, PublishNext DEF PublishInv, BaseInv
  <1>2. PublishInv => PublishedMatchesLog
    <2> SUFFICES ASSUME PublishInv PROVE PublishedMatchesLog
      OBVIOUS
    <2>0. DOMAIN stream = 1 .. Len(stream) /\ \A o \in 1 .. Len(stream) : stream[o] \in Ids
      BY DEF PublishInv, BaseInv, WriterTypes
    <2>1. ASSUME NEW i \in Ids, Program[i] \in {"write", "close"}
          PROVE  Cardinality({o \in DOMAIN stream : stream[o] = i}) = IF i \in recorded THEN 1 ELSE 0
      <3> DEFINE S == {o \in DOMAIN stream : stream[o] = i}
      <3>1. CASE i \in recorded
        <4>1. PICK o \in 1 .. Len(stream) : stream[o] = i
          BY <2>1, <3>1 DEF PublishInv, StreamInv
        <4>2. \A p \in S : p = o
          <5>1. SUFFICES ASSUME NEW p \in S, p # o PROVE FALSE
            OBVIOUS
          <5>2. p \in 1 .. Len(stream) /\ stream[p] = i /\ Durable(i) /\ i \in Nat
            BY <2>0, <2>1, <5>1, IdsAreNatural DEF Durable
          <5>3. o < p \/ p < o
            BY <5>1, <5>2
          <5> QED BY <4>1, <5>2, <5>3 DEF PublishInv, StreamInv
        <4>3. S = {o}
          BY <2>0, <4>1, <4>2
        <4> HIDE DEF S
        <4> QED BY <3>1, <4>3, FS_Singleton DEF S
      <3>2. CASE i \notin recorded
        <4>1. S = {}
          BY <2>0, <2>1, <3>2 DEF PublishInv, StreamInv
        <4> HIDE DEF S
        <4> QED BY <3>2, <4>1, FS_EmptySet DEF S
      <3> QED BY <3>1, <3>2
    <2>2. StreamMatchesLog
      BY <2>0, <2>1 DEF PublishInv, StreamInv, StreamMatchesLog
    <2>3. EventIsLatest
      <3>1. CASE history = {} /\ event = 0
        BY <3>1 DEF PublishInv, EventInv, EventIsLatest
      <3>2. CASE event \in history /\ \A j \in history : j <= event
        <4>1. \A i \in history : i \in Nat
          BY IdsAreNatural DEF PublishInv, BaseInv, EventInv, WriterTypes
        <4>2. ASSUME NEW i \in history, \A j \in history : j <= i PROVE i = event
          <5>1. event <= i /\ i <= event
            BY <3>2, <4>2
          <5> QED BY <3>2, <4>1, <5>1
        <4>3. event = CHOOSE i \in history : \A j \in history : j <= i
          BY <3>2, <4>2
        <4> QED BY <3>2, <4>3 DEF PublishInv, EventInv, EventIsLatest
      <3> QED BY <3>1, <3>2 DEF PublishInv, EventInv
    <2> QED BY <2>2, <2>3 DEF PublishedMatchesLog
  <1> QED BY PublishInit, <1>1, <1>2, PTL DEF Spec

-----------------------------------------------------------------------------
(* What the steps do, as far as the getters and the readers are concerned. *)

WaiterPCs ==
    {"absent", "start", "register", "checkQueued", "check", "poll", "queued", "query", "decide",
     "record", "wait", "done", "stopped"}
Statuses == {"PENDING", "SUCCESS", "ERROR", "CANCELLED"}
Values == 0 .. Len(Program)
WaiterType ==
    [pc : WaiterPCs, offset : Nat \ {0}, final : BOOLEAN, saw : Values,
     seen : Statuses \cup {Null}, woken : BOOLEAN]

WaiterTypes ==
    /\ waiter \in [Waiters -> WaiterType] /\ got \in Values \cup {Null}
    /\ available \in Nat /\ queue \in Seq(Waiters)

\* Those who queue for a permit are in the queue of the limiter, once.
QueueInv ==
    /\ \A k \in 1 .. Len(queue) : waiter[queue[k]].pc \in Queued
    /\ \A j, k \in 1 .. Len(queue) : queue[j] = queue[k] => j = k
    /\ \A w \in Waiters : waiter[w].pc \in Queued => \E k \in 1 .. Len(queue) : queue[k] = w

Kept(w) ==
    /\ waiter'[w].pc = waiter[w].pc /\ waiter'[w].offset = waiter[w].offset
    /\ waiter'[w].final = waiter[w].final
    /\ waiter'[w].saw = waiter[w].saw /\ waiter'[w].seen = waiter[w].seen

\* The call goes on; a reader drains the stream once it saw a final status.
GoesOn(w) ==
    /\ waiter'[w].pc \notin {"decide", "done"}
    /\ waiter'[w].final =>
           waiter[w].final \/ (waiter[w].pc = "decide" /\ waiter[w].seen # "PENDING")

HasRead(w) ==
    /\ waiter'[w].pc = "decide" /\ waiter'[w].seen = status
    /\ waiter'[w].final = waiter[w].final /\ waiter'[w].offset = waiter[w].offset
    /\ w \in Readers /\ waiter'[w].saw = 0 => waiter[w].offset > Len(stream)

ReaderEnds(w) ==
    /\ w \in Readers /\ waiter[w].pc = "decide" /\ waiter'[w].pc = "done"
    /\ waiter'[w].offset = waiter[w].offset /\ waiter'[w].final = waiter[w].final
    /\ waiter'[w].saw = waiter[w].saw
    /\ \/ waiter[w].saw # 0 /\ Program[waiter[w].saw] = "close"
       \/ waiter[w].saw = 0 /\ waiter[w].final

GetterEnds(w) ==
    /\ w \in Getters /\ waiter'[w].pc = "done"
    /\ SameMs \/ (waiter'[w].saw = got' /\ got' # Null)

Moves(w) == Kept(w) \/ GoesOn(w) \/ HasRead(w) \/ ReaderEnds(w) \/ GetterEnds(w)

\* What becomes of the permits.
SamePlace(w) == waiter'[w].pc = waiter[w].pc

NoPermit ==
    /\ UNCHANGED <<available, queue>>
    /\ \A w \in Waiters : /\ waiter'[w].pc \in Holding <=> waiter[w].pc \in Holding
                          /\ waiter'[w].pc \in Queued <=> waiter[w].pc \in Queued

TakesPermit(w) ==
    /\ waiter[w].pc \notin Holding \cup Queued /\ waiter'[w].pc \in Holding
    /\ \A x \in Waiters \ {w} : SamePlace(x)
    /\ available > 0 /\ available' = available - 1 /\ UNCHANGED queue

Queues(w) ==
    /\ waiter[w].pc \notin Holding \cup Queued /\ waiter'[w].pc \in Queued
    /\ \A x \in Waiters \ {w} : SamePlace(x)
    /\ available = 0 /\ UNCHANGED available /\ queue' = Append(queue, w)

FreesPermit(w) ==
    /\ waiter[w].pc \in Holding /\ waiter'[w].pc \notin Holding \cup Queued
    /\ \A x \in Waiters \ {w} : SamePlace(x)
    /\ queue = <<>> /\ available' = available + 1 /\ UNCHANGED queue

HandsPermit(w, h) ==
    /\ waiter[w].pc \in Holding /\ waiter'[w].pc \notin Holding \cup Queued
    /\ queue # <<>> /\ h = Head(queue) /\ waiter'[h].pc \in Holding
    /\ \A x \in Waiters \ {w, h} : SamePlace(x)
    /\ UNCHANGED available /\ queue' = Tail(queue)

LEMMA Places == Holding \cap Queued = {}
  BY DEF Holding, Queued

PermitStep ==
    \/ NoPermit
    \/ \E w \in Waiters : TakesPermit(w) \/ Queues(w) \/ FreesPermit(w)
    \/ \E w, h \in Waiters : HandsPermit(w, h)

ReaderStep ==
    /\ WaiterTypes' /\ PermitStep
    /\ got' = got \/ got = Null
    /\ \/ \A w \in Waiters : Kept(w)
       \/ UNCHANGED writers /\ \A w \in Waiters : Moves(w)

\* A waiter is replaced, and no permit is involved.
LEMMA MoveWaiter ==
    ASSUME WaiterTypes, NEW w \in Waiters, NEW n \in WaiterType, waiter' = [waiter EXCEPT ![w] = n]
    PROVE  /\ waiter' \in [Waiters -> WaiterType] /\ waiter'[w] = n
           /\ \A x \in Waiters \ {w} : waiter'[x] = waiter[x]
  BY DEF WaiterTypes

LEMMA Wakes ==
    ASSUME WaiterTypes, NEW channels, waiter' = Woken(channels), UNCHANGED <<got, available, queue>>
    PROVE  ReaderStep
  <1>1. \A w \in Waiters : waiter'[w] \in WaiterType /\ Kept(w)
    BY DEF Woken, WaiterTypes, WaiterType, Kept
  <1>2. waiter' \in [Waiters -> WaiterType]
    BY <1>1 DEF Woken
  <1>3. NoPermit
    BY <1>1 DEF NoPermit, Kept
  <1> QED BY <1>1, <1>2, <1>3 DEF ReaderStep, WaiterTypes, PermitStep

LEMMA Stays ==
    ASSUME WaiterTypes, UNCHANGED <<got, waiter, available, queue>>
    PROVE  ReaderStep
  BY DEF ReaderStep, WaiterTypes, PermitStep, NoPermit, Kept

\* A waiter that has read, or whose read has thrown, releases its permit.
LEMMA Releases ==
    ASSUME WaiterTypes, QueueInv, NEW w \in Waiters, NEW n \in WaiterType,
           waiter[w].pc \in Holding, n.pc \notin Holding \cup Queued,
           Release([waiter EXCEPT ![w] = n])
    PROVE  /\ waiter' \in [Waiters -> WaiterType] /\ available' \in Nat /\ queue' \in Seq(Waiters)
           /\ waiter'[w] = n /\ PermitStep
           /\ \A x \in Waiters \ {w} : Kept(x) \/ GoesOn(x)
  <1>1. PICK ws : ws = [waiter EXCEPT ![w] = n]
    OBVIOUS
  <1>2. ws \in [Waiters -> WaiterType] /\ ws[w] = n /\ \A x \in Waiters \ {w} : ws[x] = waiter[x]
    BY <1>1 DEF WaiterTypes
  <1>3. Release(ws)
    BY <1>1
  <1>4. CASE queue = <<>>
    <2>1. waiter' = ws /\ available' = available + 1 /\ queue' = queue
      BY <1>3, <1>4 DEF Release
    <2>2. FreesPermit(w)
      BY <1>2, <1>4, <2>1 DEF FreesPermit, SamePlace
    <2> QED BY <1>2, <2>1, <2>2 DEF PermitStep, Kept, WaiterTypes
  <1>5. CASE queue # <<>>
    <2>1. PICK h : h = Head(queue)
      OBVIOUS
    <2>2. h \in Waiters /\ waiter[h].pc \in Queued /\ h # w /\ Tail(queue) \in Seq(Waiters)
      <3>1. Len(queue) >= 1 /\ h = queue[1] /\ h \in Waiters /\ Tail(queue) \in Seq(Waiters)
        BY <1>5, <2>1 DEF WaiterTypes
      <3>2. waiter[queue[1]].pc \in Queued
        BY <3>1 DEF QueueInv, WaiterTypes
      <3> QED BY <3>1, <3>2, Places
    <2>3. PICK pc \in {"check", "query"} : pc = IF waiter[h].pc = "checkQueued" THEN "check" ELSE "query"
      OBVIOUS
    <2>4. waiter' = [ws EXCEPT ![h].pc = pc] /\ queue' = Tail(queue) /\ available' = available
      <3>1. ws[h].pc = waiter[h].pc
        BY <1>2, <2>2
      <3> QED BY <1>2, <1>3, <1>5, <2>1, <2>2, <2>3, <3>1 DEF Release
    <2>5. PICK hn : hn = [waiter[h] EXCEPT !.pc = pc]
      OBVIOUS
    <2>6. hn \in WaiterType /\ hn.pc = pc /\ hn.final = waiter[h].final
      BY <2>2, <2>5 DEF WaiterTypes, WaiterType, WaiterPCs
    <2>7. waiter' = [ws EXCEPT ![h] = hn]
      BY <1>2, <2>2, <2>4, <2>5
    <2>8. /\ waiter' \in [Waiters -> WaiterType] /\ waiter'[w] = n /\ waiter'[h] = hn
          /\ \A x \in Waiters \ {w, h} : waiter'[x] = waiter[x]
      BY <1>2, <2>2, <2>6, <2>7
    <2>9. HandsPermit(w, h)
      BY <1>5, <2>1, <2>2, <2>4, <2>6, <2>8 DEF HandsPermit, SamePlace, Holding
    <2>10. \A x \in Waiters \ {w} : Kept(x) \/ GoesOn(x)
      BY <2>6, <2>8 DEF Kept, GoesOn
    <2> QED BY <2>2, <2>4, <2>8, <2>9, <2>10 DEF PermitStep, WaiterTypes
  <1> QED BY <1>4, <1>5

\* A step of a waiter that neither takes nor releases a permit.
LEMMA Continues ==
    ASSUME WaiterTypes, NEW w \in Waiters, NEW n \in WaiterType, waiter' = [waiter EXCEPT ![w] = n],
           n.pc \in Holding <=> waiter[w].pc \in Holding, {n.pc, waiter[w].pc} \cap Queued = {},
           UNCHANGED <<available, queue>>
    PROVE  /\ waiter' \in [Waiters -> WaiterType] /\ available' \in Nat /\ queue' \in Seq(Waiters)
           /\ waiter'[w] = n /\ PermitStep
           /\ \A x \in Waiters \ {w} : Kept(x)
  <1>1. /\ waiter' \in [Waiters -> WaiterType] /\ waiter'[w] = n
        /\ \A x \in Waiters \ {w} : waiter'[x] = waiter[x]
    BY MoveWaiter
  <1>2. NoPermit
    BY <1>1 DEF NoPermit
  <1> QED BY <1>1, <1>2 DEF PermitStep, Kept, WaiterTypes

LEMMA ValuesAreIds == Values = Ids \cup {0} /\ 0 \in Values
  <1>1. Len(Program) \in Nat
    BY PublishingAssumption
  <1> QED BY <1>1 DEF Values, Ids

LEMMA ReaderSteps ==
    ASSUME BaseInv, status \in Statuses, WaiterTypes, QueueInv, [Next]_vars
    PROVE  ReaderStep
  <1>0. \A w \in Waiters : waiter[w] \in WaiterType
    BY DEF WaiterTypes
  \* It suffices to look at the waiter that moves.
  <1>1. ASSUME NEW w \in Waiters, UNCHANGED writers, got' = got \/ got = Null,
               got' \in Values \cup {Null}, Moves(w),
               waiter' \in [Waiters -> WaiterType], available' \in Nat, queue' \in Seq(Waiters),
               PermitStep, \A x \in Waiters \ {w} : Kept(x) \/ GoesOn(x)
        PROVE  ReaderStep
    <2>1. \A x \in Waiters : Moves(x)
      BY <1>1 DEF Moves
    <2> QED BY <1>1, <2>1 DEF ReaderStep, WaiterTypes
  <1>2. ASSUME NEW w \in Waiters, NEW pc \in {"start", "register", "wait"}
        PROVE  LET n == AtLoop(w, pc)
               IN  n \in WaiterType /\ n.pc = pc /\ n.final = waiter[w].final /\ n.offset = waiter[w].offset
    BY <1>0, ValuesAreIds DEF AtLoop, WaiterType, WaiterPCs
  <1>3. ASSUME NEW w \in Waiters, GetEventCheck(w) PROVE ReaderStep
    <2>1. /\ w \in Getters /\ waiter[w].pc = "start"
          /\ UNCHANGED <<writers, got, available, queue>>
      BY <1>3 DEF GetEventCheck
    <2>2. CASE cancelled
      <3>1. PICK n : n = [waiter[w] EXCEPT !.pc = "stopped"]
        OBVIOUS
      <3>2. n \in WaiterType /\ n.pc = "stopped" /\ n.final = waiter[w].final
        BY <1>0, <3>1 DEF WaiterType, WaiterPCs
      <3>3. waiter' = [waiter EXCEPT ![w] = n]
        BY <1>3, <2>2, <3>1 DEF GetEventCheck, WaiterTypes
      <3>4. /\ waiter' \in [Waiters -> WaiterType] /\ available' \in Nat /\ queue' \in Seq(Waiters)
            /\ waiter'[w] = n /\ PermitStep /\ \A x \in Waiters \ {w} : Kept(x)
        BY <2>1, <3>2, <3>3, Continues DEF Holding, Queued
      <3>5. Moves(w)
        BY <3>2, <3>4 DEF Moves, GoesOn
      <3> QED BY <1>1, <2>1, <3>4, <3>5 DEF WaiterTypes
    <2>3. CASE ~cancelled /\ got = Null
      <3>1. PICK n : n = AtLoop(w, "register")
        OBVIOUS
      <3>2. n \in WaiterType /\ n.pc = "register" /\ n.final = waiter[w].final
        BY <1>2, <3>1
      <3>3. waiter' = [waiter EXCEPT ![w] = n]
        BY <1>3, <2>3, <3>1 DEF GetEventCheck
      <3>4. /\ waiter' \in [Waiters -> WaiterType] /\ available' \in Nat /\ queue' \in Seq(Waiters)
            /\ waiter'[w] = n /\ PermitStep /\ \A x \in Waiters \ {w} : Kept(x)
        BY <2>1, <3>2, <3>3, Continues DEF Holding, Queued
      <3>5. Moves(w)
        BY <3>2, <3>4 DEF Moves, GoesOn
      <3> QED BY <1>1, <2>1, <3>4, <3>5 DEF WaiterTypes
    <2>4. CASE ~cancelled /\ got # Null
      <3>1. PICK n : n = [waiter[w] EXCEPT !.pc = "done", !.saw = got]
        OBVIOUS
      <3>2. n \in WaiterType /\ n.pc = "done" /\ n.saw = got
        BY <1>0, <2>4, <3>1 DEF WaiterType, WaiterPCs, WaiterTypes
      <3>3. waiter' = [waiter EXCEPT ![w] = n]
        BY <1>3, <2>4, <3>1 DEF GetEventCheck, WaiterTypes
      <3>4. /\ waiter' \in [Waiters -> WaiterType] /\ available' \in Nat /\ queue' \in Seq(Waiters)
            /\ waiter'[w] = n /\ PermitStep /\ \A x \in Waiters \ {w} : Kept(x)
        BY <2>1, <3>2, <3>3, Continues DEF Holding, Queued
      <3>5. Moves(w)
        BY <2>1, <2>4, <3>2, <3>4 DEF Moves, GetterEnds
      <3> QED BY <1>1, <2>1, <3>4, <3>5 DEF WaiterTypes
    <2> QED BY <2>3, <2>4, <2>2
  <1>4. ASSUME NEW w \in Waiters, NEW held \in {"check", "query"}, NEW queued \in Queued,
                waiter[w].pc \in {"register", "poll"}, UNCHANGED <<writers, got>>, Acquire(w, held, queued)
         PROVE  ReaderStep
    <2>1. waiter[w].pc \notin Holding \cup Queued /\ held \in Holding
      BY <1>4 DEF Holding, Queued
    <2>2. ASSUME NEW pc \in {held, queued}, waiter' = [waiter EXCEPT ![w].pc = pc]
          PROVE  /\ waiter' \in [Waiters -> WaiterType] /\ waiter'[w].pc = pc /\ Moves(w)
                 /\ \A x \in Waiters \ {w} : SamePlace(x) /\ Kept(x)
      <3>1. PICK n : n = [waiter[w] EXCEPT !.pc = pc]
        OBVIOUS
      <3>2. n \in WaiterType /\ n.pc = pc /\ n.final = waiter[w].final /\ pc \notin {"decide", "done"}
        BY <1>0, <1>4, <3>1 DEF WaiterType, WaiterPCs, Queued
      <3>3. /\ waiter' \in [Waiters -> WaiterType] /\ waiter'[w] = n
            /\ \A x \in Waiters \ {w} : waiter'[x] = waiter[x]
        BY <2>2, <3>1, <3>2, MoveWaiter DEF WaiterTypes
      <3> QED BY <3>2, <3>3 DEF Moves, GoesOn, SamePlace, Kept
    <2>3. CASE available > 0
      <3>1. /\ available' = available - 1 /\ UNCHANGED queue
            /\ waiter' = [waiter EXCEPT ![w].pc = held]
        BY <1>4, <2>3 DEF Acquire
      <3>2. TakesPermit(w) /\ available' \in Nat /\ queue' \in Seq(Waiters)
        BY <2>1, <2>2, <2>3, <3>1 DEF TakesPermit, WaiterTypes
      <3> QED BY <1>1, <1>4, <2>2, <3>1, <3>2 DEF PermitStep, WaiterTypes
    <2>4. CASE ~(available > 0)
      <3>1. /\ UNCHANGED available /\ queue' = Append(queue, w)
            /\ waiter' = [waiter EXCEPT ![w].pc = queued]
        BY <1>4, <2>4 DEF Acquire
      <3>2. Queues(w) /\ available' \in Nat /\ queue' \in Seq(Waiters)
        BY <2>1, <2>2, <2>4, <3>1 DEF Queues, WaiterTypes
      <3> QED BY <1>1, <1>4, <2>2, <3>1, <3>2 DEF PermitStep, WaiterTypes
    <2> QED BY <2>3, <2>4
  <1>5. ASSUME NEW w \in Waiters, Register(w) \/ Poll(w) PROVE ReaderStep
    <2>1. Acquire(w, "check", "checkQueued") \/ Acquire(w, "query", "queued")
      BY <1>5 DEF Register, Poll
    <2>2. waiter[w].pc \in {"register", "poll"} /\ UNCHANGED <<writers, got>>
      BY <1>5 DEF Register, Poll
    <2> QED BY <1>4, <2>1, <2>2 DEF Queued
  \* A waiter releases its permit and goes on.
  <1>6. ASSUME NEW w \in Waiters, NEW n \in WaiterType, waiter[w].pc \in Holding,
                n.pc \notin Holding \cup Queued \cup {"done"}, n.final = waiter[w].final,
                UNCHANGED <<writers, got>>, Release([waiter EXCEPT ![w] = n])
         PROVE  ReaderStep
    <2>1. /\ waiter' \in [Waiters -> WaiterType] /\ available' \in Nat /\ queue' \in Seq(Waiters)
          /\ waiter'[w] = n /\ PermitStep /\ \A x \in Waiters \ {w} : Kept(x) \/ GoesOn(x)
      BY <1>6, Releases
    <2>2. Moves(w)
      BY <1>6, <2>1 DEF Moves, GoesOn, Holding
    <2> QED BY <1>1, <1>6, <2>1, <2>2 DEF WaiterTypes
  <1>7. ASSUME NEW w \in Waiters, CheckIfCanceled(w) PROVE ReaderStep
    <2>1. PICK pc \in {"stopped", "poll"} : pc = IF cancelled THEN "stopped" ELSE "poll"
      OBVIOUS
    <2>2. /\ waiter[w].pc = "check" /\ UNCHANGED <<writers, got>>
          /\ Release([waiter EXCEPT ![w].pc = pc])
      BY <1>7, <2>1 DEF CheckIfCanceled
    <2>3. PICK n : n = [waiter[w] EXCEPT !.pc = pc]
      OBVIOUS
    <2>4. n \in WaiterType /\ n.pc = pc /\ n.final = waiter[w].final
      BY <1>0, <2>3 DEF WaiterType, WaiterPCs
    <2>5. [waiter EXCEPT ![w].pc = pc] = [waiter EXCEPT ![w] = n]
      BY <2>3 DEF WaiterTypes
    <2> QED BY <1>6, <2>2, <2>4, <2>5 DEF Holding, Queued
  <1>8. ASSUME NEW w \in Waiters, PollFails(w) PROVE ReaderStep
    <2>1. /\ waiter[w].pc \in {"check", "query"} /\ UNCHANGED <<writers, got>>
          /\ \E n \in AfterFailure(w) : Release([waiter EXCEPT ![w] = n])
      BY <1>8 DEF PollFails
    <2>2. PICK n \in AfterFailure(w) : Release([waiter EXCEPT ![w] = n])
      BY <2>1
    <2>3. n \in WaiterType /\ n.pc \in {"start", "poll", "stopped"} /\ n.final = waiter[w].final
      <3>1. \/ n = AtLoop(w, "start")
            \/ \E pc \in {"poll", "stopped"} : n = [waiter[w] EXCEPT !.pc = pc]
        BY DEF AfterFailure
      <3>2. CASE n = AtLoop(w, "start")
        BY <1>2, <3>2
      <3>3. ASSUME NEW pc \in {"poll", "stopped"}, n = [waiter[w] EXCEPT !.pc = pc]
            PROVE  n \in WaiterType /\ n.pc = pc /\ n.final = waiter[w].final
        BY <1>0, <3>3 DEF WaiterType, WaiterPCs
      <3> QED BY <3>1, <3>2, <3>3
    <2> QED BY <1>6, <2>1, <2>2, <2>3 DEF Holding, Queued
  <1>9. ASSUME NEW w \in Waiters, Query(w) PROVE ReaderStep
    <2>1. PICK v : v = IF w \in Getters THEN event
                       ELSE IF waiter[w].offset <= Len(stream) THEN stream[waiter[w].offset] ELSE 0
      OBVIOUS
    <2>2. event \in Values
      BY ValuesAreIds DEF BaseInv
    <2>3. v \in Values /\ (w \notin Getters /\ v = 0 => waiter[w].offset > Len(stream))
      <3>1. PICK o \in Nat \ {0} : o = waiter[w].offset
        BY <1>0 DEF WaiterType
      <3>2. o <= Len(stream) => stream[o] \in Values \ {0}
        BY PublishingAssumption DEF BaseInv, WriterTypes, Ids, Values
      <3>3. Len(stream) \in Nat /\ 0 \in Values
        BY PublishingAssumption DEF BaseInv, WriterTypes, Values
      <3> QED BY <2>1, <2>2, <3>1, <3>2, <3>3
    <2>4. /\ waiter[w].pc = "query" /\ UNCHANGED <<writers, got, available, queue>>
          /\ waiter' = [waiter EXCEPT ![w].pc = "decide", ![w].seen = status, ![w].saw = v]
      BY <1>9, <2>1 DEF Query
    <2>5. PICK n : n = [waiter[w] EXCEPT !.pc = "decide", !.seen = status, !.saw = v]
      OBVIOUS
    <2>6. /\ n \in WaiterType /\ n.pc = "decide" /\ n.seen = status /\ n.saw = v
          /\ n.offset = waiter[w].offset /\ n.final = waiter[w].final
      BY <1>0, <2>3, <2>5 DEF WaiterType, WaiterPCs
    <2>7. waiter' = [waiter EXCEPT ![w] = n]
      BY <2>4, <2>5 DEF WaiterTypes
    <2>8. /\ waiter' \in [Waiters -> WaiterType] /\ available' \in Nat /\ queue' \in Seq(Waiters)
          /\ waiter'[w] = n /\ PermitStep /\ \A x \in Waiters \ {w} : Kept(x)
      <3>1. (n.pc \in Holding <=> waiter[w].pc \in Holding) /\ {n.pc, waiter[w].pc} \cap Queued = {}
        BY <2>4, <2>6 DEF Holding, Queued
      <3> QED BY <2>4, <2>6, <2>7, <3>1, Continues
    <2>9. w \in Readers => w \notin Getters
      BY PublishingAssumption
    <2>10. Moves(w)
      BY <2>3, <2>6, <2>8, <2>9 DEF Moves, HasRead
    <2> QED BY <1>1, <2>4, <2>8, <2>10 DEF WaiterTypes
  <1>10. ASSUME NEW w \in Waiters, GetEventDecide(w) PROVE ReaderStep
    <2>1. PICK pc \in {"record", "wait"} :
              pc = IF waiter[w].saw # 0 \/ expired THEN "record" ELSE "wait"
      OBVIOUS
    <2>2. /\ waiter[w].pc = "decide" /\ UNCHANGED <<writers, got>>
          /\ Release([waiter EXCEPT ![w].pc = pc])
      BY <1>10, <2>1 DEF GetEventDecide
    <2>3. PICK n : n = [waiter[w] EXCEPT !.pc = pc]
      OBVIOUS
    <2>4. n \in WaiterType /\ n.pc = pc /\ n.final = waiter[w].final
      BY <1>0, <2>3 DEF WaiterType, WaiterPCs
    <2>5. [waiter EXCEPT ![w].pc = pc] = [waiter EXCEPT ![w] = n]
      BY <2>3 DEF WaiterTypes
    <2> QED BY <1>6, <2>2, <2>4, <2>5 DEF Holding, Queued
  <1>11. ASSUME NEW w \in Waiters, RecordGetEvent(w) PROVE ReaderStep
    <2>1. PICK pc \in {"done", "stopped"} : pc = IF got = Null \/ SameMs THEN "done" ELSE "stopped"
      OBVIOUS
    <2>2. /\ w \in Getters /\ waiter[w].pc = "record" /\ UNCHANGED <<writers, available, queue>>
          /\ waiter' = [waiter EXCEPT ![w].pc = pc]
          /\ got' = IF got = Null THEN waiter[w].saw ELSE got
      BY <1>11, <2>1 DEF RecordGetEvent
    <2>3. PICK n : n = [waiter[w] EXCEPT !.pc = pc]
      OBVIOUS
    <2>4. /\ n \in WaiterType /\ n.pc = pc /\ n.final = waiter[w].final /\ n.saw = waiter[w].saw
          /\ waiter[w].saw \in Values
      BY <1>0, <2>3 DEF WaiterType, WaiterPCs
    <2>5. waiter' = [waiter EXCEPT ![w] = n]
      BY <2>2, <2>3 DEF WaiterTypes
    <2>6. /\ waiter' \in [Waiters -> WaiterType] /\ available' \in Nat /\ queue' \in Seq(Waiters)
          /\ waiter'[w] = n /\ PermitStep /\ \A x \in Waiters \ {w} : Kept(x)
      BY <2>2, <2>4, <2>5, Continues, ZenonT(30) DEF Holding, Queued
    <2>7. Null \notin Values
      BY PublishingAssumption DEF Values
    <2>8. Moves(w)
      BY <2>1, <2>2, <2>4, <2>6, <2>7 DEF Moves, GoesOn, GetterEnds
    <2> QED BY <1>1, <2>2, <2>4, <2>6, <2>8 DEF WaiterTypes
  <1>12. ASSUME NEW w \in Waiters, ReadStreamDecide(w) PROVE ReaderStep
    <2>1. /\ w \in Readers /\ waiter[w].pc = "decide" /\ UNCHANGED <<writers, got>>
          /\ Release([waiter EXCEPT ![w] = AfterRead(w)])
      BY <1>12 DEF ReadStreamDecide
    <2>2. PICK n : n = AfterRead(w)
      OBVIOUS
    <2>3. PICK l : l = AtLoop(w, "register")
      OBVIOUS
    <2>4. l \in WaiterType /\ l.pc = "register" /\ l.final = waiter[w].final /\ l.offset = waiter[w].offset
      BY <1>2, <2>3
    <2>5. PICK d : d = [waiter[w] EXCEPT !.pc = "done"]
      OBVIOUS
    <2>6. PICK e : e = [waiter[w] EXCEPT !.pc = "wait"]
      OBVIOUS
    <2>7. /\ d \in WaiterType /\ d.pc = "done" /\ d.offset = waiter[w].offset
          /\ d.final = waiter[w].final /\ d.saw = waiter[w].saw
          /\ e \in WaiterType /\ e.pc = "wait" /\ e.final = waiter[w].final
      BY <1>0, <2>5, <2>6 DEF WaiterType, WaiterPCs
    <2>8. PICK a : a = [l EXCEPT !.offset = @ + 1]
      OBVIOUS
    <2>9. PICK f : f = [l EXCEPT !.final = TRUE]
      OBVIOUS
    <2>10. /\ a \in WaiterType /\ a.pc = "register" /\ a.final = waiter[w].final
           /\ f \in WaiterType /\ f.pc = "register"
      <3>1. a \in WaiterType /\ a.pc = l.pc /\ a.final = l.final
        <4>1. l.offset \in Nat \ {0} /\ l.offset + 1 \in Nat \ {0}
          BY <2>4 DEF WaiterType
        <4> QED BY <2>4, <2>8, <4>1 DEF WaiterType
      <3>2. f \in WaiterType /\ f.pc = l.pc
        BY <2>4, <2>9 DEF WaiterType
      <3> QED BY <2>4, <3>1, <3>2
    <2>11. \/ n = d /\ waiter[w].saw # 0 /\ Program[waiter[w].saw] = "close"
           \/ n = a \/ n = e
           \/ n = d /\ waiter[w].saw = 0 /\ waiter[w].final
           \/ n = f /\ waiter[w].seen # "PENDING"
      BY <2>2, <2>3, <2>5, <2>6, <2>8, <2>9 DEF AfterRead
    <2>12. n \in WaiterType /\ n.pc \notin Holding \cup Queued /\ "decide" \in Holding
      BY <2>7, <2>10, <2>11 DEF Holding, Queued
    <2>13. /\ waiter' \in [Waiters -> WaiterType] /\ available' \in Nat /\ queue' \in Seq(Waiters)
           /\ waiter'[w] = n /\ PermitStep /\ \A x \in Waiters \ {w} : Kept(x) \/ GoesOn(x)
      BY <2>1, <2>2, <2>12, Releases
    <2>14. GoesOn(w) \/ ReaderEnds(w)
      BY <2>1, <2>7, <2>10, <2>11, <2>13 DEF GoesOn, ReaderEnds
    <2> QED BY <1>1, <2>1, <2>13, <2>14 DEF WaiterTypes, Moves
  <1>13. ASSUME NEW w \in Waiters, WaitEnds(w) PROVE ReaderStep
    <2>1. PICK n : n = AtLoop(w, "register")
      OBVIOUS
    <2>2. n \in WaiterType /\ n.pc = "register" /\ n.final = waiter[w].final
      BY <1>2, <2>1
    <2>3. /\ waiter' = [waiter EXCEPT ![w] = n] /\ waiter[w].pc = "wait"
          /\ UNCHANGED <<writers, got, available, queue>>
      BY <1>13, <2>1 DEF WaitEnds
    <2>4. /\ waiter' \in [Waiters -> WaiterType] /\ available' \in Nat /\ queue' \in Seq(Waiters)
          /\ waiter'[w] = n /\ PermitStep /\ \A x \in Waiters \ {w} : Kept(x)
      BY <2>2, <2>3, Continues DEF Holding, Queued
    <2>5. Moves(w)
      BY <2>2, <2>4 DEF Moves, GoesOn
    <2> QED BY <1>1, <2>3, <2>4, <2>5 DEF WaiterTypes
  <1>14. ASSUME NEW r \in Runs, RunStep(r) \/ Retry(r) \/ Crash(r) PROVE ReaderStep
    <2>1. UNCHANGED <<got, waiter, available, queue>>
      BY <1>14 DEF RunStep, Retry, Crash, CheckRecorded, SelectMaxOffset, Commit, CommitConflict,
                   CommitFails, Checkpoint, Finish, Recover, readers
    <2> QED BY <2>1, Stays
  <1>15. ASSUME NEW r \in Runs, Destroy(r) PROVE ReaderStep
    BY <1>15, Wakes DEF Destroy
  <1>16. ASSUME NEW r \in Runs, Flush(r) PROVE ReaderStep
    BY <1>16, Wakes DEF Flush
  <1>17. CASE Cancel \/ Expire \/ CancelCaller \/ UNCHANGED vars
    <2>1. UNCHANGED <<got, waiter, available, queue>>
      BY <1>17 DEF Cancel, Expire, CancelCaller, vars, readers
    <2> QED BY <2>1, Stays
  <1> QED BY <1>3, <1>5, <1>9, <1>10, <1>11, <1>12, <1>13, <1>14, <1>15, <1>16, <1>17, <1>7, <1>8
          DEF Next, WaiterStep

-----------------------------------------------------------------------------
(* The limiter.                                                            *)

Holders == {w \in Waiters : waiter[w].pc \in Holding}

PermitInv == QueueInv /\ Cardinality(Holders) + available = Limit /\ (queue # <<>> => available = 0)

LEMMA HoldersAreFinite == IsFiniteSet(Holders) /\ Cardinality(Holders) \in Nat
  <1>1. IsFiniteSet(Waiters)
    BY PublishingAssumption, FS_Union DEF Waiters
  <1>2. Holders \subseteq Waiters
    BY DEF Holders
  <1> QED BY <1>1, <1>2, FS_Subset, FS_CardinalityType

LEMMA PermitNext ==
    ASSUME WaiterTypes, WaiterTypes', PermitInv, PermitStep PROVE PermitInv'
  <1>0. /\ IsFiniteSet(Holders) /\ Cardinality(Holders) \in Nat /\ available \in Nat /\ Limit \in Nat
        /\ queue \in Seq(Waiters) /\ Len(queue) \in Nat /\ \A k \in 1 .. Len(queue) : queue[k] \in Waiters
    BY HoldersAreFinite, PublishingAssumption DEF WaiterTypes
  <1>1. CASE NoPermit
    <2>1. Holders' = Holders
      BY <1>1 DEF NoPermit, Holders
    <2>2. QueueInv'
      BY <1>0, <1>1 DEF NoPermit, PermitInv, QueueInv
    <2> QED BY <1>1, <2>1, <2>2 DEF NoPermit, PermitInv
  <1>2. ASSUME NEW w \in Waiters, TakesPermit(w) PROVE PermitInv'
    <2>1. Holders' = Holders \cup {w} /\ w \notin Holders
      BY <1>2 DEF TakesPermit, SamePlace, Holders
    <2>2. Cardinality(Holders') = Cardinality(Holders) + 1
      BY <1>0, <2>1, FS_AddElement
    <2>3. QueueInv'
      BY <1>0, <1>2, Places DEF TakesPermit, SamePlace, PermitInv, QueueInv
    <2>4. available' = available - 1 /\ queue' = queue /\ available > 0
      BY <1>2 DEF TakesPermit
    <2> QED BY <1>0, <2>2, <2>3, <2>4 DEF PermitInv
  <1>3. ASSUME NEW w \in Waiters, Queues(w) PROVE PermitInv'
    <2>1. Holders' = Holders
      BY <1>3, Places DEF Queues, SamePlace, Holders
    <2>2. PICK n \in Nat : n = Len(queue)
      BY <1>0
    <2>3. /\ queue' = Append(queue, w) /\ Len(queue') = n + 1 /\ queue'[n + 1] = w
          /\ \A k \in 1 .. n : queue'[k] = queue[k] /\ queue[k] \in Waiters
      BY <1>0, <1>3, <2>2 DEF Queues
    <2>4. \A k \in 1 .. n : waiter[queue[k]].pc \in Queued /\ queue[k] # w
      BY <1>3, <2>2 DEF PermitInv, QueueInv, Queues
    <2>5. \A k \in 1 .. n + 1 : waiter'[queue'[k]].pc \in Queued
      <3>1. SUFFICES ASSUME NEW k \in 1 .. n + 1 PROVE waiter'[queue'[k]].pc \in Queued
        OBVIOUS
      <3>2. k \in 1 .. n \/ k = n + 1
        BY <3>1
      <3> QED BY <1>3, <2>3, <2>4, <3>2 DEF Queues, SamePlace
    <2>6. ASSUME NEW j \in 1 .. n + 1, NEW k \in 1 .. n + 1, queue'[j] = queue'[k] PROVE j = k
      <3>1. (j \in 1 .. n \/ j = n + 1) /\ (k \in 1 .. n \/ k = n + 1)
        BY <2>6
      <3>2. j \in 1 .. n /\ k \in 1 .. n => j = k
        BY <2>2, <2>3, <2>6 DEF PermitInv, QueueInv
      <3> QED BY <2>3, <2>4, <2>6, <3>1, <3>2
    <2>7. ASSUME NEW x \in Waiters, waiter'[x].pc \in Queued
          PROVE  \E k \in 1 .. n + 1 : queue'[k] = x
      <3>1. CASE x = w
        BY <2>3, <3>1
      <3>2. CASE x # w
        <4>1. PICK k \in 1 .. n : queue[k] = x
          BY <1>3, <2>2, <2>7, <3>2 DEF Queues, SamePlace, PermitInv, QueueInv
        <4> QED BY <2>3, <4>1
      <3> QED BY <3>1, <3>2
    <2>8. QueueInv'
      BY <2>3, <2>5, <2>6, <2>7 DEF QueueInv
    <2> QED BY <1>3, <2>1, <2>8 DEF PermitInv, Queues
  <1>4. ASSUME NEW w \in Waiters, FreesPermit(w) PROVE PermitInv'
    <2>1. Holders' = Holders \ {w} /\ w \in Holders
      BY <1>4 DEF FreesPermit, SamePlace, Holders
    <2>2. Cardinality(Holders') = Cardinality(Holders) - 1
      BY <1>0, <2>1, FS_RemoveElement
    <2>3. available' = available + 1 /\ queue' = <<>>
      BY <1>4 DEF FreesPermit
    <2>4. \A x \in Waiters : waiter'[x].pc \notin Queued
      <3>1. \A x \in Waiters : waiter[x].pc \notin Queued
        BY <1>0, <1>4 DEF FreesPermit, PermitInv, QueueInv
      <3> QED BY <1>4, <3>1 DEF FreesPermit, SamePlace
    <2>5. QueueInv'
      BY <2>3, <2>4 DEF QueueInv
    <2> QED BY <1>0, <2>2, <2>3, <2>5 DEF PermitInv
  <1>5. ASSUME NEW w \in Waiters, NEW h \in Waiters, HandsPermit(w, h) PROVE PermitInv'
    <2>1. PICK n \in Nat : n + 1 = Len(queue)
      BY <1>0, <1>5 DEF HandsPermit
    <2>2. /\ h = queue[1] /\ waiter[h].pc \in Queued /\ h # w
      <3>1. h = queue[1] /\ 1 \in 1 .. Len(queue)
        BY <1>0, <1>5, <2>1 DEF HandsPermit
      <3>2. waiter[h].pc \in Queued
        BY <3>1 DEF PermitInv, QueueInv
      <3> QED BY <1>5, <3>1, <3>2, Places DEF HandsPermit
    <2>3. Len(queue') = n /\ \A k \in 1 .. n : queue'[k] = queue[k + 1] /\ k + 1 \in 1 .. n + 1
      BY <1>0, <1>5, <2>1 DEF HandsPermit
    <2>4. ASSUME NEW k \in 1 .. n PROVE waiter'[queue'[k]].pc \in Queued
      <3>1. queue'[k] = queue[k + 1] /\ k + 1 \in 1 .. Len(queue) /\ 1 \in 1 .. Len(queue) /\ k + 1 # 1
        BY <2>1, <2>3
      <3>2. queue[k + 1] # h /\ queue[k + 1] \in Waiters /\ waiter[queue[k + 1]].pc \in Queued
        BY <1>0, <2>2, <3>1 DEF PermitInv, QueueInv
      <3>3. queue[k + 1] # w
        BY <1>5, <3>2, Places DEF HandsPermit
      <3> QED BY <1>5, <3>1, <3>2, <3>3 DEF HandsPermit, SamePlace
    <2>5. ASSUME NEW j \in 1 .. n, NEW k \in 1 .. n, queue'[j] = queue'[k] PROVE j = k
      <3>1. queue[j + 1] = queue[k + 1] /\ j + 1 \in 1 .. Len(queue) /\ k + 1 \in 1 .. Len(queue)
        BY <2>1, <2>3, <2>5
      <3>2. j + 1 = k + 1
        BY <3>1 DEF PermitInv, QueueInv
      <3> QED BY <3>2
    <2>6. QueueInv'
      <3>1. ASSUME NEW x \in Waiters, waiter'[x].pc \in Queued PROVE \E k \in 1 .. n : queue'[k] = x
        <4>1. x # h /\ waiter[x].pc \in Queued
          BY <1>5, <3>1, Places DEF HandsPermit, SamePlace
        <4>2. PICK k \in 1 .. n + 1 : queue[k] = x
          BY <2>1, <4>1 DEF PermitInv, QueueInv
        <4>3. PICK j \in 1 .. n : k = j + 1
          BY <2>2, <4>1, <4>2
        <4> QED BY <2>3, <4>2, <4>3
      <3> QED BY <2>3, <2>4, <2>5, <3>1 DEF QueueInv
    <2>7. PICK S : S = Holders \ {w}
      OBVIOUS
    <2>8. w \in Holders /\ h \notin S /\ Holders' = S \cup {h}
      BY <1>5, <2>2, <2>7, Places DEF HandsPermit, SamePlace, Holders
    <2>9. IsFiniteSet(S) /\ Cardinality(S) = Cardinality(Holders) - 1
      BY <1>0, <2>7, <2>8, FS_RemoveElement
    <2>10. Cardinality(Holders') = Cardinality(Holders)
      <3>1. Cardinality(S \cup {h}) = Cardinality(S) + 1
        BY <2>8, <2>9, FS_AddElement
      <3> QED BY <1>0, <2>8, <2>9, <3>1
    <2>11. available' = available /\ queue # <<>>
      BY <1>5 DEF HandsPermit
    <2> QED BY <2>6, <2>10, <2>11 DEF PermitInv
  <1> QED BY <1>1, <1>2, <1>3, <1>4, <1>5 DEF PermitStep

-----------------------------------------------------------------------------
(* What is read.                                                           *)

\* A getter that has returned has the recorded answer.
GetInv == \A g \in Getters : waiter[g].pc = "done" => waiter[g].saw = got /\ got # Null

\* A reader that finds nothing after the workflow has ended is past the end.
Reads(w) ==
    /\ waiter[w].final => status # "PENDING"
    /\ waiter[w].pc = "decide" =>
           /\ waiter[w].seen # "PENDING" => status # "PENDING"
           /\ waiter[w].saw = 0 /\ (waiter[w].final \/ waiter[w].seen # "PENDING") =>
                  waiter[w].offset > atEnd
    /\ waiter[w].pc = "done" =>
           \/ waiter[w].saw # 0 /\ Program[waiter[w].saw] = "close"
           \/ status # "PENDING" /\ waiter[w].offset > atEnd

ReadInv == (status # "PENDING" => atEnd <= Len(stream)) /\ \A w \in Readers : Reads(w)

LEMMA GetNext ==
    ASSUME ~SameMs, WaiterTypes, GetInv, ReaderStep PROVE GetInv'
  <1>1. SUFFICES ASSUME NEW g \in Getters, waiter'[g].pc = "done"
                 PROVE  waiter'[g].saw = got' /\ got' # Null
    BY DEF GetInv
  <1>2. g \in Waiters /\ g \notin Readers
    BY PublishingAssumption DEF Waiters
  <1>3. Kept(g) \/ GetterEnds(g)
    BY <1>1, <1>2 DEF ReaderStep, Moves, GoesOn, HasRead, ReaderEnds
  <1> QED BY <1>1, <1>3 DEF GetInv, Kept, GetterEnds, ReaderStep

\* The final status stays, and so does the length of the stream at that time.
LEMMA EndStays ==
    ASSUME WriterTypes, WriterStep
    PROVE  /\ Len(stream) \in Nat /\ Len(stream') \in Nat /\ Len(stream') >= Len(stream)
           /\ \/ status' = status /\ atEnd' = atEnd
              \/ status # "PENDING" /\ status' # "PENDING" /\ atEnd' = atEnd
              \/ status = "PENDING" /\ status' # "PENDING" /\ atEnd' = Len(stream) /\ stream' = stream
  <1>0. stream \in Seq(Ids) /\ Len(stream) \in Nat
    BY DEF WriterTypes
  <1>1. ASSUME NEW r \in Runs, Writes(r)
        PROVE  stream' = stream \/ \E i \in Ids : stream' = Append(stream, i)
    BY <1>1 DEF Writes, Write
  <1>2. ASSUME NEW i \in Ids, stream' = Append(stream, i) PROVE Len(stream') = Len(stream) + 1
    BY <1>0, <1>2
  <1> QED BY <1>0, <1>1, <1>2 DEF WriterStep, Proceeds, Writes, RecordsStep, Settles, tables

LEMMA ReadNext ==
    ASSUME WriterTypes, WriterTypes', WaiterTypes, ReadInv, WriterStep, ReaderStep
    PROVE  ReadInv'
  <1>0. /\ Len(stream) \in Nat /\ Len(stream') \in Nat /\ Len(stream') >= Len(stream)
        /\ \/ status' = status /\ atEnd' = atEnd
           \/ status # "PENDING" /\ status' # "PENDING" /\ atEnd' = atEnd
           \/ status = "PENDING" /\ status' # "PENDING" /\ atEnd' = Len(stream) /\ stream' = stream
        /\ atEnd \in Nat /\ atEnd' \in Nat
    BY EndStays DEF WriterTypes
  <1>1. status' # "PENDING" => atEnd' <= Len(stream')
    BY <1>0 DEF ReadInv
  <1>2. ASSUME NEW w \in Readers PROVE Reads(w)'
    <2>0. Reads(w) /\ w \in Waiters /\ w \notin Getters
      BY PublishingAssumption DEF ReadInv, Waiters
    <2>1. CASE Kept(w)
      <3>1. waiter'[w].final => status' # "PENDING"
        BY <1>0, <2>0, <2>1 DEF Kept, Reads
      <3>2. waiter'[w].pc = "decide" /\ waiter'[w].seen # "PENDING" => status' # "PENDING"
        BY <1>0, <2>0, <2>1 DEF Kept, Reads
      <3>3. /\ waiter'[w].pc = "decide" /\ waiter'[w].saw = 0
            /\ waiter'[w].final \/ waiter'[w].seen # "PENDING"
            => waiter'[w].offset > atEnd'
        BY <1>0, <2>0, <2>1 DEF Kept, Reads
      <3>4. waiter'[w].pc = "done" =>
                \/ waiter'[w].saw # 0 /\ Program[waiter'[w].saw] = "close"
                \/ status' # "PENDING" /\ waiter'[w].offset > atEnd'
        BY <1>0, <2>0, <2>1 DEF Kept, Reads
      <3> QED BY <3>1, <3>2, <3>3, <3>4 DEF Reads
    <2>2. CASE ~Kept(w)
      <3>1. /\ status' = status /\ atEnd' = atEnd /\ stream' = stream
            /\ GoesOn(w) \/ HasRead(w) \/ ReaderEnds(w)
        BY <2>0, <2>2 DEF ReaderStep, Moves, GetterEnds, writers
      <3>2. CASE GoesOn(w)
        BY <2>0, <3>1, <3>2 DEF GoesOn, Reads
      <3>3. CASE HasRead(w)
        <4>1. waiter[w].offset \in Nat
          BY <2>0 DEF WaiterTypes, WaiterType
        <4>2. waiter'[w].saw = 0 /\ status # "PENDING" => waiter'[w].offset > atEnd
          BY <1>0, <3>3, <4>1 DEF HasRead, ReadInv
        <4> QED BY <2>0, <3>1, <3>3, <4>2 DEF HasRead, Reads
      <3>4. CASE ReaderEnds(w)
        BY <2>0, <3>1, <3>4 DEF ReaderEnds, Reads
      <3> QED BY <3>1, <3>2, <3>3, <3>4
    <2> QED BY <2>1, <2>2
  <1> QED BY <1>1, <1>2 DEF ReadInv

-----------------------------------------------------------------------------
LEMMA StatusNext ==
    ASSUME status \in Statuses, [Next]_vars PROVE status' \in Statuses
  <1>1. ASSUME NEW r \in Runs, RunStep(r) PROVE status' \in Statuses
    BY <1>1 DEF RunStep, CheckRecorded, SelectMaxOffset, Commit, CommitConflict, CommitFails,
                Checkpoint, Finish, Recover, Statuses
  <1>2. ASSUME NEW w \in Waiters, WaiterStep(w) PROVE status' \in Statuses
    BY <1>2 DEF WaiterStep, GetEventCheck, Register, CheckIfCanceled, Poll, Query, PollFails,
                GetEventDecide, RecordGetEvent, ReadStreamDecide, WaitEnds, writers
  <1>3. ASSUME NEW r \in Runs, Retry(r) \/ Crash(r) \/ Destroy(r) \/ Flush(r) PROVE status' \in Statuses
    BY <1>3 DEF Retry, Crash, Destroy, Flush
  <1>4. CASE Cancel \/ Expire \/ CancelCaller \/ UNCHANGED vars
    BY <1>4 DEF Cancel, Expire, CancelCaller, vars, writers, Statuses
  <1> QED BY <1>1, <1>2, <1>3, <1>4 DEF Next

\* The inductive invariant of the whole module; PublishInv and GetInv come on top where
\* runs know their own checkpoints.
PubInv == BaseInv /\ status \in Statuses /\ WaiterTypes /\ PermitInv /\ ReadInv

LEMMA WaiterInit == Init => PubInv /\ GetInv
  <1> SUFFICES ASSUME Init PROVE PubInv /\ GetInv
    OBVIOUS
  <1>1. /\ status = "PENDING" /\ got = Null /\ available = Limit /\ queue = <<>>
        /\ \E present \in Present :
             waiter = [w \in Waiters |->
               [pc |-> IF w \notin present THEN "absent"
                       ELSE IF w \in Getters THEN "start" ELSE "register",
                offset |-> 1, final |-> FALSE, saw |-> 0, seen |-> Null, woken |-> FALSE]]
    BY DEF Init
  <1>2. \A w \in Waiters : /\ waiter[w] \in WaiterType /\ waiter[w].final = FALSE
                           /\ waiter[w].pc \in {"absent", "start", "register"}
    BY <1>1, ValuesAreIds DEF WaiterType, WaiterPCs
  <1>3. waiter \in [Waiters -> WaiterType]
    BY <1>1, <1>2
  <1>4. WaiterTypes
    BY <1>1, <1>3, PublishingAssumption DEF WaiterTypes
  <1>5. Holders = {}
    BY <1>2 DEF Holders, Holding
  <1>6. PermitInv
    <2>1. Cardinality(Holders) = 0
      BY <1>5, FS_EmptySet
    <2>2. QueueInv
      BY <1>1, <1>2 DEF QueueInv, Queued
    <2> QED BY <1>1, <2>1, <2>2, PublishingAssumption DEF PermitInv
  <1>7. GetInv
    BY <1>2 DEF GetInv, Waiters
  <1>8. ReadInv
    BY <1>1, <1>2 DEF ReadInv, Reads, Waiters
  <1> QED BY <1>1, <1>4, <1>6, <1>7, <1>8, PublishInit DEF PubInv, PublishInv, Statuses

LEMMA PubNext == PubInv /\ [Next]_vars => PubInv' /\ ReaderStep
  <1> SUFFICES ASSUME PubInv, [Next]_vars PROVE PubInv' /\ ReaderStep
    OBVIOUS
  <1>1. /\ BaseInv /\ status \in Statuses /\ WaiterTypes /\ PermitInv /\ ReadInv
        /\ WriterTypes /\ LogInv /\ QueueInv
    BY DEF PubInv, BaseInv, PermitInv
  <1>2. WriterStep
    BY <1>1, WriterSteps
  <1>3. BaseInv' /\ WriterTypes'
    BY <1>1, <1>2, BaseNext DEF BaseInv
  <1>4. ReaderStep
    BY <1>1, ReaderSteps
  <1>5. WaiterTypes' /\ PermitStep
    BY <1>4 DEF ReaderStep
  <1>6. PermitInv'
    BY <1>1, <1>5, PermitNext
  <1>7. ReadInv'
    BY <1>1, <1>2, <1>3, <1>4, ReadNext
  <1>8. status' \in Statuses
    BY <1>1, StatusNext
  <1> QED BY <1>3, <1>4, <1>5, <1>6, <1>7, <1>8 DEF PubInv

\* A reader that ends has reached the close of the stream, or all that was in it when the
\* workflow ended, wherever cancellation, crashes, ties and lost notifications fall.
THEOREM ReadersSeeAll == Spec => []ReaderSeesAll
  <1>1. PubInv => ReaderSeesAll
    BY DEF PubInv, ReadInv, Reads, ReaderSeesAll
  <1> QED BY WaiterInit, PubNext, <1>1, PTL DEF Spec

\* The runs of a workflow that calls getEvent all return the recorded answer, as long as
\* no two of them record it in the same millisecond.
THEOREM GettersAgree == ASSUME ~SameMs PROVE Spec => []GetEventAgrees
  <1>1. PubInv /\ GetInv /\ [Next]_vars => (PubInv /\ GetInv)'
    BY PubNext, GetNext DEF PubInv
  <1>2. GetInv => GetEventAgrees
    BY DEF GetInv, GetEventAgrees
  <1> QED BY WaiterInit, <1>1, <1>2, PTL DEF Spec

\* The limiter of polling reads neither loses nor makes up a permit, whatever the number of
\* permits and readers, though reads throw while they hold one: every permit is free or held
\* by one read, and who queues for a permit is in the queue.
THEOREM PermitsAreConserved == Spec => []PermitsConserved
  <1>1. PubInv => PermitsConserved
    <2> SUFFICES ASSUME PubInv PROVE PermitsConserved
      OBVIOUS
    <2>1. DOMAIN queue = 1 .. Len(queue) /\ \A k \in 1 .. Len(queue) : queue[k] \in Waiters
      BY DEF PubInv, WaiterTypes
    <2>2. {queue[k] : k \in DOMAIN queue} = {w \in Waiters : waiter[w].pc \in Queued}
      BY <2>1 DEF PubInv, PermitInv, QueueInv
    <2> QED BY <2>2 DEF PubInv, PermitInv, Holders, PermitsConserved
  <1> QED BY WaiterInit, PubNext, <1>1, PTL DEF Spec

===============================================================================
