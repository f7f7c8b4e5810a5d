--------------------------- MODULE DataSourceProofs ---------------------------
(***************************************************************************)
(* Theorems about module DataSource: a transaction takes effect once,      *)
(* whatever fails between its two databases, and crashes alone are         *)
(* invisible.  They hold for any processes, handlers and number of faults. *)
(***************************************************************************)
EXTENDS DataSource, TLAPS

\* The provers tried, in turn, on a leaf that names none.  Zenon comes first: its
\* translation is deterministic, that to SMT now and then runs out of time.
USE ZenonT(5), SMT, Zenon, Z3, SMTT(6), Z3T(6)

PCs == {"idle", "check", "invoke", "func", "insert", "commit", "recordError",
        "ckpt", "ckptErr", "finish", "await"}

\* The types that the proofs need: attempts are not bounded here.
Typed ==
    /\ pc \in [Procs -> PCs] /\ hand \in [Procs -> Tags \X Nat]
    /\ life \in [Procs -> {"down", "check", "schema", "table", "up", "drain", "sysclosed"}]
    /\ awaited \in [Procs -> BOOLEAN] /\ noise \in BOOLEAN
    /\ lock \in Procs \cup {Null} /\ completion \in Tags \X Nat
    /\ opResult \in Tags \X Nat /\ outcome \in Tags \X Nat
    /\ attempts \in Nat /\ effects \in Nat

LEMMA ResultTypes ==
    /\ None \in Tags \X Nat /\ Db \in Tags \X Nat /\ Closed \in Tags \X Nat
    /\ ConflictError \in Tags \X Nat
    /\ None[1] = "none" /\ Db[1] = "db" /\ Closed[1] = "closed" /\ ConflictError[1] = "conflict"
    /\ \A n \in Nat : /\ <<"out", n>> \in Tags \X Nat /\ <<"err", n>> \in Tags \X Nat
                      /\ <<"out", n>>[1] = "out" /\ <<"err", n>>[1] = "err"
  BY DEF None, Db, Closed, ConflictError, Tags

LEMMA TypedInit == Init => Typed
  <1> SUFFICES ASSUME Init PROVE Typed
    OBVIOUS
  <1>1. None \in Tags \X Nat
    BY ResultTypes
  <1>2. /\ pc = [p \in Procs |-> "idle"] /\ hand = [p \in Procs |-> None]
        /\ life = [p \in Procs |-> "down"] /\ awaited = [p \in Procs |-> FALSE]
    BY DEF Init
  <1>3. /\ noise = FALSE /\ lock = Null /\ attempts = 0 /\ effects = 0
        /\ completion = None /\ opResult = None /\ outcome = None
    BY DEF Init
  <1> HIDE DEF Init, None
  <1>4. /\ pc \in [Procs -> PCs] /\ hand \in [Procs -> Tags \X Nat] /\ awaited \in [Procs -> BOOLEAN]
        /\ life \in [Procs -> {"down", "check", "schema", "table", "up", "drain", "sysclosed"}]
    BY <1>1, <1>2 DEF PCs
  <1> QED BY <1>1, <1>3, <1>4 DEF Typed

\* A step of the execution in process p takes it to l with result h.
LEMMA TypedGoto ==
    ASSUME Typed, NEW p \in Procs, NEW l \in PCs, NEW h \in Tags \X Nat, Goto(p, l, h)
    PROVE  /\ pc' \in [Procs -> PCs] /\ hand' \in [Procs -> Tags \X Nat]
           /\ pc'[p] = l /\ hand'[p] = h
           /\ \A q \in Procs \ {p} : pc'[q] = pc[q] /\ hand'[q] = hand[q]
  BY DEF Typed, Goto

-----------------------------------------------------------------------------
(* What a step of the execution in process p does, as facts about its      *)
(* place, its result and the tables.                                       *)

Others(p) ==
    /\ \A q \in Procs \ {p} : pc'[q] = pc[q] /\ hand'[q] = hand[q]
    /\ UNCHANGED <<config, installed, life, awaited>>
    /\ noise => noise'

\* The handler looks for a completed execution.
Checks(p) ==
    /\ pc[p] = "invoke" /\ UNCHANGED <<lock, completion, effects, opResult, outcome>>
    /\ \/ pc'[p] = "func" /\ (saveResults => completion = None \/ ~Handler.replays)
       \/ /\ pc'[p] = "ckptErr" /\ hand'[p][1] \in {"db", "closed"}
          /\ noise' \/ ~DsOpen(p) \/ ~TableFound
       \/ /\ completion # None /\ hand'[p] = completion
          /\ pc'[p] = IF completion[1] = "out" THEN "ckpt" ELSE "ckptErr"

\* The user's function is attempted.
Attempts(p) ==
    /\ pc[p] = "func" /\ UNCHANGED <<lock, completion, effects, opResult, outcome>>
    /\ \/ pc'[p] = "invoke"
       \/ saveResults /\ pc'[p] = "insert" /\ hand'[p][1] = "out"
       \/ saveResults /\ pc'[p] = "recordError" /\ hand'[p][1] \in {"err", "db"}
       \/ ~saveResults /\ pc'[p] \in {"commit", "ckptErr"}

Inserts(p) ==
    /\ pc[p] = "insert" /\ lock = Null /\ UNCHANGED <<completion, effects, opResult, outcome>>
    /\ \/ completion = None /\ lock' = p /\ pc'[p] = "commit" /\ hand'[p] = hand[p]
       \/ completion # None /\ lock' = Null /\ pc'[p] = "recordError" /\ hand'[p] = ConflictError

Commits(p) ==
    /\ pc[p] = "commit" /\ Rollback(p) /\ UNCHANGED <<opResult, outcome>>
    /\ \/ /\ saveResults /\ completion' = hand[p] /\ effects' = effects + 1
          /\ \/ pc'[p] = "ckpt" /\ hand'[p] = hand[p]
             \/ noise' /\ pc'[p] = "recordError" /\ hand'[p] = Db
       \/ /\ UNCHANGED <<completion, effects>>
          /\ \/ pc'[p] = "invoke"
             \/ saveResults /\ noise' /\ pc'[p] = "recordError" /\ hand'[p] = Db
             \/ ~saveResults /\ pc'[p] \in {"ckpt", "ckptErr"}

\* The error is recorded, or cannot be.
RecordsError(p) ==
    /\ pc[p] = "recordError" /\ lock = Null /\ UNCHANGED <<lock, effects, opResult, outcome>>
    /\ pc'[p] = "ckptErr"
    /\ \/ completion = None /\ completion' = hand[p] /\ hand'[p] = hand[p]
       \/ /\ UNCHANGED completion /\ hand'[p][1] \in {"conflict", "db", "closed"}
          /\ completion # None \/ noise' \/ ~DsOpen(p)

\* The step's result is checkpointed, or there is a checkpoint.
Saves(p) ==
    /\ pc[p] \in {"ckpt", "ckptErr"} /\ UNCHANGED <<lock, completion, effects, outcome>>
    /\ \/ /\ opResult = None /\ opResult' = hand[p] /\ hand'[p] = hand[p]
          /\ pc'[p] \in {"finish", "await"}
       \/ /\ opResult # None /\ UNCHANGED opResult
          /\ \/ pc'[p] = "ckptErr" /\ hand'[p] = ConflictError
             \/ pc'[p] \in {"finish", "await"}

\* The execution begins with the checkpoint, or ends.
BeginsOrEnds(p) ==
    /\ UNCHANGED <<lock, completion, effects, opResult>> /\ pc[p] \notin {"idle", "commit"}
    /\ \/ pc'[p] = "invoke" /\ opResult = None /\ UNCHANGED outcome
       \/ pc'[p] = "finish" /\ opResult # None /\ hand'[p] = opResult /\ UNCHANGED outcome
       \/ pc'[p] = "idle" /\ pc[p] = "finish" /\ outcome' = hand[p]
       \/ pc'[p] = "idle" /\ UNCHANGED outcome

ExecStep(p) ==
    /\ Others(p)
    /\ \/ Checks(p) \/ Attempts(p) \/ Inserts(p) \/ Commits(p) \/ RecordsError(p)
       \/ Saves(p) \/ BeginsOrEnds(p)

LEMMA ExecSteps ==
    ASSUME Typed, NEW p \in Procs, Invoke(p) \/ RunInternalStep(p)
    PROVE  Typed' /\ ExecStep(p)
  <1> DEFINE R == Tags \X Nat
  <1>0. /\ hand[p] \in R /\ completion \in R /\ opResult \in R /\ attempts \in Nat
        /\ effects \in Nat /\ noise \in BOOLEAN
    BY DEF Typed
  <1>n. /\ Calm => noise' \in BOOLEAN /\ (noise => noise')
        /\ Noise => noise' \in BOOLEAN /\ noise'
    BY <1>0 DEF Calm, Noise
  \* The parts of Typed that a step may change.
  <1>t. ASSUME UNCHANGED <<config, installed, life, awaited>>, noise' \in BOOLEAN, noise => noise',
               NEW l \in PCs, NEW h \in R, Goto(p, l, h),
               lock' \in Procs \cup {Null}, completion' \in R, opResult' \in R, outcome' \in R,
               attempts' \in Nat, effects' \in Nat
        PROVE  Typed' /\ Others(p) /\ pc'[p] = l /\ hand'[p] = h
    <2>1. /\ pc' \in [Procs -> PCs] /\ hand' \in [Procs -> R]
          /\ pc'[p] = l /\ hand'[p] = h
          /\ \A q \in Procs \ {p} : pc'[q] = pc[q] /\ hand'[q] = hand[q]
      BY <1>t, TypedGoto
    <2>2. Typed'
      BY <1>t, <2>1 DEF Typed
    <2> QED BY <1>t, <2>1, <2>2 DEF Others
  <1> HIDE DEF R
  <1>1. CASE CheckExecution(p)
    <2>1. /\ pc[p] = "invoke" /\ UNCHANGED <<config, installed, life, awaited>>
          /\ UNCHANGED <<lock, completion, effects, opResult, outcome, attempts>>
          /\ noise' \in BOOLEAN /\ (noise => noise')
      BY <1>1, <1>n DEF CheckExecution, Step, Tables
    <2>2. ASSUME NEW l \in PCs, NEW h \in R, Goto(p, l, h)
          PROVE  Typed' /\ Others(p) /\ pc'[p] = l /\ hand'[p] = h
      BY <1>t, <2>1, <2>2 DEF Typed, R
    <2>3. CASE Goto(p, "func", None) /\ (saveResults => completion = None \/ ~Handler.replays)
      BY <2>1, <2>2, <2>3, ResultTypes DEF PCs, R, ExecStep, Checks
    <2>4. CASE /\ Goto(p, "ckptErr", Db) \/ Goto(p, "ckptErr", Closed)
               /\ noise' \/ ~DsOpen(p) \/ ~TableFound
      BY <2>1, <2>2, <2>4, ResultTypes DEF PCs, R, ExecStep, Checks
    <2>5. CASE /\ completion # None
               /\ Goto(p, IF completion[1] = "out" THEN "ckpt" ELSE "ckptErr", completion)
      BY <1>0, <2>1, <2>2, <2>5 DEF PCs, ExecStep, Checks
    <2> QED BY <1>1, <1>n, <2>3, <2>4, <2>5 DEF CheckExecution
  <1>2. CASE Func(p)
    <2>1. /\ pc[p] = "func" /\ UNCHANGED <<config, installed, life, awaited>>
          /\ UNCHANGED <<lock, completion, effects, opResult, outcome>>
          /\ attempts' = attempts + 1
      BY <1>2 DEF Func, Step
    <2>2. noise' \in BOOLEAN /\ (noise => noise')
      BY <1>0, <1>2, <1>n DEF Func
    <2>3. ASSUME NEW l \in PCs, NEW h \in R, Goto(p, l, h)
          PROVE  Typed' /\ Others(p) /\ pc'[p] = l /\ hand'[p] = h
      BY <1>0, <1>t, <2>1, <2>2, <2>3 DEF Typed, R
    <2>4. PICK n \in Nat : n = attempts'
      BY <1>0, <2>1
    <2>5. /\ <<"out", n>> \in R /\ <<"err", n>> \in R /\ None \in R /\ Db \in R
          /\ <<"out", n>>[1] = "out" /\ <<"err", n>>[1] = "err" /\ Db[1] = "db"
      BY ResultTypes DEF R
    <2>6. \/ Goto(p, IF saveResults THEN "insert" ELSE "commit", <<"out", n>>)
          \/ Goto(p, IF saveResults THEN "recordError" ELSE "ckptErr", <<"err", n>>)
          \/ Goto(p, "invoke", None)
          \/ Goto(p, IF saveResults THEN "recordError" ELSE "ckptErr", Db)
      BY <1>2, <2>4 DEF Func
    <2>7. Typed' /\ Others(p) /\ Attempts(p)
      <3>1. PICK l \in PCs, h \in R :
                /\ Goto(p, l, h)
                /\ \/ l = "invoke"
                   \/ saveResults /\ l = "insert" /\ h[1] = "out"
                   \/ saveResults /\ l = "recordError" /\ h[1] \in {"err", "db"}
                   \/ ~saveResults /\ l \in {"commit", "ckptErr"}
        BY <2>5, <2>6 DEF PCs
      <3>2. Typed' /\ Others(p) /\ pc'[p] = l /\ hand'[p] = h
        BY <2>3, <3>1
      <3> QED BY <2>1, <3>1, <3>2 DEF Attempts
    <2> QED BY <2>7 DEF ExecStep
  <1>3. CASE RecordOutput(p)
    <2>1. /\ pc[p] = "insert" /\ lock = Null /\ UNCHANGED <<config, installed, life, awaited>>
          /\ UNCHANGED <<completion, effects, opResult, outcome, attempts>>
          /\ noise' \in BOOLEAN /\ (noise => noise')
      BY <1>3, <1>n DEF RecordOutput, Step
    <2>2. CASE completion = None /\ lock' = p /\ Goto(p, "commit", hand[p])
      <3>1. Typed' /\ Others(p) /\ pc'[p] = "commit" /\ hand'[p] = hand[p]
        BY <1>0, <1>t, <2>1, <2>2 DEF Typed, R, PCs
      <3> QED BY <2>1, <2>2, <3>1 DEF ExecStep, Inserts
    <2>3. CASE completion # None /\ UNCHANGED lock /\ Goto(p, "recordError", ConflictError)
      <3>1. Typed' /\ Others(p) /\ pc'[p] = "recordError" /\ hand'[p] = ConflictError
        BY <1>t, <2>1, <2>3, ResultTypes DEF Typed, R, PCs
      <3> QED BY <2>1, <2>3, <3>1 DEF ExecStep, Inserts
    <2> QED BY <1>3, <2>2, <2>3 DEF RecordOutput
  <1>4. CASE Commit(p)
    <2>1. /\ pc[p] = "commit" /\ Rollback(p) /\ UNCHANGED <<config, installed, life, awaited>>
          /\ UNCHANGED <<opResult, outcome, attempts>> /\ lock' \in Procs \cup {Null}
      BY <1>4 DEF Commit, Step, Rollback, Typed
    <2>2. noise' \in BOOLEAN /\ (noise => noise')
      BY <1>0, <1>4, <1>n DEF Commit
    <2>3. PICK l \in PCs, h \in R :
              /\ Goto(p, l, h)
              /\ \/ /\ saveResults /\ completion' = hand[p] /\ effects' = effects + 1
                    /\ (l = "ckpt" /\ h = hand[p]) \/ (noise' /\ l = "recordError" /\ h = Db)
                 \/ /\ UNCHANGED <<completion, effects>>
                    /\ \/ l = "invoke"
                       \/ saveResults /\ noise' /\ l = "recordError" /\ h = Db
                       \/ ~saveResults /\ l \in {"ckpt", "ckptErr"}
      <3>1. None \in R /\ Db \in R /\ {"ckpt", "ckptErr", "recordError", "invoke"} \subseteq PCs
        BY ResultTypes DEF R, PCs
      <3>2. PICK f : f = IF saveResults THEN "recordError" ELSE "ckptErr"
        OBVIOUS
      <3>3. /\ saveResults => completion' = hand[p] /\ effects' = effects + 1
            /\ ~saveResults => UNCHANGED <<completion, effects>>
            /\ Goto(p, "ckpt", hand[p]) \/ (noise' /\ Goto(p, f, Db))
            \/ /\ UNCHANGED <<completion, effects>>
               /\ Goto(p, "invoke", None) \/ (noise' /\ Goto(p, f, Db))
        BY <1>4, <1>n, <3>2 DEF Commit
      <3>4. CASE Goto(p, "ckpt", hand[p]) /\ saveResults /\ completion' = hand[p] /\ effects' = effects + 1
        BY <1>0, <3>1, <3>4
      <3>5. CASE Goto(p, "ckpt", hand[p]) /\ ~saveResults /\ UNCHANGED <<completion, effects>>
        BY <1>0, <3>1, <3>5
      <3>6. CASE Goto(p, "invoke", None) /\ UNCHANGED <<completion, effects>>
        BY <3>1, <3>6
      <3>7. CASE noise' /\ Goto(p, f, Db) /\ saveResults /\ completion' = hand[p] /\ effects' = effects + 1
        BY <3>1, <3>2, <3>7
      <3>8. CASE noise' /\ Goto(p, f, Db) /\ UNCHANGED <<completion, effects>>
        BY <3>1, <3>2, <3>8
      <3> QED BY <3>3, <3>4, <3>5, <3>6, <3>7, <3>8
    <2>4. completion' \in R /\ effects' \in Nat
      BY <1>0, <2>3
    <2>5. Typed' /\ Others(p) /\ pc'[p] = l /\ hand'[p] = h
      BY <1>t, <2>1, <2>2, <2>3, <2>4 DEF Typed, R
    <2>6. Commits(p)
      BY <2>1, <2>3, <2>5 DEF Commits
    <2> QED BY <2>5, <2>6 DEF ExecStep
  <1>5. CASE RecordError(p)
    <2>1. /\ pc[p] = "recordError" /\ lock = Null /\ UNCHANGED <<config, installed, life, awaited>>
          /\ UNCHANGED <<lock, effects, opResult, outcome, attempts>>
      BY <1>5 DEF RecordError, Step
    <2>2. noise' \in BOOLEAN /\ (noise => noise')
      BY <1>0, <1>5, <1>n DEF RecordError
    <2>3. PICK h \in R :
              /\ Goto(p, "ckptErr", h)
              /\ \/ completion = None /\ completion' = hand[p] /\ h = hand[p]
                 \/ /\ UNCHANGED completion /\ h[1] \in {"conflict", "db", "closed"}
                    /\ completion # None \/ noise' \/ ~DsOpen(p)
      <3>1. /\ Closed \in R /\ Db \in R /\ ConflictError \in R
            /\ Db[1] = "db" /\ Closed[1] = "closed" /\ ConflictError[1] = "conflict"
        BY ResultTypes DEF R
      <3> QED BY <1>0, <1>5, <1>n, <3>1 DEF RecordError
    <2>4. completion' \in R
      BY <1>0, <2>3
    <2>5. Typed' /\ Others(p) /\ pc'[p] = "ckptErr" /\ hand'[p] = h
      BY <1>t, <2>1, <2>2, <2>3, <2>4 DEF Typed, R, PCs
    <2>6. RecordsError(p)
      BY <2>1, <2>3, <2>5 DEF RecordsError
    <2> QED BY <2>5, <2>6 DEF ExecStep
  <1>6. CASE Checkpoint(p) \/ CheckpointError(p)
    <2>1. /\ pc[p] \in {"ckpt", "ckptErr"} /\ UNCHANGED <<config, installed, life, awaited>>
          /\ UNCHANGED <<lock, completion, effects, outcome, attempts>>
          /\ noise' \in BOOLEAN /\ (noise => noise')
      BY <1>6, <1>n DEF Checkpoint, CheckpointError, Step
    <2>2. PICK l \in PCs, h \in R :
              /\ Goto(p, l, h)
              /\ \/ opResult = None /\ opResult' = hand[p] /\ h = hand[p] /\ l \in {"finish", "await"}
                 \/ /\ opResult # None /\ UNCHANGED opResult
                    /\ (l = "ckptErr" /\ h = ConflictError) \/ l \in {"finish", "await"}
      <3>1. ConflictError \in R /\ {"finish", "await", "ckptErr"} \subseteq PCs
        BY ResultTypes DEF R, PCs
      <3> QED BY <1>0, <1>6, <3>1 DEF Checkpoint, CheckpointError
    <2>3. opResult' \in R
      BY <1>0, <2>2
    <2>4. Typed' /\ Others(p) /\ pc'[p] = l /\ hand'[p] = h
      BY <1>t, <2>1, <2>2, <2>3 DEF Typed, R
    <2>5. Saves(p)
      BY <2>1, <2>2, <2>4 DEF Saves
    <2> QED BY <2>4, <2>5 DEF ExecStep
  <1>7. CASE CheckStep(p) \/ Finish(p) \/ AwaitResult(p) \/ SysFails(p)
    <2>1. /\ pc[p] \notin {"idle", "commit"} /\ UNCHANGED <<config, installed, life, awaited>>
          /\ UNCHANGED <<lock, completion, effects, opResult, attempts>>
          /\ noise' \in BOOLEAN /\ (noise => noise')
      BY <1>7, <1>n DEF CheckStep, Finish, AwaitResult, SysFails, Step, Tables
    <2>2. PICK l \in PCs, h \in R :
              /\ Goto(p, l, h)
              /\ \/ l = "invoke" /\ opResult = None /\ UNCHANGED outcome
                 \/ l = "finish" /\ opResult # None /\ h = opResult /\ UNCHANGED outcome
                 \/ l = "idle" /\ pc[p] = "finish" /\ outcome' = hand[p]
                 \/ l = "idle" /\ UNCHANGED outcome
      <3>1. None \in R /\ {"finish", "idle", "invoke"} \subseteq PCs
        BY ResultTypes DEF R, PCs
      <3> QED BY <1>0, <1>7, <3>1 DEF CheckStep, Finish, AwaitResult, SysFails, Step, Tables
    <2>3. outcome' \in R
      BY <1>0, <2>2 DEF Typed, R
    <2>4. Typed' /\ Others(p) /\ pc'[p] = l /\ hand'[p] = h
      BY <1>t, <2>1, <2>2, <2>3 DEF Typed, R
    <2>5. BeginsOrEnds(p)
      BY <2>1, <2>2, <2>4 DEF BeginsOrEnds
    <2> QED BY <2>4, <2>5 DEF ExecStep
  <1> QED BY <1>1, <1>2, <1>3, <1>4, <1>5, <1>6, <1>7
          DEF Invoke, NodePostgresInvoke, PostgresInvoke, DrizzleInvoke, KnexInvoke, KyselyInvoke,
              PrismaInvoke, TypeOrmInvoke, InvokeTransactionFunction, RunInternalStep

-----------------------------------------------------------------------------
(* The steps of the other kinds.                                           *)

Starts(p) ==
    /\ Others(p) /\ UNCHANGED <<lock, completion, effects, opResult, outcome>>
    /\ pc[p] = "idle" /\ pc'[p] = "check"
    /\ noise' \/ (life[p] = "up" /\ \A q \in Procs : pc[q] = "idle")

\* The process is launched or closed: the execution in it, if any, is where it was.
Lives(p) ==
    /\ UNCHANGED <<config, pc, hand, lock, completion, effects, opResult, outcome>>
    /\ noise => noise'
    /\ \A q \in Procs \ {p} : life'[q] = life[q] /\ awaited'[q] = awaited[q]
    /\ life'[p] \in {"up", "drain", "sysclosed"} =>
           life[p] \in {"up", "drain", "sysclosed"} \/ installed' = "table"
    /\ installed = "table" => installed' = "table"
    /\ \/ life[p] \in {"down", "check", "schema", "table", "sysclosed"}
       \/ life[p] = "up" /\ life'[p] = "drain" /\ awaited'[p] = (pc[p] # "idle")
       \/ life[p] = "drain" /\ (awaited[p] => pc[p] = "idle")

Dies(p) ==
    /\ UNCHANGED <<config, installed, completion, effects, opResult, outcome>> /\ Rollback(p)
    /\ noise => noise'
    /\ \A q \in Procs \ {p} : /\ pc'[q] = pc[q] /\ hand'[q] = hand[q]
                              /\ life'[q] = life[q] /\ awaited'[q] = awaited[q]
    /\ pc'[p] = "idle" /\ life'[p] = "down"

DataStep == \E p \in Procs : ExecStep(p) \/ Starts(p) \/ Lives(p) \/ Dies(p)

LEMMA DataSteps ==
    ASSUME Typed, [Next]_vars PROVE Typed' /\ (DataStep \/ UNCHANGED vars)
  <1>1. ASSUME UNCHANGED vars PROVE Typed'
    BY <1>1 DEF vars, Typed
  <1>2. ASSUME NEW p \in Procs, Invoke(p) \/ RunInternalStep(p) PROVE Typed' /\ DataStep
    BY <1>2, ExecSteps DEF DataStep
  <1>n. /\ Calm => noise' \in BOOLEAN /\ (noise => noise')
        /\ Noise => noise' \in BOOLEAN /\ noise'
        /\ Fault /\ UNCHANGED noise => noise' \in BOOLEAN /\ (noise => noise')
    BY DEF Calm, Noise, Typed
  <1>3. ASSUME NEW p \in Procs, Dispatch(p) PROVE Typed' /\ DataStep
    <2>1. /\ UNCHANGED <<config, installed, life, awaited>> /\ Goto(p, "check", None)
          /\ UNCHANGED <<lock, completion, effects, opResult, outcome, attempts>>
          /\ pc[p] = "idle"
      BY <1>3 DEF Dispatch, Tables
    <2>2. /\ noise' \in BOOLEAN /\ (noise => noise')
          /\ noise' \/ (life[p] = "up" /\ \A q \in Procs : pc[q] = "idle")
      BY <1>3, <1>n DEF Dispatch
    <2>3. /\ pc' \in [Procs -> PCs] /\ hand' \in [Procs -> Tags \X Nat] /\ pc'[p] = "check"
          /\ \A q \in Procs \ {p} : pc'[q] = pc[q] /\ hand'[q] = hand[q]
      BY <2>1, TypedGoto, ResultTypes DEF PCs
    <2>4. Typed'
      BY <2>1, <2>2, <2>3 DEF Typed
    <2>5. Starts(p)
      BY <2>1, <2>2, <2>3 DEF Starts, Others
    <2> QED BY <2>4, <2>5 DEF DataStep
  <1>4. ASSUME NEW p \in Procs, Lifecycle(p) \/ Shutdown(p) PROVE Typed' /\ DataStep
    <2>1. UNCHANGED <<config, pc, hand, lock, completion, effects, opResult, outcome, attempts>>
      BY <1>4 DEF Lifecycle, Launch, Initialize, CloseSystem, CloseData, Shutdown, Idle, Tables
    <2>2. noise' \in BOOLEAN /\ (noise => noise')
      BY <1>4, <1>n DEF Lifecycle, Launch, Initialize, CloseSystem, CloseData, Shutdown
    <2>3. PICK l \in {"down", "check", "schema", "table", "up", "drain", "sysclosed"} :
              life' = [life EXCEPT ![p] = l]
      BY <1>4 DEF Lifecycle, Launch, Initialize, CloseSystem, CloseData, Shutdown, Live
    <2>4. /\ life' \in [Procs -> {"down", "check", "schema", "table", "up", "drain", "sysclosed"}]
          /\ life'[p] = l /\ \A q \in Procs \ {p} : life'[q] = life[q]
      BY <2>3 DEF Typed
    <2>5. /\ awaited' \in [Procs -> BOOLEAN]
          /\ \A q \in Procs \ {p} : awaited'[q] = awaited[q]
      BY <1>4 DEF Lifecycle, Launch, Initialize, CloseSystem, CloseData, Shutdown, Typed
    <2>6. Typed'
      BY <2>1, <2>2, <2>4, <2>5 DEF Typed
    <2>7. /\ life'[p] \in {"up", "drain", "sysclosed"} =>
                 life[p] \in {"up", "drain", "sysclosed"} \/ installed' = "table"
          /\ installed = "table" => installed' = "table"
      BY <1>4 DEF Lifecycle, Launch, Initialize, CloseSystem, CloseData, Shutdown, Live, Typed
    <2>8. \/ life[p] \in {"down", "check", "schema", "table", "sysclosed"}
          \/ life[p] = "up" /\ life'[p] = "drain" /\ awaited'[p] = (pc[p] # "idle")
          \/ life[p] = "drain" /\ (awaited[p] => pc[p] = "idle")
      BY <1>4 DEF Lifecycle, Launch, Initialize, CloseSystem, CloseData, Shutdown, Live, Typed
    <2>9. Lives(p)
      BY <2>1, <2>2, <2>4, <2>5, <2>7, <2>8 DEF Lives
    <2> QED BY <2>6, <2>9 DEF DataStep
  <1>5. ASSUME NEW p \in Procs, Crash(p) PROVE Typed' /\ DataStep
    <2>1. /\ UNCHANGED <<config, installed, completion, effects, opResult, outcome, attempts>>
          /\ Rollback(p) /\ Goto(p, "idle", None)
          /\ life' = [life EXCEPT ![p] = "down"] /\ awaited' = [awaited EXCEPT ![p] = FALSE]
      BY <1>5 DEF Crash, Live
    <2>2. noise' \in BOOLEAN /\ (noise => noise')
      BY <1>5, <1>n DEF Crash
    <2>3. /\ pc' \in [Procs -> PCs] /\ hand' \in [Procs -> Tags \X Nat] /\ pc'[p] = "idle"
          /\ \A q \in Procs \ {p} : pc'[q] = pc[q] /\ hand'[q] = hand[q]
      BY <2>1, TypedGoto, ResultTypes DEF PCs
    <2>4. /\ life' \in [Procs -> {"down", "check", "schema", "table", "up", "drain", "sysclosed"}]
          /\ awaited' \in [Procs -> BOOLEAN] /\ life'[p] = "down"
          /\ \A q \in Procs \ {p} : life'[q] = life[q] /\ awaited'[q] = awaited[q]
      BY <2>1 DEF Typed
    <2>5. lock' \in Procs \cup {Null}
      BY <2>1 DEF Rollback, Typed
    <2>6. Typed'
      BY <2>1, <2>2, <2>3, <2>4, <2>5 DEF Typed
    <2>7. Dies(p)
      BY <2>1, <2>2, <2>3, <2>4 DEF Dies
    <2> QED BY <2>6, <2>7 DEF DataStep
  <1> QED BY <1>1, <1>2, <1>3, <1>4, <1>5 DEF Next

-----------------------------------------------------------------------------
(* Exactly once.                                                           *)

\* What an execution carries agrees with the row that is, or will be, committed.
Recorded(p) ==
    /\ pc[p] \in {"insert", "commit", "ckpt"} => hand[p][1] = "out"
    /\ pc[p] = "recordError" => hand[p][1] \notin {"none", "out"}
    /\ pc[p] = "commit" => lock = p
    /\ pc[p] = "ckpt" => hand[p] = completion
    /\ pc[p] = "ckptErr" /\ hand[p][1] \in {"out", "err"} => hand[p] = completion

\* The uncommitted row excludes every other: while a transaction holds it there is no
\* committed one.
RecordInv ==
    /\ lock # Null => completion = None /\ pc[lock] = "commit"
    /\ IF saveResults THEN \A p \in Procs : Recorded(p)
       ELSE \A p \in Procs : pc[p] \notin {"insert", "recordError"}
    /\ AppliedOnce

\* A step that changes no row in the application database.
LEMMA RowKept ==
    ASSUME Typed, RecordInv, NEW p \in Procs, UNCHANGED <<config, completion, effects>>,
           \A q \in Procs \ {p} : pc'[q] = pc[q] /\ hand'[q] = hand[q],
           lock' = Null \/ (lock' = lock /\ (lock = p => pc'[p] = "commit")),
           lock' = lock \/ lock = p,
           saveResults => Recorded(p)',
           ~saveResults => pc'[p] \notin {"insert", "recordError"},
           \/ UNCHANGED opResult
           \/ opResult' = hand[p] /\ pc[p] \in {"ckpt", "ckptErr"}
    PROVE  RecordInv'
  <1>1. saveResults' <=> saveResults
    BY DEF saveResults, Mode
  <1>2. lock' # Null => completion' = None /\ pc'[lock'] = "commit"
    BY NullAssumption DEF RecordInv, Typed
  <1>3. ASSUME saveResults, NEW q \in Procs \ {p} PROVE Recorded(q)'
    BY <1>3, NullAssumption DEF RecordInv, Recorded
  <1>4. ASSUME ~saveResults, NEW q \in Procs PROVE pc'[q] \notin {"insert", "recordError"}
    BY <1>4 DEF RecordInv
  <1>5. CheckpointSound'
    BY <1>1 DEF RecordInv, AppliedOnce, CheckpointSound, Recorded
  <1>6. EffectsMatchCompletion'
    BY DEF RecordInv, AppliedOnce, EffectsMatchCompletion
  <1> QED BY <1>1, <1>2, <1>3, <1>4, <1>5, <1>6 DEF RecordInv, AppliedOnce

\* A step that commits the row: there was none.
LEMMA RowCommitted ==
    ASSUME RecordInv, NEW p \in Procs, UNCHANGED <<config, opResult>>, saveResults,
           completion = None, completion' = hand[p], lock' = Null, lock \in {p, Null},
           effects' = IF hand[p][1] = "out" THEN effects + 1 ELSE effects,
           \A q \in Procs \ {p} : pc'[q] = pc[q] /\ hand'[q] = hand[q],
           Recorded(p)'
    PROVE  RecordInv'
  <1>1. saveResults' <=> saveResults
    BY DEF saveResults, Mode
  <1>2. None[1] = "none"
    BY ResultTypes
  <1>3. ASSUME NEW q \in Procs \ {p} PROVE Recorded(q)'
    BY <1>2, <1>3, NullAssumption DEF RecordInv, Recorded
  <1>4. CheckpointSound'
    BY <1>1, <1>2 DEF RecordInv, AppliedOnce, CheckpointSound
  <1>5. EffectsMatchCompletion'
    BY <1>2 DEF RecordInv, AppliedOnce, EffectsMatchCompletion
  <1> QED BY <1>1, <1>3, <1>4, <1>5 DEF RecordInv, AppliedOnce

LEMMA RecordNext ==
    ASSUME Typed, RecordInv, DataStep \/ UNCHANGED vars PROVE RecordInv'
  <1>r. /\ None[1] = "none" /\ Db[1] = "db" /\ ConflictError[1] = "conflict"
    BY ResultTypes
  <1>1. ASSUME NEW p \in Procs, ExecStep(p) PROVE RecordInv'
    <2>0. /\ UNCHANGED config /\ \A q \in Procs \ {p} : pc'[q] = pc[q] /\ hand'[q] = hand[q]
      BY <1>1 DEF ExecStep, Others
    <2>l. lock = p => pc[p] = "commit"
      BY NullAssumption DEF RecordInv
    <2>1. CASE Checks(p)
      <3>1. saveResults => Recorded(p)'
        BY <2>1 DEF Checks, Recorded
      <3> QED BY <2>0, <2>1, <2>l, <3>1, RowKept DEF Checks
    <2>2. CASE Attempts(p)
      <3>1. saveResults => Recorded(p)'
        BY <2>2 DEF Attempts, Recorded
      <3> QED BY <2>0, <2>2, <2>l, <3>1, RowKept DEF Attempts
    <2>3. CASE Inserts(p)
      <3>1. CASE completion = None /\ lock' = p /\ pc'[p] = "commit" /\ hand'[p] = hand[p]
        <4>1. saveResults' <=> saveResults
          BY <2>0 DEF saveResults, Mode
        <4>2. /\ pc[p] = "insert" /\ lock = Null /\ UNCHANGED <<completion, effects, opResult>>
          BY <2>3 DEF Inserts
        <4>3. saveResults /\ Recorded(p)'
          BY <3>1, <4>2 DEF RecordInv, Recorded
        <4>4. ASSUME NEW q \in Procs \ {p} PROVE Recorded(q)'
          BY <2>0, <3>1, <4>2, <4>4, NullAssumption DEF RecordInv, Recorded
        <4>5. AppliedOnce'
          BY <4>1, <4>2 DEF RecordInv, AppliedOnce, CheckpointSound, EffectsMatchCompletion
        <4> QED BY <3>1, <4>1, <4>2, <4>3, <4>4, <4>5 DEF RecordInv
      <3>2. CASE lock' = Null /\ pc'[p] = "recordError" /\ hand'[p] = ConflictError
        <4>1. Recorded(p)'
          BY <1>r, <3>2 DEF Recorded
        <4>2. saveResults
          BY <2>3 DEF Inserts, RecordInv
        <4> QED BY <2>0, <2>3, <2>l, <3>2, <4>1, <4>2, RowKept DEF Inserts
      <3> QED BY <2>3, <3>1, <3>2 DEF Inserts
    <2>4. CASE Commits(p)
      <3>1. /\ pc[p] = "commit" /\ UNCHANGED opResult
            /\ lock' = IF lock = p THEN Null ELSE lock
        BY <2>4 DEF Commits, Rollback
      <3>2. saveResults => hand[p][1] = "out" /\ lock = p /\ completion = None
        BY <3>1, NullAssumption DEF RecordInv, Recorded
      <3>3. CASE saveResults /\ completion' = hand[p]
        <4>1. effects' = effects + 1 \/ UNCHANGED <<completion, effects>>
          BY <2>4 DEF Commits
        <4>2. effects' = effects + 1
          BY <1>r, <3>2, <3>3, <4>1
        <4>3. Recorded(p)'
          BY <1>r, <2>4, <3>2, <3>3 DEF Commits, Recorded
        <4> QED BY <2>0, <3>1, <3>2, <3>3, <4>2, <4>3, RowCommitted
      <3>4. CASE UNCHANGED <<completion, effects>>
        <4>1. saveResults => Recorded(p)'
          <5>1. saveResults => pc'[p] = "invoke" \/ (pc'[p] = "recordError" /\ hand'[p] = Db)
            BY <1>r, <2>4, <3>2, <3>4 DEF Commits
          <5> QED BY <1>r, <5>1 DEF Recorded
        <4>2. ~saveResults => pc'[p] \notin {"insert", "recordError"}
          BY <2>4 DEF Commits
        <4> QED BY <2>0, <3>1, <3>4, <4>1, <4>2, RowKept
      <3> QED BY <2>4, <3>3, <3>4 DEF Commits
    <2>5. CASE RecordsError(p)
      <3>1. /\ pc[p] = "recordError" /\ lock = Null /\ UNCHANGED <<lock, effects, opResult>>
            /\ pc'[p] = "ckptErr"
        BY <2>5 DEF RecordsError
      <3>2. CASE completion = None /\ completion' = hand[p] /\ hand'[p] = hand[p]
        <4>1. saveResults /\ hand[p][1] # "out"
          BY <3>1 DEF RecordInv, Recorded
        <4>2. Recorded(p)'
          BY <3>1, <3>2 DEF Recorded
        <4> QED BY <2>0, <3>1, <3>2, <4>1, <4>2, RowCommitted
      <3>3. CASE UNCHANGED completion /\ hand'[p][1] \in {"conflict", "db", "closed"}
        <4>1. Recorded(p)'
          BY <3>1, <3>3 DEF Recorded
        <4> QED BY <2>0, <3>1, <3>3, <4>1, RowKept
      <3> QED BY <2>5, <3>2, <3>3 DEF RecordsError
    <2>6. CASE Saves(p)
      <3>1. saveResults => Recorded(p)'
        BY <1>r, <2>6 DEF Saves, Recorded
      <3> QED BY <2>0, <2>6, <2>l, <3>1, RowKept DEF Saves
    <2>7. CASE BeginsOrEnds(p)
      <3>1. saveResults => Recorded(p)'
        BY <2>7 DEF BeginsOrEnds, Recorded
      <3> QED BY <2>0, <2>7, <2>l, <3>1, RowKept DEF BeginsOrEnds
    <2> QED BY <1>1, <2>1, <2>2, <2>3, <2>4, <2>5, <2>6, <2>7 DEF ExecStep
  <1>2. ASSUME NEW p \in Procs, Starts(p) PROVE RecordInv'
    <2>1. Recorded(p)' /\ (lock = p => pc[p] = "commit")
      BY <1>2, NullAssumption DEF Starts, Recorded, RecordInv
    <2> QED BY <1>2, <2>1, RowKept DEF Starts, Others
  <1>3. ASSUME UNCHANGED <<config, pc, hand, lock, completion, effects, opResult>> PROVE RecordInv'
    BY <1>3 DEF RecordInv, Recorded, AppliedOnce, CheckpointSound, EffectsMatchCompletion,
        saveResults, Mode
  <1>4. ASSUME NEW p \in Procs, Dies(p) PROVE RecordInv'
    <2>1. Recorded(p)' /\ lock' = IF lock = p THEN Null ELSE lock
      BY <1>4 DEF Dies, Recorded, Rollback
    <2> QED BY <1>4, <2>1, RowKept DEF Dies
  <1> QED BY <1>1, <1>2, <1>3, <1>4 DEF DataStep, Lives, vars

LEMMA RecordInit == Init => RecordInv
  <1> SUFFICES ASSUME Init PROVE RecordInv
    OBVIOUS
  <1>1. /\ \A p \in Procs : pc[p] = "idle"
        /\ lock = Null /\ completion = None /\ effects = 0 /\ opResult = None
    BY DEF Init
  <1>2. None[1] = "none"
    BY ResultTypes
  <1> HIDE DEF Init
  <1> QED BY <1>1, <1>2 DEF RecordInv, Recorded, AppliedOnce, CheckpointSound, EffectsMatchCompletion

\* The user's writes are committed at most once, and exactly when the completion row
\* records an output; and what is checkpointed of a read-write transaction as its output
\* or as an error of the user's function is what that row records.  This holds for all
\* handlers, and for any number of crashes, lost connections, shutdowns and executions
\* at once.
THEOREM TransactionsApplyOnce == Spec => []AppliedOnce
  <1>1. Typed /\ RecordInv /\ [Next]_vars => Typed' /\ RecordInv'
    BY DataSteps, RecordNext
  <1>2. RecordInv => AppliedOnce
    BY DEF RecordInv
  <1> QED BY TypedInit, RecordInit, <1>1, <1>2, PTL DEF Spec

-----------------------------------------------------------------------------
(* Crashes alone are invisible.                                            *)

\* A process accepts work only when the table of its data source is there.
LaunchInv == \A p \in Procs : life[p] \in {"up", "drain", "sysclosed"} => installed = "table"

\* The only execution: what it carries on the way from the check for a checkpoint to
\* the outcome.
OnTrack(p) ==
    /\ pc[p] \in {"invoke", "func", "insert", "commit", "recordError", "ckpt", "ckptErr"} =>
           opResult = None
    /\ pc[p] \in {"func", "insert", "commit", "recordError"} => completion = None
    /\ pc[p] \in {"ckpt", "ckptErr"} => hand[p] = completion /\ completion # None
    /\ pc[p] = "finish" => hand[p] = opResult /\ opResult # None

\* It is in a process that is up, or whose shutdown waits for it.
Served(p) == life[p] = "up" \/ (life[p] = "drain" /\ awaited[p])

CalmInv ==
    saveResults /\ ~noise /\ Faithful =>
        /\ \A p \in Procs : pc[p] # "idle" =>
               Served(p) /\ OnTrack(p) /\ \A q \in Procs : pc[q] # "idle" => q = p
        /\ opResult # None => opResult = completion
        /\ outcome # None => outcome = opResult

LEMMA LaunchNext == ASSUME LaunchInv, DataStep \/ UNCHANGED vars PROVE LaunchInv'
  <1>1. ASSUME UNCHANGED <<life, installed>> PROVE LaunchInv'
    BY <1>1 DEF LaunchInv
  <1>2. ASSUME NEW p \in Procs, Lives(p) PROVE LaunchInv'
    BY <1>2 DEF LaunchInv, Lives
  <1>3. ASSUME NEW p \in Procs, Dies(p) PROVE LaunchInv'
    BY <1>3 DEF LaunchInv, Dies
  <1> QED BY <1>1, <1>2, <1>3 DEF DataStep, ExecStep, Starts, Others, vars

LEMMA CalmNext ==
    ASSUME Typed, RecordInv, LaunchInv, CalmInv, DataStep \/ UNCHANGED vars PROVE CalmInv'
  <1> SUFFICES ASSUME saveResults', ~noise', Faithful'
               PROVE  /\ \A p \in Procs : pc'[p] # "idle" =>
                             /\ Served(p)' /\ OnTrack(p)'
                             /\ \A q \in Procs : pc'[q] # "idle" => q = p
                      /\ opResult' # None => opResult' = completion'
                      /\ outcome' # None => outcome' = opResult'
    BY DEF CalmInv
  <1>1. UNCHANGED config /\ (noise => noise')
    BY DEF DataStep, ExecStep, Starts, Others, Lives, Dies, vars
  <1>2. saveResults /\ ~noise /\ Faithful
    BY <1>1 DEF saveResults, Faithful, Handler, NodePostgres, Postgres, Drizzle, Knex, Kysely, Prisma,
        TypeOrm, Kind, Schema, Mode
  <1>3. /\ \A p \in Procs : pc[p] # "idle" =>
               Served(p) /\ OnTrack(p) /\ \A q \in Procs : pc[q] # "idle" => q = p
        /\ opResult # None => opResult = completion
        /\ outcome # None => outcome = opResult
    BY <1>2 DEF CalmInv
  <1>r. None[1] = "none" /\ Db[1] = "db"
    BY ResultTypes
  \* A step of the only execution.
  <1>4. ASSUME NEW p \in Procs, ExecStep(p), pc[p] # "idle",
               pc'[p] # "idle" => OnTrack(p)',
               opResult' # None => opResult' = completion',
               outcome' # None => outcome' = opResult'
        PROVE  /\ \A q \in Procs : pc'[q] # "idle" =>
                      Served(q)' /\ OnTrack(q)' /\ \A x \in Procs : pc'[x] # "idle" => x = q
               /\ opResult' # None => opResult' = completion'
               /\ outcome' # None => outcome' = opResult'
    <2>1. \A q \in Procs \ {p} : pc'[q] = "idle"
      BY <1>3, <1>4 DEF ExecStep, Others
    <2>2. Served(p)'
      BY <1>3, <1>4 DEF ExecStep, Others, Served
    <2> QED BY <1>4, <2>1, <2>2
  <1>5. ASSUME NEW p \in Procs, ExecStep(p), pc[p] # "idle"
        PROVE  /\ pc'[p] # "idle" => OnTrack(p)'
               /\ opResult' # None => opResult' = completion'
               /\ outcome' # None => outcome' = opResult'
    <2>0. OnTrack(p) /\ Served(p)
      BY <1>3, <1>5
    <2>1. DsOpen(p) /\ TableFound
      BY <1>2, <2>0 DEF Served, DsOpen, TableFound, Faithful, LaunchInv
    <2>2. CASE Checks(p)
      <3>1. UNCHANGED <<completion, opResult, outcome>> /\ opResult = None
        BY <2>0, <2>2 DEF Checks, OnTrack
      <3>2. OnTrack(p)'
        BY <1>2, <2>1, <2>2, <3>1 DEF Checks, OnTrack, Faithful
      <3> QED BY <1>3, <3>1, <3>2
    <2>3. CASE Attempts(p)
      <3>1. UNCHANGED <<completion, opResult, outcome>> /\ opResult = None /\ completion = None
        BY <2>0, <2>3 DEF Attempts, OnTrack
      <3>2. OnTrack(p)'
        BY <1>2, <2>3, <3>1 DEF Attempts, OnTrack
      <3> QED BY <1>3, <3>1, <3>2
    <2>4. CASE Inserts(p)
      <3>1. UNCHANGED <<completion, opResult, outcome>> /\ opResult = None /\ completion = None
        BY <2>0, <2>4 DEF Inserts, OnTrack
      <3>2. OnTrack(p)'
        BY <2>4, <3>1 DEF Inserts, OnTrack
      <3> QED BY <1>3, <3>1, <3>2
    <2>5. CASE Commits(p)
      <3>1. UNCHANGED <<opResult, outcome>> /\ opResult = None /\ hand[p][1] = "out"
        BY <1>2, <2>0, <2>5 DEF Commits, OnTrack, RecordInv, Recorded
      <3>2. OnTrack(p)'
        BY <1>2, <1>r, <2>5, <3>1 DEF Commits, OnTrack
      <3> QED BY <1>3, <3>1, <3>2
    <2>6. CASE RecordsError(p)
      <3>1. /\ UNCHANGED <<opResult, outcome>> /\ opResult = None /\ completion = None
            /\ hand[p][1] # "none"
        BY <1>2, <2>0, <2>6 DEF RecordsError, OnTrack, RecordInv, Recorded
      <3>2. OnTrack(p)'
        BY <1>r, <2>1, <2>6, <3>1 DEF RecordsError, OnTrack
      <3> QED BY <1>3, <3>1, <3>2
    <2>7. CASE Saves(p)
      <3>1. /\ UNCHANGED <<completion, outcome>> /\ opResult = None
            /\ hand[p] = completion /\ completion # None /\ opResult' = hand[p]
            /\ hand'[p] = hand[p] /\ pc'[p] \in {"finish", "await"}
        BY <2>0, <2>7 DEF Saves, OnTrack
      <3>2. OnTrack(p)'
        BY <3>1 DEF OnTrack
      <3> QED BY <1>3, <3>1, <3>2
    <2>8. CASE BeginsOrEnds(p)
      <3>1. UNCHANGED <<completion, opResult>>
        BY <2>8 DEF BeginsOrEnds
      <3>2. pc'[p] # "idle" => OnTrack(p)'
        BY <2>8, <3>1 DEF BeginsOrEnds, OnTrack
      <3>3. UNCHANGED outcome \/ outcome' = opResult
        BY <2>0, <2>8 DEF BeginsOrEnds, OnTrack
      <3> QED BY <1>3, <3>1, <3>2, <3>3
    <2> QED BY <1>5, <2>2, <2>3, <2>4, <2>5, <2>6, <2>7, <2>8 DEF ExecStep
  <1>6. ASSUME NEW p \in Procs, ExecStep(p) PROVE pc[p] # "idle"
    BY <1>6 DEF ExecStep, Checks, Attempts, Inserts, Commits, RecordsError, Saves, BeginsOrEnds
  <1>7. CASE \E p \in Procs : ExecStep(p)
    BY <1>4, <1>5, <1>6, <1>7
  <1>8. ASSUME NEW p \in Procs, Starts(p)
        PROVE  /\ \A q \in Procs : pc'[q] # "idle" =>
                      Served(q)' /\ OnTrack(q)' /\ \A x \in Procs : pc'[x] # "idle" => x = q
               /\ opResult' # None => opResult' = completion'
               /\ outcome' # None => outcome' = opResult'
    <2>1. /\ pc'[p] = "check" /\ life'[p] = "up" /\ \A q \in Procs \ {p} : pc'[q] = "idle"
          /\ UNCHANGED <<completion, opResult, outcome>>
      BY <1>8 DEF Starts, Others
    <2>2. Served(p)' /\ OnTrack(p)'
      BY <2>1 DEF Served, OnTrack
    <2> QED BY <1>3, <2>1, <2>2
  <1>9. ASSUME NEW p \in Procs, Lives(p)
        PROVE  /\ \A q \in Procs : pc'[q] # "idle" =>
                      Served(q)' /\ OnTrack(q)' /\ \A x \in Procs : pc'[x] # "idle" => x = q
               /\ opResult' # None => opResult' = completion'
               /\ outcome' # None => outcome' = opResult'
    <2>1. UNCHANGED <<pc, hand, completion, opResult, outcome>>
      BY <1>9 DEF Lives
    <2>2. ASSUME NEW q \in Procs, pc[q] # "idle" PROVE OnTrack(q)'
      BY <1>3, <2>1, <2>2 DEF OnTrack
    <2>3. ASSUME NEW q \in Procs, pc[q] # "idle" PROVE Served(q)'
      BY <1>3, <1>9, <2>3 DEF Lives, Served
    <2> QED BY <1>3, <2>1, <2>2, <2>3
  <1>10. ASSUME NEW p \in Procs, Dies(p)
         PROVE  /\ \A q \in Procs : pc'[q] # "idle" =>
                      Served(q)' /\ OnTrack(q)' /\ \A x \in Procs : pc'[x] # "idle" => x = q
                /\ opResult' # None => opResult' = completion'
                /\ outcome' # None => outcome' = opResult'
    <2>1. /\ UNCHANGED <<completion, opResult, outcome>> /\ pc'[p] = "idle"
          /\ \A q \in Procs \ {p} : /\ pc'[q] = pc[q] /\ hand'[q] = hand[q]
                                    /\ life'[q] = life[q] /\ awaited'[q] = awaited[q]
      BY <1>10 DEF Dies
    <2>2. ASSUME NEW q \in Procs \ {p}, pc[q] # "idle" PROVE OnTrack(q)' /\ Served(q)'
      BY <1>3, <2>1, <2>2 DEF OnTrack, Served
    <2> QED BY <1>3, <2>1, <2>2
  <1>11. CASE UNCHANGED vars
    BY <1>3, <1>11 DEF vars, Served, OnTrack
  <1> QED BY <1>7, <1>8, <1>9, <1>10, <1>11 DEF DataStep

\* If no connection is lost and no second execution overlaps, then with a handler that
\* replays errors from the table it installed, crashes and shutdowns between commit,
\* checkpoint and outcome are invisible: step and workflow end as the row records.
THEOREM CrashesAreTransparent == Spec => []CrashTransparent
  <1> DEFINE IInv == Typed /\ RecordInv /\ LaunchInv /\ CalmInv
  <1>1. Init => LaunchInv /\ CalmInv
    BY DEF Init, LaunchInv, CalmInv
  <1>2. IInv /\ [Next]_vars => IInv'
    BY DataSteps, RecordNext, LaunchNext, CalmNext
  <1>3. IInv => CrashTransparent
    BY DEF CalmInv, CrashTransparent
  <1> QED BY TypedInit, RecordInit, <1>1, <1>2, <1>3, PTL DEF Spec

===============================================================================
