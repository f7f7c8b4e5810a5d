------------------------------ MODULE DataSource ------------------------------
(***************************************************************************)
(* A transaction of an application database run as a step of a durable     *)
(* workflow: runTransaction (src/datasource.ts), the step checkpoint of    *)
(* runInternalStep (src/dbos-executor.ts) and the transaction handlers of  *)
(* the seven data source packages, which share one control flow and differ *)
(* in the fields of their Handler record.                                  *)
(*                                                                         *)
(* The step touches two databases.  The user's writes and a row of         *)
(* transaction_completion commit together in the application database; the *)
(* step's result is then checkpointed in the system database.  A process   *)
(* may crash, lose a connection, be shut down or be raced by a second      *)
(* execution of the same workflow between any two of these.                *)
(*                                                                         *)
(* A result is a pair <<tag, n>>: "out" or "err" is what attempt n of the  *)
(* user's function returned or threw; "db" is a failure of the             *)
(* application database, "closed" the error of a handler that has no       *)
(* connection, "conflict" a DBOSWorkflowConflictError.                     *)
(***************************************************************************)
EXTENDS Naturals, FiniteSets

CONSTANTS Procs,      \* executor processes
          Configs,    \* the <<kind, schemaName, mode>> a run may have
          MaxFaults,  \* bound on crashes, failures, shutdowns, extra executions
          Null

ASSUME NullAssumption == Null \notin Procs

VARIABLES config,     \* the data source kind, its schema, "rw" or "ro"
          installed,  \* "none", "schema" or "table": DDL of schemaName so far
          life,       \* p: "down", "check", "schema", "table", "up", "drain", "sysclosed"
          awaited,    \* p: the shutdown waits for the execution in progress
          pc,         \* p: where the execution of the step is
          hand,       \* p: the result it carries
          lock,       \* the process whose open transaction inserted the row
          completion, \* the committed transaction_completion row
          effects,    \* how many times the user's writes were committed
          opResult,   \* the checkpoint in operation_outputs
          outcome,    \* the recorded outcome of the workflow
          attempts,   \* attempts of the user's function so far
          noise,      \* a connection was lost or two executions overlapped
          faults

vars == <<config, installed, life, awaited, pc, hand, lock, completion, effects,
          opResult, outcome, attempts, noise, faults>>

None == <<"none", 0>>
Db == <<"db", 0>>
Closed == <<"closed", 0>>
ConflictError == <<"conflict", 0>>

-----------------------------------------------------------------------------
(* The handlers.  table: the schema whose transaction_completion the        *)
(* handler reads and writes; replays: a recorded error is thrown again;     *)
(* closes: destroy leaves the handler without a connection.                 *)

NodePostgres(schema) == [table |-> schema, replays |-> TRUE, closes |-> TRUE]
Postgres(schema) == [table |-> schema, replays |-> TRUE, closes |-> TRUE]
Drizzle(schema) == [table |-> schema, replays |-> TRUE, closes |-> TRUE]
Knex(schema) == [table |-> "dbos", replays |-> TRUE, closes |-> TRUE]
Kysely(schema) == [table |-> "dbos", replays |-> TRUE, closes |-> TRUE]
Prisma(schema) == [table |-> schema, replays |-> TRUE, closes |-> FALSE]
TypeOrm(schema) == [table |-> schema, replays |-> FALSE, closes |-> TRUE]

Kind == config[1]
Schema == config[2]
Mode == config[3]

Handler == CASE Kind = "nodepg" -> NodePostgres(Schema)
             [] Kind = "postgres" -> Postgres(Schema)
             [] Kind = "drizzle" -> Drizzle(Schema)
             [] Kind = "knex" -> Knex(Schema)
             [] Kind = "kysely" -> Kysely(Schema)
             [] Kind = "prisma" -> Prisma(Schema)
             [] Kind = "typeorm" -> TypeOrm(Schema)

saveResults == Mode = "rw"
DsOpen(p) == life[p] \in {"up", "drain", "sysclosed"} \/ ~Handler.closes
SysOpen(p) == life[p] \notin {"down", "sysclosed"}
TableFound == Handler.table = Schema /\ installed = "table"

Fault == faults < MaxFaults /\ faults' = faults + 1
Noise == Fault /\ noise' = TRUE
Calm == UNCHANGED <<faults, noise>>

Goto(p, l, r) == pc' = [pc EXCEPT ![p] = l] /\ hand' = [hand EXCEPT ![p] = r]
Step(p, l) == pc[p] = l /\ UNCHANGED <<config, installed, life, awaited>>
Tables == <<lock, completion, effects, opResult, outcome, attempts>>
-----------------------------------------------------------------------------
(* invokeTransactionFunction *)

CheckExecutionNever(p) ==
  /\ Step(p, "invoke") /\ UNCHANGED Tables /\ Calm
  /\ IF DsOpen(p) THEN Goto(p, "func", None) ELSE Goto(p, "ckptErr", Closed)

\* The handler looks for a recorded execution before each attempt.
CheckExecution(p) ==
  /\ Step(p, "invoke") /\ UNCHANGED Tables
  /\ \/ ~DsOpen(p) /\ Goto(p, "ckptErr", Closed) /\ Calm
     \/ DsOpen(p) /\ ~saveResults /\ Goto(p, "func", None) /\ Calm
     \/ /\ DsOpen(p) /\ saveResults /\ Calm
        /\ IF ~TableFound THEN Goto(p, "ckptErr", Db)
           ELSE IF completion = None \/ (completion[1] = "err" /\ ~Handler.replays)
           THEN Goto(p, "func", None)
           ELSE Goto(p, IF completion[1] = "out" THEN "ckpt" ELSE "ckptErr", completion)
     \/ DsOpen(p) /\ saveResults /\ Noise /\ Goto(p, "ckptErr", Db)

\* The user's function runs in the transaction: it returns, it throws, a
\* serialization failure starts the loop again, or the connection is lost.
Func(p) ==
  /\ Step(p, "func")
  /\ UNCHANGED <<lock, completion, effects, opResult, outcome>>
  /\ attempts' = attempts + 1
  /\ \/ Calm /\ Goto(p, IF saveResults THEN "insert" ELSE "commit", <<"out", attempts'>>)
     \/ Calm /\ Goto(p, IF saveResults THEN "recordError" ELSE "ckptErr", <<"err", attempts'>>)
     \/ Fault /\ UNCHANGED noise /\ Goto(p, "invoke", None)
     \/ Noise /\ Goto(p, IF saveResults THEN "recordError" ELSE "ckptErr", Db)

RecordOutputUpsert(p) ==
  /\ Step(p, "insert") /\ Calm /\ lock = Null
  /\ UNCHANGED <<completion, effects, opResult, outcome, attempts>>
  /\ lock' = p /\ Goto(p, "commit", hand[p])

\* #recordOutput inserts the row in the user's transaction.  The primary key
\* makes it wait for another open insert and fail on a committed one, which
\* rolls the user's writes back.
RecordOutput(p) ==
  /\ Step(p, "insert") /\ Calm /\ lock = Null
  /\ UNCHANGED <<completion, effects, opResult, outcome, attempts>>
  /\ IF completion = None
     THEN lock' = p /\ Goto(p, "commit", hand[p])
     ELSE UNCHANGED lock /\ Goto(p, "recordError", ConflictError)

\* A transaction that ends gives up its uncommitted row.
Rollback(p) == lock' = IF lock = p THEN Null ELSE lock

\* COMMIT succeeds, is refused as a serialization failure (and retried),
\* fails with its connection, or succeeds with its answer lost.
Commit(p) ==
  LET committed == IF saveResults
                   THEN completion' = hand[p] /\ effects' = effects + 1
                   ELSE UNCHANGED <<completion, effects>>
      failed == IF saveResults THEN "recordError" ELSE "ckptErr"
  IN /\ Step(p, "commit") /\ Rollback(p)
     /\ UNCHANGED <<opResult, outcome, attempts>>
     /\ \/ committed /\ Calm /\ Goto(p, "ckpt", hand[p])
        \/ UNCHANGED <<completion, effects>> /\ Fault /\ UNCHANGED noise /\ Goto(p, "invoke", None)
        \/ UNCHANGED <<completion, effects>> /\ Noise /\ Goto(p, failed, Db)
        \/ committed /\ Noise /\ Goto(p, failed, Db)

\* #recordError inserts the error outside the failed transaction.
RecordError(p) ==
  /\ Step(p, "recordError") /\ lock = Null
  /\ UNCHANGED <<lock, effects, opResult, outcome, attempts>>
  /\ \/ /\ DsOpen(p) /\ completion = None /\ Calm
        /\ completion' = hand[p] /\ Goto(p, "ckptErr", hand[p])
     \/ /\ DsOpen(p) /\ completion # None /\ Calm
        /\ UNCHANGED completion /\ Goto(p, "ckptErr", ConflictError)
     \/ DsOpen(p) /\ Noise /\ UNCHANGED completion /\ Goto(p, "ckptErr", Db)
     \/ ~DsOpen(p) /\ Calm /\ UNCHANGED completion /\ Goto(p, "ckptErr", Closed)

InvokeTransactionFunction(p) ==
  CheckExecution(p) \/ Func(p) \/ RecordOutput(p) \/ Commit(p) \/ RecordError(p)

NodePostgresInvoke(p) == Kind = "nodepg" /\ InvokeTransactionFunction(p)
PostgresInvoke(p) == Kind = "postgres" /\ InvokeTransactionFunction(p)
DrizzleInvoke(p) == Kind = "drizzle" /\ InvokeTransactionFunction(p)
KnexInvoke(p) == Kind = "knex" /\ InvokeTransactionFunction(p)
KyselyInvoke(p) == Kind = "kysely" /\ InvokeTransactionFunction(p)
PrismaInvoke(p) == Kind = "prisma" /\ InvokeTransactionFunction(p)
TypeOrmInvoke(p) == Kind = "typeorm" /\ InvokeTransactionFunction(p)
-----------------------------------------------------------------------------
(* runInternalStep and the end of the workflow.  Nothing of it gets past a  *)
(* system database that the shutdown has closed.                            *)

SysFails(p) ==
  /\ pc[p] \in {"check", "ckpt", "ckptErr", "finish", "await"} /\ ~SysOpen(p)
  /\ Goto(p, "idle", None) /\ Calm
  /\ UNCHANGED <<config, installed, life, awaited>> /\ UNCHANGED Tables

\* A checkpointed result is revived, an error as a plain Error: the body of
\* the workflow sees it, and it is no DBOSWorkflowConflictError any more.
CheckStep(p) ==
  /\ Step(p, "check") /\ SysOpen(p) /\ Calm /\ UNCHANGED Tables
  /\ IF opResult = None THEN Goto(p, "invoke", None) ELSE Goto(p, "finish", opResult)

\* recordOperationResult with checkConflict: the second of two is refused.
Checkpoint(p) ==
  /\ Step(p, "ckpt") /\ SysOpen(p) /\ Calm
  /\ UNCHANGED <<lock, completion, effects, outcome, attempts>>
  /\ IF opResult = None
     THEN opResult' = hand[p] /\ Goto(p, "finish", hand[p])
     ELSE UNCHANGED opResult /\ Goto(p, "ckptErr", ConflictError)

\* The catch of runInternalStep records whatever was thrown unless a result
\* is there, and throws it on: a conflict makes the workflow wait for its own
\* result, any other error reaches the body.
CheckpointError(p) ==
  /\ Step(p, "ckptErr") /\ SysOpen(p) /\ Calm
  /\ UNCHANGED <<lock, completion, effects, outcome, attempts>>
  /\ opResult' = IF opResult = None THEN hand[p] ELSE opResult
  /\ Goto(p, IF hand[p] = ConflictError THEN "await" ELSE "finish", hand[p])

\* The body returns or throws what the step gave it.
Finish(p) ==
  /\ Step(p, "finish") /\ SysOpen(p) /\ Calm
  /\ UNCHANGED <<lock, completion, effects, opResult, attempts>>
  /\ outcome' = hand[p]
  /\ Goto(p, "idle", None)

AwaitResult(p) ==
  /\ Step(p, "await") /\ SysOpen(p) /\ Calm /\ outcome # None /\ UNCHANGED Tables
  /\ Goto(p, "idle", None)

RunInternalStep(p) ==
  \/ CheckStep(p) \/ Checkpoint(p) \/ CheckpointError(p) \/ Finish(p)
  \/ AwaitResult(p) \/ SysFails(p)
-----------------------------------------------------------------------------
(* The life of a process *)

Idle(p) == UNCHANGED <<config, pc, hand>> /\ UNCHANGED Tables
Live(p, l) == life' = [life EXCEPT ![p] = l]

\* Dispatch of the pending workflow.  One that another process still executes
\* overlaps with it, as does a call made while the process shuts down.
Dispatch(p) ==
  /\ life[p] \in {"up", "drain"} /\ pc[p] = "idle" /\ outcome = None
  /\ IF life[p] = "up" /\ \A q \in Procs : pc[q] = "idle" THEN Calm ELSE Noise
  /\ Goto(p, "check", None)
  /\ UNCHANGED <<config, installed, life, awaited>> /\ UNCHANGED Tables

\* launch initializes every data source before it recovers workflows.
\* initialize looks for the schema and the table and creates what is missing
\* in two statements; a statement that fails ends the launch.
Launch(p) ==
  /\ life[p] = "down" /\ pc[p] = "idle"
  /\ Live(p, "check") /\ Calm /\ Idle(p) /\ UNCHANGED <<installed, awaited>>

Initialize(p) ==
  /\ Idle(p) /\ UNCHANGED awaited
  /\ \/ /\ life[p] = "check" /\ Calm /\ UNCHANGED installed
        /\ Live(p, IF installed = "table" THEN "up" ELSE "schema")
     \/ /\ life[p] = "schema" /\ Calm /\ Live(p, "table")
        /\ installed' = IF installed = "none" THEN "schema" ELSE installed
     \/ /\ life[p] = "table" /\ Calm /\ Live(p, "up")
        /\ installed' = "table"
     \/ /\ life[p] \in {"check", "schema", "table"} /\ Noise
        /\ Live(p, "down") /\ UNCHANGED installed

\* shutdown: the executions in progress are awaited, then the system database
\* is closed, then the data sources.
Shutdown(p) ==
  /\ life[p] = "up" /\ Live(p, "drain") /\ Fault /\ UNCHANGED <<noise, installed>>
  /\ awaited' = [awaited EXCEPT ![p] = pc[p] # "idle"]
  /\ Idle(p)

CloseSystem(p) ==
  /\ life[p] = "drain" /\ (awaited[p] => pc[p] = "idle")
  /\ Live(p, "sysclosed") /\ awaited' = [awaited EXCEPT ![p] = FALSE]
  /\ Calm /\ Idle(p) /\ UNCHANGED installed

CloseData(p) ==
  /\ life[p] = "sysclosed" /\ Live(p, "down") /\ Calm
  /\ Idle(p) /\ UNCHANGED <<installed, awaited>>

Crash(p) ==
  /\ life[p] # "down" /\ Live(p, "down") /\ Fault /\ UNCHANGED noise
  /\ Goto(p, "idle", None) /\ Rollback(p)
  /\ awaited' = [awaited EXCEPT ![p] = FALSE]
  /\ UNCHANGED <<config, installed, completion, effects, opResult, outcome, attempts>>

Lifecycle(p) == Launch(p) \/ Initialize(p) \/ CloseSystem(p) \/ CloseData(p)
-----------------------------------------------------------------------------
Init ==
  /\ config \in Configs
  /\ installed = "none"
  /\ life = [p \in Procs |-> "down"] /\ awaited = [p \in Procs |-> FALSE]
  /\ pc = [p \in Procs |-> "idle"] /\ hand = [p \in Procs |-> None]
  /\ lock = Null /\ completion = None /\ effects = 0
  /\ opResult = None /\ outcome = None
  /\ attempts = 0 /\ noise = FALSE /\ faults = 0

Invoke(p) ==
  \/ NodePostgresInvoke(p) \/ PostgresInvoke(p) \/ DrizzleInvoke(p) \/ KnexInvoke(p)
  \/ KyselyInvoke(p) \/ PrismaInvoke(p) \/ TypeOrmInvoke(p)

Next ==
  \E p \in Procs :
    \/ Invoke(p) \/ RunInternalStep(p) \/ Dispatch(p) \/ Lifecycle(p)
    \/ Shutdown(p) \/ Crash(p)

Spec == Init /\ [][Next]_vars

-----------------------------------------------------------------------------
Tags == {"none", "out", "err", "db", "closed", "conflict"}
Result == Tags \X (0 .. (Cardinality(Procs) + MaxFaults))

\* Every variable has its type; in particular the user's function is attempted
\* at most once per dispatched execution and serialization failure.
TypeOK ==
  /\ config \in Configs /\ installed \in {"none", "schema", "table"}
  /\ life \in [Procs -> {"down", "check", "schema", "table", "up", "drain", "sysclosed"}]
  /\ awaited \in [Procs -> BOOLEAN]
  /\ pc \in [Procs -> {"idle", "check", "invoke", "func", "insert", "commit", "recordError",
                       "ckpt", "ckptErr", "finish", "await"}]
  /\ hand \in [Procs -> Result]
  /\ lock \in Procs \cup {Null}
  /\ {completion, opResult, outcome} \subseteq Result
  /\ attempts \in 0 .. (Cardinality(Procs) + MaxFaults)
  /\ noise \in BOOLEAN /\ faults \in 0 .. MaxFaults

\* The user's writes commit at most once, whatever crashes, retries and second
\* executions do, and exactly when the completion row says they did: the row
\* and the writes share a transaction and the row has a primary key.
EffectsMatchCompletion == effects = IF completion[1] = "out" THEN 1 ELSE 0

\* An output, or an error of the user's function, that is checkpointed for a
\* read-write transaction is the one the application database recorded: a step
\* is never checkpointed as returning what was rolled back, or as having
\* thrown when its writes are there.
CheckpointSound ==
  saveResults /\ opResult[1] \in {"out", "err"} => opResult = completion

\* Exactly-once execution of a transaction, in both databases.
AppliedOnce == EffectsMatchCompletion /\ CheckpointSound

\* The handler reads the table it installed and throws a recorded error again.
Faithful == Handler.replays /\ Handler.table = Schema

\* With no lost connection and no second execution, crashes and shutdowns
\* between the commit, the checkpoint and the outcome are invisible: the step
\* and the workflow end with what the completion row records.
CrashTransparent ==
  saveResults /\ ~noise /\ Faithful =>
    /\ opResult # None => opResult = completion
    /\ outcome # None => outcome = opResult

\* The same for every handler: running a workflow again gives the error that
\* its first run recorded (the "rerun error" tests of the packages).
RerunAgrees ==
  saveResults /\ ~noise /\ opResult # None => opResult = completion

=============================================================================
