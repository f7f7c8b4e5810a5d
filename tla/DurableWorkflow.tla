--------------------------- MODULE DurableWorkflow ---------------------------
(***************************************************************************)
(* What durable execution promises of a workflow, without executors,       *)
(* queues, invocations or recovery: a log of step results that only grows, *)
(* one result per step, and an outcome that is recorded once and is the    *)
(* one the log leads to.  Module Execution is shown to implement it.       *)
(***************************************************************************)
EXTENDS Naturals

CONSTANTS
    Workflows, NumSteps, Values, StepErrors,
    Unreadable,   \* workflows whose recorded input may fail to deserialize
    Null

VARIABLES
    phase,   \* where the workflow is in its life
    log,     \* result of each step, Null if it has none yet
    result   \* the log the recorded outcome was computed from

absVars == <<phase, log, result>>

LogSteps == 1 .. NumSteps

EmptyLog == [i \in LogSteps |-> Null]

Threw(l) == \E i \in LogSteps : l[i] \in StepErrors

\* The function has nothing left to do: it threw, or every step has a result.
LogComplete(l) == Threw(l) \/ \A i \in LogSteps : l[i] # Null

\* k is the step whose result is the next one the log can take.
NextStep(l, k) ==
    /\ ~Threw(l)
    /\ l[k] = Null
    /\ \A i \in 1 .. k - 1 : l[i] # Null

AbsInit ==
    /\ phase = [w \in Workflows |-> "absent"]
    /\ log = [w \in Workflows |-> EmptyLog]
    /\ result = [w \in Workflows |-> EmptyLog]

Create(w) ==
    /\ phase[w] = "absent"
    /\ phase' = [phase EXCEPT ![w] = "active"]
    /\ UNCHANGED <<log, result>>

\* A step in progress when the workflow is cancelled may still be recorded.
Append(w, k, v) ==
    /\ phase[w] \in {"active", "cancelled", "exhausted"}
    /\ NextStep(log[w], k)
    /\ log' = [log EXCEPT ![w][k] = v]
    /\ UNCHANGED <<phase, result>>

\* A workflow can end while it is waiting in a queue or was given up: a run of
\* it that was thought dead may finish it.
Finish(w) ==
    /\ phase[w] \in {"active", "exhausted"}
    /\ LogComplete(log[w])
    /\ phase' = [phase EXCEPT ![w] = IF Threw(log[w]) THEN "failed" ELSE "succeeded"]
    /\ result' = [result EXCEPT ![w] = log[w]]
    /\ UNCHANGED log

\* A workflow that cannot be given its input fails without a word of its log.
Refuse(w) ==
    /\ w \in Unreadable /\ phase[w] \in {"active", "exhausted"}
    /\ phase' = [phase EXCEPT ![w] = "failed"]
    /\ UNCHANGED <<log, result>>

Cancel(w) ==
    /\ phase[w] \in {"active", "exhausted"}
    /\ phase' = [phase EXCEPT ![w] = "cancelled"]
    /\ UNCHANGED <<log, result>>

Resume(w) ==
    /\ phase[w] \in {"cancelled", "exhausted"}
    /\ phase' = [phase EXCEPT ![w] = "active"]
    /\ UNCHANGED <<log, result>>

GiveUp(w) ==
    /\ phase[w] = "active"
    /\ phase' = [phase EXCEPT ![w] = "exhausted"]
    /\ UNCHANGED <<log, result>>

AbsNext ==
    \E w \in Workflows :
        \/ Create(w) \/ Finish(w) \/ Refuse(w) \/ Cancel(w) \/ Resume(w) \/ GiveUp(w)
        \/ \E k \in LogSteps, v \in Values : Append(w, k, v)

AbsSpec == AbsInit /\ [][AbsNext]_absVars
=============================================================================
