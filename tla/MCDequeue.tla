------------------------------ MODULE MCDequeue ------------------------------
(* Queues for TLC. *)
EXTENDS Dequeue

CONSTANTS e1, e2

Queue ==
    [executors |-> {e1, e2}, old |-> {}, workflows |-> 1 .. 3, concurrency |-> Null,
     workerConcurrency |-> Null, limitPerPeriod |-> Null, period |-> 1, inOrder |-> TRUE,
     versioned |-> FALSE, faults |-> 1,
     kinds |-> {"crash", "cancel", "poll", "dispatch"}]

\* A global limit, and a limit per executor beside it.
Global == [Queue EXCEPT !.concurrency = 2, !.workerConcurrency = 2]

\* A limit per executor only: READ COMMITTED and SKIP LOCKED, in any order.
Worker == [Queue EXCEPT !.workflows = 1 .. 2, !.workerConcurrency = 1, !.inOrder = FALSE,
                        !.kinds = {"crash", "poll"}]

\* Executors of two versions.
Versions == [Queue EXCEPT !.old = {e1}, !.workflows = 1 .. 2, !.versioned = TRUE,
                          !.kinds = {"crash", "cancel"}]

\* A rate limit under which two executors count and claim at once, with
\* cancellations; and one of two workflows per period, of which a poll may find
\* one left.
Rate == [Queue EXCEPT !.workflows = 1 .. 2, !.limitPerPeriod = 1, !.period = 2,
                      !.kinds = {"cancel"}]

RateAlone == [Queue EXCEPT !.executors = {e1}, !.limitPerPeriod = 2, !.period = 2,
                           !.inOrder = FALSE, !.kinds = {"cancel"}]

MCQueues == {Global, Worker, Versions, Rate, RateAlone}

\* A later workflow may queue ahead of an earlier one (priority).
AnyOrder == {[Queue EXCEPT !.workflows = 1 .. 2, !.concurrency = 1, !.inOrder = FALSE,
                           !.faults = 0]}

\* A rate limit and two executors.
RateRace == {[Queue EXCEPT !.workflows = 1 .. 2, !.limitPerPeriod = 1, !.period = 2,
                           !.faults = 0]}
=============================================================================
