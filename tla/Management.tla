----------------------------- MODULE Management -----------------------------
(***************************************************************************)
(* The two ways into a running executor: the websocket to DBOS Conductor   *)
(* (conductor/conductor.ts) with its pings, reconnections and shutdown,    *)
(* and the admin server (adminserver.ts), both running the handlers of     *)
(* module Handlers over one database, concurrently and statement by        *)
(* statement, while the engine goes on dequeuing and finishing workflows.  *)
(*                                                                         *)
(* sock is the sequence of the websockets created so far:                  *)
(*   st    "connecting", "open", "dead" (open here, the peer is gone),     *)
(*         "aborted" (closed while connecting: its error event is to come),*)
(*         "closing" (close() called), "terminated" (its close event is to *)
(*         come), "closed"                                                 *)
(*   ping  its currPing: "off" (interval cleared), "idle", "waiting" (the  *)
(*         ping timeout is running)                                        *)
(* websocket is the index of this.websocket, 0 for undefined; reconnect is *)
(* this.reconnectTimeout: "none" (undefined), "armed", "spent" (defined,   *)
(* but its timer has fired or was cleared).                                *)
(***************************************************************************)
EXTENDS Handlers

CONSTANTS Requests,       \* request names to requests
          Tables,         \* the databases to start from
          Plans           \* the requests and the bounds of a behaviour: faults of
                          \* the connection, failures of the database, steps of
                          \* the engine, whether it is shut down

VARIABLES db, sock, websocket, reconnect, isShuttingDown, isClosed,
          admin,          \* the admin server accepts connections
          pool,           \* the executor's database pool: "open", "ended"
          reqs,           \* the requests of the plan
          plan

vars == <<db, sock, websocket, reconnect, isShuttingDown, isClosed, admin, pool, reqs, plan>>

connection == <<sock, websocket, reconnect, isShuttingDown, isClosed>>

process == <<isShuttingDown, isClosed, admin, pool>>

NewSocket == [st |-> "connecting", ping |-> "idle"]

Live == {"connecting", "open", "dead"}

Waiting == [at |-> "unsent", on |-> 0, rest |-> <<>>, owed |-> {}, threw |-> FALSE,
            say |-> "none"]

\* After DBOS.launch: the first dispatchLoop has opened a websocket.
Init ==
  /\ plan \in Plans
  /\ db \in Tables
  /\ sock = <<NewSocket>> /\ websocket = 1 /\ reconnect = "none"
  /\ isShuttingDown = FALSE /\ isClosed = FALSE
  /\ admin = TRUE /\ pool = "open"
  /\ reqs = [i \in DOMAIN plan.requests |-> Waiting]

(***************************************************************************)
(* The connection                                                          *)
(***************************************************************************)

NoTrouble == UNCHANGED <<websocket, reconnect>>

\* A websocket given up without being terminated.
ResetWebsocketKeeping(s, st) ==
  /\ sock' = [sock EXCEPT ![s].ping = "off"]
  /\ websocket' = IF websocket = s THEN 0 ELSE websocket
  /\ reconnect' = IF reconnect # "none" \/ isShuttingDown THEN reconnect ELSE "armed"

\* s is terminated, which leaves it in st, and a new connection is scheduled.
ResetWebsocket(s, st) ==
  /\ sock' = [sock EXCEPT ![s] = [st |-> st, ping |-> "off"]]
  /\ websocket' = IF websocket = s THEN 0 ELSE websocket
  /\ reconnect' = IF reconnect # "none" \/ isShuttingDown THEN reconnect ELSE "armed"

\* The error and unexpected-response events.
Trouble(s) ==
  IF reconnect = "none" THEN ResetWebsocket(s, "terminated")
  ELSE sock' = [sock EXCEPT ![s].st = "terminated"] /\ NoTrouble

\* The close event that leaves reconnecting to the error event.
ClosedQuietly(s) == sock' = [sock EXCEPT ![s].st = "closed"] /\ NoTrouble

\* The close event, which is not acted on during a shutdown.
Closed(s) ==
  IF ~isShuttingDown /\ reconnect = "none" THEN ResetWebsocket(s, "closed")
  ELSE sock' = [sock EXCEPT ![s].st = "closed"] /\ NoTrouble

Fault == plan.faults > 0 /\ plan' = [plan EXCEPT !.faults = @ - 1]

Open(s) ==
  /\ sock[s].st = "connecting"
  /\ sock' = [sock EXCEPT ![s] = [st |-> "open", ping |-> "idle"]]
  /\ NoTrouble /\ UNCHANGED <<db, process, reqs, plan>>

\* The handshake fails, times out or gets an HTTP response instead.
HandshakeFails(s) ==
  /\ sock[s].st = "connecting"
  /\ Fault /\ Trouble(s) /\ UNCHANGED <<db, process, reqs>>

SocketError(s) ==
  /\ sock[s].st \in {"open", "dead"}
  /\ Fault /\ Trouble(s) /\ UNCHANGED <<db, process, reqs>>

PeerCloses(s) ==
  /\ sock[s].st = "open"
  /\ Fault /\ sock' = [sock EXCEPT ![s].st = "terminated"]
  /\ NoTrouble /\ UNCHANGED <<db, process, reqs>>

PeerVanishes(s) ==
  /\ sock[s].st = "open"
  /\ Fault /\ sock' = [sock EXCEPT ![s].st = "dead"]
  /\ NoTrouble /\ UNCHANGED <<db, process, reqs>>

\* Closed while connecting: the error that close() causes.
AbortError(s) ==
  /\ sock[s].st = "aborted"
  /\ Trouble(s) /\ UNCHANGED <<db, process, reqs, plan>>

CloseEvent(s) ==
  /\ sock[s].st \in {"terminated", "closing"}
  /\ Closed(s) /\ UNCHANGED <<db, process, reqs, plan>>

\* The interval of setPingInterval.
PingTick(s) ==
  /\ sock[s].st \in Live /\ sock[s].ping = "idle"
  /\ sock' = [sock EXCEPT ![s].ping = "waiting"]
  /\ NoTrouble /\ UNCHANGED <<db, process, reqs, plan>>

Pong(s) ==
  /\ sock[s].st = "open" /\ sock[s].ping = "waiting"
  /\ sock' = [sock EXCEPT ![s].ping = "idle"]
  /\ NoTrouble /\ UNCHANGED <<db, process, reqs, plan>>

\* No pong in time: the peer is gone, or only slow.
PingTimeout(s) ==
  /\ sock[s].st \in Live /\ sock[s].ping = "waiting"
  /\ IF sock[s].st = "dead" THEN UNCHANGED plan ELSE Fault
  /\ IF ~isShuttingDown /\ reconnect = "none" THEN ResetWebsocket(s, "terminated")
     ELSE sock' = [sock EXCEPT ![s].ping = "idle"] /\ NoTrouble
  /\ UNCHANGED <<db, process, reqs>>

\* The close events of a terminated websocket run before any timer.
TimersRun == \A s \in DOMAIN sock : sock[s].st \notin {"aborted", "terminated"}

Connected == websocket # 0 /\ sock[websocket].st \in Live

\* The ping interval of the last websocket is cleared before the next one.
Retire == [i \in DOMAIN sock |-> IF i = Len(sock) THEN [sock[i] EXCEPT !.ping = "off"] ELSE sock[i]]

DispatchLoop ==
  IF Connected THEN reconnect' = "spent" /\ UNCHANGED <<sock, websocket>>
  ELSE IF isShuttingDown THEN sock' = Retire /\ reconnect' = "none" /\ UNCHANGED websocket
  ELSE /\ sock' = Append(Retire, NewSocket)
       /\ websocket' = Len(sock) + 1
       /\ reconnect' = "none"

Reconnect ==
  /\ reconnect = "armed" /\ TimersRun
  /\ DispatchLoop /\ UNCHANGED <<db, process, reqs, plan>>

\* The constructor of the websocket throws: the catch of dispatchLoop.
ReconnectThrows ==
  /\ reconnect = "armed" /\ TimersRun /\ ~Connected
  /\ Fault /\ sock' = Retire /\ websocket' = 0 /\ reconnect' = "armed"
  /\ UNCHANGED <<db, process, reqs>>

(***************************************************************************)
(* The requests                                                            *)
(***************************************************************************)

RECURSIVE Tree(_, _)
Tree(d, ids) ==
  LET more == Children(d, ids) \ ids IN IF more = {} THEN ids ELSE Tree(d, ids \cup more)

\* What the answer "ok" will promise, settled when the request comes in.  The
\* global timeout is owed the workflows PENDING by then: one that is dequeued
\* between its listings escapes it.
Promises(q, d) ==
  LET named == IF q.deep THEN Tree(d, q.ids) ELSE q.ids
      all   == DOMAIN d.wf
  IN  CASE q.goal \in {"cancelled", "deleted", "resumed", "inserted", "schedule", "latest"} ->
             {q.goal} \X named
        [] q.goal = "recovered" ->
             {"recovered"} \X {w \in all : /\ d.wf[w].status = "PENDING"
                                           /\ d.wf[w].executor_id \in q.ids
                                           /\ d.wf[w].application_version = AppVersion}
        [] q.goal = "retained" ->
             ({"timedOut"} \X {w \in all : /\ d.wf[w].status = "PENDING"
                                            /\ d.wf[w].created_at <= q.cutoff})
             \cup ({"collected"} \X {w \in all : /\ d.wf[w].status \notin Queued
                                                 /\ d.wf[w].created_at < q.collect})
        [] q.goal = "none" -> {}

\* The promise p is kept in the database d.
Kept(p, d) ==
  LET there == p[2] \in DOMAIN d.wf
  IN  CASE p[1] = "cancelled" -> ~there \/ d.wf[p[2]].status \notin Queued
        [] p[1] = "timedOut"  -> ~there \/ d.wf[p[2]].status \notin Queued
                                       \/ d.wf[p[2]].executor_id = "local"
        [] p[1] = "deleted"   -> ~there
        [] p[1] = "resumed"   -> ~there \/ d.wf[p[2]].status # "CANCELLED"
        [] p[1] = "recovered" -> ~there \/ d.wf[p[2]].status # "PENDING"
                                       \/ d.wf[p[2]].executor_id = "local"
        [] p[1] = "collected" -> ~there \/ d.wf[p[2]].status \in Queued
        [] p[1] = "inserted"  -> there
        [] p[1] = "schedule"  -> d.sched \in {Null, p[2]}
        [] p[1] = "latest"    -> p[2] \in DOMAIN d.vers => p[2] \in getLatestApplicationVersion(d.vers)

Req(i) == Requests[plan.requests[i]]

\* Any message shows that the peer is alive.
Heard(s) == IF sock[s].ping = "waiting" THEN [sock EXCEPT ![s].ping = "idle"] ELSE sock

Received(i, s) ==
  reqs' = [reqs EXCEPT ![i] = [Waiting EXCEPT !.at = "running", !.on = s,
                                 !.rest = Req(i).program, !.owed = Promises(Req(i), db)]]

ReceiveMessage(i, s) ==
  /\ reqs[i].at = "unsent" /\ Req(i).via = "socket"
  /\ sock[s].st \in {"open", "closing"}
  /\ sock' = Heard(s) /\ Received(i, s)
  /\ NoTrouble /\ UNCHANGED <<db, process, plan>>

ReceiveHttp(i) ==
  /\ reqs[i].at = "unsent" /\ Req(i).via = "http"
  /\ admin /\ Received(i, 0)
  /\ UNCHANGED <<db, connection, admin, pool, plan>>

Running(i) == reqs[i].at = "running" /\ reqs[i].rest # <<>>

\* The exception of a statement ends a handler with the answer of its catch,
\* unless it swallows it.
Thrown(i, r) ==
  IF Req(i).swallows THEN [r EXCEPT !.rest = Tail(@), !.threw = TRUE]
  ELSE [r EXCEPT !.rest = <<>>, !.threw = TRUE, !.say = Req(i).caught]

After(i, e) ==
  LET r == [reqs[i] EXCEPT !.owed = {p \in @ : ~Kept(p, e.d)}]
  IN  CASE e.say = "none"  -> [r EXCEPT !.rest = e.then \o Tail(@)]
        [] e.say = "error" -> Thrown(i, r)
        [] OTHER           -> [r EXCEPT !.rest = <<>>, !.say = e.say]

RunStatement(i) ==
  /\ Running(i) /\ pool = "open"
  /\ \E e \in Execute(db, Head(reqs[i].rest)) :
       db' = e.d /\ reqs' = [reqs EXCEPT ![i] = After(i, e)]
  /\ UNCHANGED <<connection, admin, pool, plan>>

\* The connection to the database is lost before the statement or after it.
LoseDatabase(i) ==
  /\ Running(i) /\ pool = "open" /\ plan.failures > 0
  /\ plan' = [plan EXCEPT !.failures = @ - 1]
  /\ db' \in {db} \cup {e.d : e \in Execute(db, Head(reqs[i].rest))}
  /\ reqs' = [reqs EXCEPT ![i] = IF Retried(Head(@.rest)) THEN @ ELSE Thrown(i, @)]
  /\ UNCHANGED <<connection, admin, pool>>

\* A pool that has been ended refuses every statement.
PoolEnded(i) ==
  /\ Running(i) /\ pool = "ended"
  /\ reqs' = [reqs EXCEPT ![i] = Thrown(i, @)]
  /\ UNCHANGED <<db, connection, admin, pool, plan>>

Answer(i) == IF reqs[i].say = "none" THEN Req(i).answer ELSE reqs[i].say

\* The answer goes to the websocket the request came from: send() on one that
\* is no longer open does nothing.
Reply(i) ==
  /\ reqs[i].at = "running" /\ reqs[i].rest = <<>>
  /\ reqs' = [reqs EXCEPT ![i].say = Answer(i),
                          ![i].at = IF reqs[i].on = 0 \/ sock[reqs[i].on].st \in {"open", "dead"}
                                    THEN "answered" ELSE "dropped"]
  /\ UNCHANGED <<db, connection, admin, pool, plan>>

(***************************************************************************)
(* DBOS.shutdown and the engine                                            *)
(***************************************************************************)

Close(s) ==
  IF s.st = "connecting" THEN "aborted" ELSE IF s.st \in {"open", "dead"} THEN "closing" ELSE s.st

\* Conductor.stop, after the admin server was told to close.
Stop ==
  /\ plan.stop /\ ~isShuttingDown
  /\ admin' = FALSE /\ isShuttingDown' = TRUE /\ isClosed' = TRUE
  /\ sock' = IF websocket = 0 THEN Retire
             ELSE [Retire EXCEPT ![websocket].st = Close(Retire[websocket])]
  /\ reconnect' = IF reconnect = "armed" THEN "spent" ELSE reconnect
  /\ UNCHANGED <<db, websocket, pool, reqs, plan>>

\* The executor is destroyed and its pool ended.
DestroyExecutor ==
  /\ isClosed /\ pool = "open"
  /\ pool' = "ended" /\ UNCHANGED <<db, connection, admin, reqs, plan>>

Engine == plan.engine > 0 /\ pool = "open" /\ plan' = [plan EXCEPT !.engine = @ - 1]

Dequeue(w) ==
  /\ Engine /\ db.wf[w].status = "ENQUEUED"
  /\ db' = [db EXCEPT !.wf[w].status = "PENDING", !.wf[w].started_at = Now,
                      !.wf[w].executor_id = "local"]
  /\ UNCHANGED <<connection, admin, pool, reqs>>

Finish(w) ==
  /\ Engine /\ db.wf[w].status = "PENDING"
  /\ db' = [db EXCEPT !.wf[w].status = "SUCCESS", !.wf[w].completed_at = Now]
  /\ UNCHANGED <<connection, admin, pool, reqs>>

\* The timers and events of the connection, the handlers and the shutdown.
Progress ==
  \/ \E s \in DOMAIN sock : Open(s) \/ AbortError(s) \/ CloseEvent(s) \/ PingTimeout(s)
  \/ Reconnect \/ DestroyExecutor
  \/ \E i \in DOMAIN reqs : RunStatement(i) \/ PoolEnded(i) \/ Reply(i)

\* The ping interval and its pongs, which never end.
Pinging == \E s \in DOMAIN sock : PingTick(s) \/ Pong(s)

Next ==
  \/ Progress
  \/ Pinging
  \/ \E s \in DOMAIN sock :
       HandshakeFails(s) \/ SocketError(s) \/ PeerCloses(s) \/ PeerVanishes(s)
  \/ ReconnectThrows
  \/ \E i \in DOMAIN reqs : ReceiveHttp(i) \/ LoseDatabase(i)
  \/ \E i \in DOMAIN reqs, s \in DOMAIN sock : ReceiveMessage(i, s)
  \/ Stop
  \/ \E w \in DOMAIN db.wf : Dequeue(w) \/ Finish(w)

\* Timers fire, a peer that is there answers, and a promise that can settle does.
Spec == Init /\ [][Next]_vars /\ WF_vars(Progress) /\ WF_vars(Pinging)

(***************************************************************************)
(* Properties                                                              *)
(***************************************************************************)

\* However connections are lost, refused or given up, at most one websocket is
\* alive and it is this.websocket, only its pings run, no reconnection is
\* scheduled while it is alive, and a reconnection timer that is done is not
\* left behind to block the next one (resetWebsocket, dispatchLoop).
OneConnection ==
  /\ \A s \in DOMAIN sock : sock[s].st \in Live => s = websocket
  /\ \A s \in DOMAIN sock : sock[s].ping # "off" => s = websocket
  /\ reconnect = "armed" => ~Connected
  /\ reconnect = "spent" => isShuttingDown

\* Once connections stop being lost, an executor that is not shut down gets its
\* connection back and keeps it: no order of close, error, ping and timer events
\* leaves it without a websocket and without a timer that will open one (the
\* guards on reconnectTimeout in resetWebsocket, dispatchLoop and the events).
Reconnects ==
  <>[](isShuttingDown \/ (websocket # 0 /\ sock[websocket].st = "open"))

\* The descendants of the workflows of request i that a deletion by another
\* request has cut off: the cascades go from parent to child by the rows, and
\* read the children of a level only after they are done with the level.
CutOff(i, w) == Req(i).deep /\ w \notin Tree(db, Req(i).ids)

\* A request answered with success had, at some moment between its arrival and
\* its answer, the effect it names on each of its targets, whatever other
\* handlers and the engine did between its statements, but for descendants that
\* a concurrent deletion cut off; and no handler whose statement threw answers
\* with success, but for the two that are written to go on (the success flags
\* and results of the message cases, the status codes of the routes).
Acknowledged ==
  \A i \in DOMAIN reqs : reqs[i].at = "answered" /\ reqs[i].say = "ok" =>
    /\ \A p \in reqs[i].owed : CutOff(i, p[2])
    /\ reqs[i].threw => Req(i).swallows

=============================================================================
