---------------------------- MODULE DequeueProofs ----------------------------
(***************************************************************************)
(* Dequeuing keeps its promises (module Dequeue), for every number of      *)
(* executors and workflows, every configuration of the queue and any       *)
(* number of faults.  The second part is about its limits: the workflows   *)
(* that run on one executor, and the PENDING workflows of all of them,     *)
(* though each poll counts before it claims and claims what a snapshot     *)
(* shows.                                                                  *)
(***************************************************************************)
EXTENDS Dequeue, FiniteSetTheorems, TLAPS

\* The provers tried, in turn, on a leaf that names none.  Zenon comes first: its
\* translation is deterministic, that to SMT now and then runs out of time.
USE ZenonT(5), SMT, Zenon, Z3, SMTT(6), Z3T(6)

-----------------------------------------------------------------------------
(* The operators of the model.                                             *)

LEMMA WorkflowsFinite ==
    /\ IsFiniteSet(Workflows)
    /\ \A S \in SUBSET Workflows : IsFiniteSet(S) /\ Cardinality(S) \in Nat
  <1>1. IsFiniteSet(Workflows)
    BY FS_Interval, DequeueAssumption DEF Workflows
  <1> QED BY <1>1, FS_Subset, FS_CardinalityType

\* The first n in the order of the queue: with a row it has every row before it.
LEMMA FirstDownward ==
    ASSUME rows \in [Workflows -> RowType], NEW S \in SUBSET Workflows, NEW n \in Nat,
           NEW w \in First(S, n), NEW v \in S, rows[v].rank < rows[w].rank
    PROVE  v \in First(S, n)
  <1> DEFINE Before(x) == {y \in S : rows[y].rank < rows[x].rank}
  <1>1. w \in S /\ Cardinality(Before(w)) < n
    BY DEF First
  <1>2. \A x \in S : rows[x].rank \in Nat
    BY DEF RowType
  <1>3. Before(v) \in SUBSET Before(w) /\ Before(w) \in SUBSET Workflows
    BY <1>1, <1>2
  <1>4. Cardinality(Before(v)) <= Cardinality(Before(w)) /\ IsFiniteSet(Before(w))
    BY <1>3, WorkflowsFinite, FS_Subset
  <1>5. Cardinality(Before(v)) \in Nat /\ Cardinality(Before(w)) \in Nat
    BY <1>3, WorkflowsFinite
  <1>6. Cardinality(Before(v)) < n
    BY <1>1, <1>4, <1>5
  <1> QED BY <1>6 DEF First

\* LIMIT n gives no more than n rows, as no two rows share a place in the order.
LEMMA FirstBounded ==
    ASSUME rows \in [Workflows -> RowType], NEW S \in SUBSET Workflows, NEW n \in Nat,
           \A v, w \in S : v # w => rows[v].rank # rows[w].rank
    PROVE  /\ First(S, n) \in SUBSET S
           /\ Cardinality(First(S, n)) <= n
  <1> DEFINE Before(x) == {y \in S : rows[y].rank < rows[x].rank}
             F == First(S, n)
             f == [x \in F |-> Cardinality(Before(x))]
  <1>1. F \in SUBSET S
    BY DEF First
  <1>2. \A x \in S : rows[x].rank \in Nat
    BY DEF RowType
  <1>3. \A x \in S : Before(x) \in SUBSET Workflows /\ Cardinality(Before(x)) \in Nat
    BY WorkflowsFinite
  <1>4. \A x \in F : f[x] \in 0 .. n - 1
    BY <1>1, <1>3 DEF First
  <1>5. ASSUME NEW x \in F, NEW y \in F, rows[x].rank < rows[y].rank
        PROVE  f[x] # f[y]
    <2>1. x \in S /\ y \in S /\ x \in Before(y) /\ x \notin Before(x)
      BY <1>1, <1>2, <1>5
    <2>2. Before(x) \in SUBSET Before(y)
      BY <1>1, <1>2, <1>5, <2>1
    <2>3. Cardinality(Before(y)) = Cardinality(Before(x)) => Before(y) = Before(x)
      BY <1>3, <2>1, <2>2, WorkflowsFinite, FS_Subset
    <2> QED BY <2>1, <2>3
  <1>6. \A x, y \in F : x # y => f[x] # f[y]
    BY <1>1, <1>2, <1>5
  <1>7. f \in Injection(F, 0 .. n - 1)
    BY <1>4, <1>6 DEF Injection, IsInjective
  <1>8. IsFiniteSet(0 .. n - 1) /\ Cardinality(0 .. n - 1) = n
    BY FS_Interval
  <1> HIDE DEF F, f
  <1>9. Cardinality(F) <= n
    BY <1>7, <1>8, FS_Injection
  <1> QED BY <1>1, <1>9 DEF F

LEMMA MinusFacts ==
    ASSUME NEW a \in Nat, NEW b \in Nat
    PROVE  Minus(a, b) \in Nat /\ Smaller(a, b) \in Nat /\ Smaller(a, b) <= a /\ Smaller(a, b) <= b
  BY DEF Minus, Smaller

\* What a poll may claim, by the limits that there are.
LEMMA MaxTasksBounds ==
    ASSUME TypeOK, NEW local \in Nat
    PROVE  /\ MaxTasks(local) \in Nat
           /\ WorkerConcurrency # Null => MaxTasks(local) <= Minus(WorkerConcurrency, local)
           /\ Concurrency # Null => MaxTasks(local) <= Minus(Concurrency, Cardinality(Pending))
  <1> DEFINE all == Cardinality(Workflows)
             worker == IF WorkerConcurrency = Null THEN all ELSE Minus(WorkerConcurrency, local)
             global == IF Concurrency = Null THEN all ELSE Minus(Concurrency, Cardinality(Pending))
  <1>1. /\ WorkerConcurrency # Null => WorkerConcurrency \in Nat
        /\ Concurrency # Null => Concurrency \in Nat
    BY DEF TypeOK, QueueType, WorkerConcurrency, Concurrency
  <1>2. all \in Nat /\ Cardinality(Pending) \in Nat
    BY WorkflowsFinite DEF Pending
  <1>3. worker \in Nat /\ global \in Nat
    BY <1>1, <1>2, MinusFacts
  <1> QED BY <1>3, MinusFacts DEF MaxTasks

\* A change of rows makes snapshots stale and does nothing else to transactions.
LEMMA TouchFacts ==
    ASSUME NEW txs \in [Executors -> TxType], NEW S \in SUBSET Workflows
    PROVE  /\ Touch(txs, S) \in [Executors -> TxType]
           /\ \A e \in Executors :
                  /\ Touch(txs, S)[e].pc = txs[e].pc /\ Touch(txs, S)[e].local = txs[e].local
                  /\ Touch(txs, S)[e].max = txs[e].max /\ Touch(txs, S)[e].seen = txs[e].seen
                  /\ Touch(txs, S)[e].locked = txs[e].locked
                  /\ Touch(txs, S)[e].start = txs[e].start /\ Touch(txs, S)[e].recent = txs[e].recent
                  /\ Touch(txs, S)[e].claimed = txs[e].claimed
                  /\ txs[e].pc = "counted" => Touch(txs, S)[e].stale = txs[e].stale \cup S
  BY DEF Touch, TxType

LEMMA NoTxFacts ==
    /\ NoTx \in TxType
    /\ NoTx.pc = "idle" /\ NoTx.seen = {} /\ NoTx.locked = {} /\ NoTx.claimed = {}
  BY DequeueAssumption DEF NoTx, TxType

LEMMA NoRowFacts == NoRow \in RowType /\ NoRow.status = "NONE" /\ NoRow.version = "none"
  BY DequeueAssumption DEF NoRow, RowType

LEMMA FaultType ==
    ASSUME TypeOK, NEW kind, Fault(kind)
    PROVE  faults' \in [FaultKinds -> Nat]
  BY DEF TypeOK, QueueType, Fault

-----------------------------------------------------------------------------
(* What the steps of a poll do to the poll.                                *)

LEMMA PollQueueStep ==
    ASSUME TypeOK, NEW e \in Executors, PollQueue(e)
    PROVE  \E t \in TxType :
               /\ tx' = [tx EXCEPT ![e] = t] /\ t.pc = "connect"
               /\ t.local = Cardinality(running[e])
               /\ t.seen = {} /\ t.locked = {} /\ t.claimed = {}
  <1> DEFINE t == [NoTx EXCEPT !.pc = "connect", !.start = now, !.local = Cardinality(running[e])]
  <1>1. Cardinality(running[e]) \in Nat /\ now \in 0 .. MaxTime
    BY WorkflowsFinite DEF TypeOK
  <1>2. /\ t \in TxType /\ t.pc = "connect" /\ t.local = Cardinality(running[e])
        /\ t.seen = {} /\ t.locked = {} /\ t.claimed = {}
    BY <1>1, NoTxFacts DEF TxType
  <1>3. tx' = [tx EXCEPT ![e] = t]
    BY DEF PollQueue
  <1> HIDE DEF t
  <1> QED BY <1>2, <1>3

LEMMA CountTasksStep ==
    ASSUME TypeOK, NEW e \in Executors, CountTasks(e)
    PROVE  \/ tx' = [tx EXCEPT ![e] = NoTx]
           \/ \E t \in TxType :
                  /\ tx' = [tx EXCEPT ![e] = t] /\ t.pc = "counted"
                  /\ t.max = MaxTasks(tx[e].local) /\ t.max # 0
                  /\ t.seen = IF RepeatableRead THEN Eligible(e) ELSE {}
                  /\ t.local = tx[e].local /\ t.stale = tx[e].stale
                  /\ t.locked = tx[e].locked /\ t.claimed = tx[e].claimed
                  /\ t.start = tx[e].start
                  /\ RateLimit # Null =>
                         t.recent = Cardinality(RecentlyStarted(tx[e].start)) /\ t.recent < RateLimit
  <1> DEFINE recent == IF RateLimit = Null THEN 0 ELSE Cardinality(RecentlyStarted(tx[e].start))
             max == MaxTasks(tx[e].local)
             limited == (RateLimit # Null /\ recent >= RateLimit) \/ max = 0
             seen == IF RepeatableRead THEN Eligible(e) ELSE {}
             t == [tx[e] EXCEPT !.pc = "counted", !.recent = recent, !.max = max, !.seen = seen]
  <1>0. tx[e] \in TxType
    BY DEF TypeOK
  <1>1. recent \in Nat
    BY WorkflowsFinite DEF RecentlyStarted
  <1>2. max \in Nat
    BY <1>0, MaxTasksBounds DEF TxType
  <1>3. seen \in SUBSET Workflows
    BY DEF Eligible
  <1>4. tx' = [tx EXCEPT ![e] = IF limited THEN NoTx ELSE t]
    BY DEF CountTasks
  <1>5. /\ t \in TxType /\ t.pc = "counted" /\ t.max = max /\ t.seen = seen
        /\ t.local = tx[e].local /\ t.stale = tx[e].stale
        /\ t.locked = tx[e].locked /\ t.claimed = tx[e].claimed
    <2> HIDE DEF recent, max, seen
    <2> QED BY <1>0, <1>1, <1>2, <1>3 DEF TxType
  <1>6. ~limited => max # 0
    OBVIOUS
  <1>7. t.start = tx[e].start /\ t.recent = recent
    <2> HIDE DEF recent, max, seen
    <2> QED BY <1>0 DEF TxType
  <1>8. RateLimit # Null => recent = Cardinality(RecentlyStarted(tx[e].start))
    OBVIOUS
  <1>9. RateLimit # Null => RateLimit \in Nat
    BY DEF TypeOK, QueueType, RateLimit
  <1>10. ~limited /\ RateLimit # Null => recent < RateLimit
    <2> HIDE DEF recent, max
    <2> QED BY <1>1, <1>9
  <1> HIDE DEF t, recent
  <1> QED BY <1>4, <1>5, <1>6, <1>7, <1>8, <1>10

LEMMA SelectForUpdateStep ==
    ASSUME TypeOK, NEW e \in Executors, SelectForUpdate(e)
    PROVE  \/ tx' = [tx EXCEPT ![e] = NoTx]
           \/ \E t \in TxType :
                  /\ tx' = [tx EXCEPT ![e] = t] /\ t.pc = "selected"
                  /\ t.locked = First(Candidates(e), tx[e].max) /\ ~Contention(e, t.locked)
                  /\ t.local = tx[e].local /\ t.max = tx[e].max
                  /\ t.seen = tx[e].seen /\ t.claimed = tx[e].claimed
                  /\ t.start = tx[e].start /\ t.recent = tx[e].recent
  <1> DEFINE chosen == First(Candidates(e), tx[e].max)
             t == [tx[e] EXCEPT !.pc = "selected", !.locked = chosen]
  <1>0. tx[e] \in TxType
    BY DEF TypeOK
  <1>1. chosen \in SUBSET Workflows
    BY <1>0 DEF First, Candidates, Eligible, TxType
  <1>2. tx' = [tx EXCEPT ![e] = IF Contention(e, chosen) THEN NoTx ELSE t]
    BY DEF SelectForUpdate
  <1> HIDE DEF chosen
  <1>3. /\ t \in TxType /\ t.pc = "selected" /\ t.locked = chosen
        /\ t.local = tx[e].local /\ t.max = tx[e].max
        /\ t.seen = tx[e].seen /\ t.claimed = tx[e].claimed
        /\ t.start = tx[e].start /\ t.recent = tx[e].recent
    BY <1>0, <1>1 DEF TxType
  <1> HIDE DEF t
  <1> QED BY <1>2, <1>3 DEF chosen

\* The workflows claimed are locked rows that are still ENQUEUED, the first of them
\* in the order of the queue.
LEMMA MarkPendingStep ==
    ASSUME TypeOK, NEW e \in Executors, MarkPending(e)
    PROVE  \E C \in SUBSET tx[e].locked, t \in TxType :
               /\ \A w \in C : rows[w].status = "ENQUEUED"
               /\ \A w \in C, v \in tx[e].locked :
                      rows[v].status = "ENQUEUED" /\ rows[v].rank < rows[w].rank => v \in C
               /\ rows' = [w \in Workflows |->
                      IF w \in C THEN ClaimedRow(rows[w], e, tx[e].start) ELSE rows[w]]
               /\ tx' = Touch([tx EXCEPT ![e] = t], C)
               /\ t.pc \in {"idle", "dispatch"} /\ t.seen = {} /\ t.locked = {} /\ t.claimed = C
               /\ t.pc = "idle" => C = {}
               /\ RateLimit # Null =>
                      C = First({w \in tx[e].locked : rows[w].status = "ENQUEUED"},
                                Minus(RateLimit, tx[e].recent))
  <1> DEFINE startable == {w \in tx[e].locked : rows[w].status = "ENQUEUED"}
             n == Minus(RateLimit, tx[e].recent)
             C == IF RateLimit = Null THEN startable ELSE First(startable, n)
             t == IF C = {} THEN NoTx ELSE [NoTx EXCEPT !.pc = "dispatch", !.claimed = C]
  <1>0. /\ tx[e] \in TxType /\ rows \in [Workflows -> RowType]
        /\ RateLimit # Null => RateLimit \in Nat
    BY DEF TypeOK, QueueType, RateLimit
  <1>1. startable \in SUBSET Workflows /\ startable \in SUBSET tx[e].locked
    BY <1>0 DEF TxType
  <1>2. RateLimit # Null => n \in Nat
    BY <1>0, MinusFacts DEF TxType
  <1>3. C \in SUBSET startable
    BY DEF First
  <1>4. ASSUME NEW w \in C, NEW v \in startable, rows[v].rank < rows[w].rank
        PROVE  v \in C
    <2> HIDE DEF startable, n
    <2>1. CASE RateLimit = Null
      BY <2>1
    <2>2. CASE RateLimit # Null
      BY <1>0, <1>1, <1>2, <1>4, <2>2, FirstDownward
    <2> QED BY <2>1, <2>2
  <1>5. /\ rows' = [w \in Workflows |->
              IF w \in C THEN ClaimedRow(rows[w], e, tx[e].start) ELSE rows[w]]
        /\ tx' = Touch([tx EXCEPT ![e] = t], C)
    BY DEF MarkPending
  <1> HIDE DEF C
  <1>6. /\ t \in TxType /\ t.pc \in {"idle", "dispatch"} /\ t.seen = {} /\ t.locked = {}
        /\ t.claimed = C /\ (t.pc = "idle" => C = {})
    BY <1>1, <1>3, NoTxFacts DEF TxType
  <1>7. RateLimit # Null =>
            C = First({w \in tx[e].locked : rows[w].status = "ENQUEUED"}, Minus(RateLimit, tx[e].recent))
    BY DEF C
  <1>8. C \in SUBSET tx[e].locked /\ \A w \in C : rows[w].status = "ENQUEUED"
    BY <1>3
  <1>9. \A w \in C, v \in tx[e].locked :
            rows[v].status = "ENQUEUED" /\ rows[v].rank < rows[w].rank => v \in C
    BY <1>4
  <1> HIDE DEF t
  <1> QED BY <1>5, <1>6, <1>7, <1>8, <1>9

LEMMA DispatchedFacts ==
    ASSUME NEW t \in TxType, NEW w \in t.claimed
    PROVE  /\ Dispatched(t, w) \in TxType
           /\ Dispatched(t, w).claimed = t.claimed \ {w}
           /\ \/ Dispatched(t, w) = NoTx
              \/ Dispatched(t, w).pc = t.pc /\ Dispatched(t, w).locked = t.locked
  <1>1. CASE t.claimed = {w}
    BY <1>1, NoTxFacts DEF Dispatched
  <1>2. CASE t.claimed # {w}
    <2>1. Dispatched(t, w) = [t EXCEPT !.claimed = t.claimed \ {w}]
      BY <1>2 DEF Dispatched
    <2> QED BY <2>1 DEF TxType
  <1> QED BY <1>1, <1>2

-----------------------------------------------------------------------------
(* Who has a workflow, and who may claim it.                               *)

\* Where an executor has a workflow of the queue.
Places(e) == running[e] \cup ended[e] \cup tx[e].claimed

\* An executor has only workflows whose row names it, each in one place, and none
\* when it is down: this is what lets the sweep of its restart take them all.
OwnInv ==
    /\ \A e \in Executors : \A w \in Places(e) :
           rows[w].owner = e /\ rows[w].status \in {"PENDING", "CANCELLED"}
    /\ \A e \in Executors :
           /\ running[e] \cap ended[e] = {}
           /\ tx[e].claimed \cap (running[e] \cup ended[e]) = {}
           /\ ~up[e] => Places(e) = {} /\ tx[e].pc = "idle"

\* A row that is locked stays eligible for the one poller that locked it, and so
\* does what a snapshot has seen and nobody has touched since.
LockInv ==
    /\ \A e \in Executors :
           /\ tx[e].pc # "selected" => tx[e].locked = {}
           /\ tx[e].pc # "dispatch" => tx[e].claimed = {}
           /\ tx[e].pc = "counted" => tx[e].seen \ tx[e].stale \subseteq Eligible(e)
           /\ tx[e].locked \subseteq Eligible(e)
    /\ \A d, e \in Executors : d # e => tx[d].locked \cap tx[e].locked = {}

\* No two rows have the same place in the order of the queue, and a workflow that
\* was not enqueued yet has no version.
RankInv ==
    /\ \A v, w \in Workflows :
           v # w /\ rows[v].status # "NONE" /\ rows[w].status # "NONE" => rows[v].rank # rows[w].rank
    /\ \A w \in Workflows : rows[w].status = "NONE" => rows[w].version = "none"

Inv == TypeOK /\ OwnInv /\ LockInv /\ RankInv

LEMMA PlacesType == ASSUME TypeOK PROVE \A e \in Executors : Places(e) \subseteq Workflows
  BY DEF TypeOK, TxType, Places

LEMMA InvInit == Init => Inv
  <1> SUFFICES ASSUME Init PROVE Inv
    OBVIOUS
  <1>1. TypeOK
    BY NoTxFacts, NoRowFacts, DequeueAssumption DEF Init, TypeOK, Pending
  <1> QED BY <1>1, NoTxFacts, NoRowFacts DEF Init, Inv, OwnInv, LockInv, RankInv, Places

\* A step of a poll that leaves the rows alone.
LEMMA PollKeeps ==
    ASSUME Inv, NEW e \in Executors, NEW t \in TxType, tx' = [tx EXCEPT ![e] = t],
           UNCHANGED <<queue, rows, running, ended, up, now>>,
           faults' \in [FaultKinds -> Nat],
           t.claimed \subseteq tx[e].claimed,
           t.pc # "selected" => t.locked = {},
           t.pc # "dispatch" => t.claimed = {},
           t.pc = "counted" => t.seen \ t.stale \subseteq Eligible(e),
           t.locked \subseteq Eligible(e),
           ~up[e] => t.pc = "idle",
           \A d \in Executors \ {e} : tx[d].locked \cap t.locked = {}
    PROVE  Inv'
  <1>0. TypeOK /\ tx \in [Executors -> TxType]
    BY DEF Inv, TypeOK
  <1>1. \A x \in Executors : tx'[x] = IF x = e THEN t ELSE tx[x]
    BY <1>0
  <1>2. TypeOK'
    BY <1>0 DEF TypeOK, Pending
  <1>3. OwnInv'
    BY <1>1 DEF Inv, OwnInv, Places
  <1>4. \A x \in Executors : Eligible(x)' = Eligible(x)
    BY DEF Eligible, VersionOf
  <1>5. LockInv'
    <2>1. \A x \in Executors :
              /\ tx'[x].pc # "selected" => tx'[x].locked = {}
              /\ tx'[x].pc # "dispatch" => tx'[x].claimed = {}
              /\ tx'[x].pc = "counted" => tx'[x].seen \ tx'[x].stale \subseteq Eligible(x)
              /\ tx'[x].locked \subseteq Eligible(x)
      BY <1>1 DEF Inv, LockInv
    <2>2. \A c, d \in Executors : c # d => tx'[c].locked \cap tx'[d].locked = {}
      BY <1>1 DEF Inv, LockInv
    <2> QED BY <1>4, <2>1, <2>2 DEF LockInv
  <1>6. RankInv'
    BY DEF Inv, RankInv
  <1> QED BY <1>2, <1>3, <1>5, <1>6 DEF Inv

LEMMA InvPoll ==
    ASSUME Inv, NEW e \in Executors,
           PollQueue(e) \/ CountTasks(e) \/ SelectForUpdate(e) \/ PollFails(e)
    PROVE  Inv'
  <1>0. TypeOK /\ tx[e] \in TxType /\ faults \in [FaultKinds -> Nat]
    BY DEF Inv, TypeOK
  <1>1. ASSUME tx' = [tx EXCEPT ![e] = NoTx], faults' \in [FaultKinds -> Nat],
               UNCHANGED <<queue, rows, running, ended, up, now>>
        PROVE  Inv'
    BY <1>1, NoTxFacts, PollKeeps
  <1>2. CASE PollQueue(e)
    <2>0. UNCHANGED <<queue, rows, running, ended, up, now, faults>> /\ up[e]
      BY <1>2 DEF PollQueue
    <2>1. PICK t \in TxType : /\ tx' = [tx EXCEPT ![e] = t] /\ t.pc = "connect"
                              /\ t.seen = {} /\ t.locked = {} /\ t.claimed = {}
      BY <1>0, <1>2, PollQueueStep
    <2> QED BY <1>0, <2>0, <2>1, PollKeeps
  <1>3. CASE CountTasks(e)
    <2>0. UNCHANGED <<queue, rows, running, ended, up, now, faults>> /\ tx[e].pc = "connect"
      BY <1>3 DEF CountTasks
    <2>1. tx[e].locked = {} /\ tx[e].claimed = {} /\ up[e]
      BY <2>0 DEF Inv, LockInv, OwnInv
    <2>2. CASE tx' = [tx EXCEPT ![e] = NoTx]
      BY <1>0, <1>1, <2>0, <2>2
    <2>3. CASE tx' # [tx EXCEPT ![e] = NoTx]
      <3>1. PICK t \in TxType : /\ tx' = [tx EXCEPT ![e] = t] /\ t.pc = "counted"
                                /\ t.seen = IF RepeatableRead THEN Eligible(e) ELSE {}
                                /\ t.locked = tx[e].locked /\ t.claimed = tx[e].claimed
        BY <1>0, <1>3, <2>3, CountTasksStep
      <3>2. t.seen \subseteq Eligible(e)
        BY <3>1
      <3> QED BY <1>0, <2>0, <2>1, <3>1, <3>2, PollKeeps
    <2> QED BY <2>2, <2>3
  <1>4. CASE SelectForUpdate(e)
    <2>0. UNCHANGED <<queue, rows, running, ended, up, now, faults>> /\ tx[e].pc = "counted"
      BY <1>4 DEF SelectForUpdate
    <2>1. tx[e].claimed = {} /\ up[e]
      BY <2>0 DEF Inv, LockInv, OwnInv
    <2>2. CASE tx' = [tx EXCEPT ![e] = NoTx]
      BY <1>0, <1>1, <2>0, <2>2
    <2>3. CASE tx' # [tx EXCEPT ![e] = NoTx]
      <3>1. PICK t \in TxType : /\ tx' = [tx EXCEPT ![e] = t] /\ t.pc = "selected"
                                /\ t.locked = First(Candidates(e), tx[e].max)
                                /\ ~Contention(e, t.locked) /\ t.claimed = tx[e].claimed
        BY <1>0, <1>4, <2>3, SelectForUpdateStep
      <3>2. t.locked \subseteq Candidates(e)
        BY <3>1 DEF First
      <3>3. t.locked \subseteq Eligible(e)
        BY <2>0, <3>1, <3>2 DEF Candidates, Contention, Inv, LockInv
      <3>4. \A d \in Executors \ {e} : tx[d].locked \subseteq LockedByOthers(e)
        BY DEF LockedByOthers
      <3>5. \A d \in Executors \ {e} : tx[d].locked \cap t.locked = {}
        BY <3>1, <3>2, <3>4 DEF Candidates, Contention
      <3> QED BY <1>0, <2>0, <2>1, <3>1, <3>3, <3>5, PollKeeps
    <2> QED BY <2>2, <2>3
  <1>5. CASE PollFails(e)
    BY <1>0, <1>1, <1>5, FaultType DEF PollFails
  <1> QED BY <1>2, <1>3, <1>4, <1>5

LEMMA InvDispatch ==
    ASSUME Inv, NEW e \in Executors, NEW w \in Workflows, Dispatch(e, w) \/ DispatchFails(e, w)
    PROVE  Inv'
  <1>0. /\ TypeOK /\ tx \in [Executors -> TxType] /\ tx[e] \in TxType
        /\ faults \in [FaultKinds -> Nat] /\ running \in [Executors -> SUBSET Workflows]
    BY DEF Inv, TypeOK
  <1>1. w \in tx[e].claimed /\ tx' = [tx EXCEPT ![e] = Dispatched(tx[e], w)]
    BY DEF Dispatch, DispatchFails
  <1>2. PICK t \in TxType : t = Dispatched(tx[e], w)
    BY <1>0, <1>1, DispatchedFacts
  <1>3. /\ tx' = [tx EXCEPT ![e] = t] /\ t.claimed = tx[e].claimed \ {w}
        /\ t = NoTx \/ (t.pc = tx[e].pc /\ t.locked = tx[e].locked)
    BY <1>0, <1>1, <1>2, DispatchedFacts
  <1>4. tx[e].pc = "dispatch" /\ tx[e].locked = {} /\ up[e]
    BY <1>0, <1>1 DEF Inv, LockInv, OwnInv, Places
  <1>5. t.pc \in {"idle", "dispatch"} /\ t.locked = {} /\ (t.pc = "idle" => t.claimed = {})
    BY <1>3, <1>4, NoTxFacts
  <1>6. CASE DispatchFails(e, w)
    <2>1. /\ UNCHANGED <<queue, rows, running, ended, up, now>>
          /\ faults' \in [FaultKinds -> Nat]
      BY <1>0, <1>6, FaultType DEF DispatchFails
    <2>2. /\ t.claimed \subseteq tx[e].claimed
          /\ t.pc # "selected" => t.locked = {}
          /\ t.pc # "dispatch" => t.claimed = {}
          /\ t.pc = "counted" => t.seen \ t.stale \subseteq Eligible(e)
          /\ t.locked \subseteq Eligible(e)
          /\ ~up[e] => t.pc = "idle"
          /\ \A d \in Executors \ {e} : tx[d].locked \cap t.locked = {}
          /\ tx' = [tx EXCEPT ![e] = t]
      BY <1>3, <1>4, <1>5
    <2> QED BY <2>1, <2>2, PollKeeps
  <1>7. CASE Dispatch(e, w)
    <2>0. UNCHANGED <<queue, rows, ended, up, now, faults>>
      BY <1>7 DEF Dispatch
    <2>1. \A x \in Executors : tx'[x] = IF x = e THEN t ELSE tx[x]
      BY <1>0, <1>3
    <2>2. /\ running' \in [Executors -> SUBSET Workflows]
          /\ \A x \in Executors : x # e => running'[x] = running[x]
          /\ running'[e] = running[e] \/ running'[e] = running[e] \cup {w}
      BY <1>0, <1>7 DEF Dispatch
    <2>3. TypeOK'
      BY <1>0, <1>3, <2>0, <2>2 DEF TypeOK, Pending
    <2>4. \A x \in Executors : Places(x)' \subseteq Places(x)
      BY <1>1, <1>3, <2>0, <2>1, <2>2 DEF Places
    <2>5. \A x \in Executors :
              /\ running'[x] \cap ended[x] = {}
              /\ tx'[x].claimed \cap (running'[x] \cup ended[x]) = {}
      BY <1>1, <1>3, <2>1, <2>2 DEF Inv, OwnInv
    <2>6. OwnInv'
      BY <1>4, <2>0, <2>1, <2>4, <2>5 DEF Inv, OwnInv
    <2>7. \A x \in Executors : Eligible(x)' = Eligible(x)
      BY <2>0 DEF Eligible, VersionOf
    <2>8. LockInv'
      BY <1>5, <2>1, <2>7 DEF Inv, LockInv
    <2> QED BY <2>0, <2>3, <2>6, <2>8 DEF Inv, RankInv
  <1> QED BY <1>6, <1>7

\* Rows that nobody has locked change, and snapshots learn of it.
LEMMA RowsTouched ==
    ASSUME Inv, NEW S \in SUBSET Workflows, NEW txs \in [Executors -> TxType],
           \A x \in Executors :
               \/ txs[x] = tx[x]
               \/ /\ txs[x].pc \in {"idle", "dispatch"} /\ txs[x].locked = {}
                  /\ txs[x].pc = "idle" => txs[x].claimed = {},
           \A x \in Executors : txs[x].locked \cap S = {},
           UNCHANGED queue, tx' = Touch(txs, S),
           \A w \in Workflows \ S : rows'[w] = rows[w],
           \A w \in S : /\ rows[w].status # "NONE" /\ rows'[w].status # "NONE"
                         /\ rows'[w].rank = rows[w].rank
    PROVE  LockInv' /\ RankInv'
  <1>1. \A x \in Executors :
            /\ tx'[x].pc = txs[x].pc /\ tx'[x].seen = txs[x].seen
            /\ tx'[x].locked = txs[x].locked /\ tx'[x].claimed = txs[x].claimed
            /\ txs[x].pc = "counted" => tx'[x].stale = txs[x].stale \cup S
    BY TouchFacts
  <1>2. \A x \in Executors, w \in Workflows : w \in Eligible(x) /\ w \notin S => w \in Eligible(x)'
    BY DEF Eligible, VersionOf
  <1>3. \A x \in Executors : Eligible(x) \subseteq Workflows
    BY DEF Eligible
  <1>4. \A x \in Executors :
            /\ txs[x].pc # "selected" => txs[x].locked = {}
            /\ txs[x].pc # "dispatch" => txs[x].claimed = {}
            /\ txs[x].pc = "counted" => txs[x].seen \ txs[x].stale \subseteq Eligible(x)
            /\ txs[x].locked \subseteq Eligible(x)
    BY DEF Inv, LockInv
  <1>5. \A x \in Executors :
            /\ tx'[x].pc = "counted" => tx'[x].seen \ tx'[x].stale \subseteq Eligible(x)'
            /\ tx'[x].locked \subseteq Eligible(x)'
    BY <1>1, <1>2, <1>3, <1>4
  <1>6. \A d, e \in Executors : d # e => txs[d].locked \cap txs[e].locked = {}
    BY DEF Inv, LockInv
  <1>7. LockInv'
    BY <1>1, <1>4, <1>5, <1>6 DEF LockInv
  <1>8. RankInv'
    BY DEF Inv, RankInv
  <1> QED BY <1>7, <1>8

LEMMA ClaimedRowFacts ==
    ASSUME NEW row \in RowType, NEW e \in Executors, NEW start \in Nat
    PROVE  /\ ClaimedRow(row, e, start) \in RowType
           /\ ClaimedRow(row, e, start).status = "PENDING"
           /\ ClaimedRow(row, e, start).owner = e
           /\ ClaimedRow(row, e, start).version = VersionOf(e)
           /\ ClaimedRow(row, e, start).started = start
           /\ ClaimedRow(row, e, start).rank = row.rank
  <1>1. VersionOf(e) \in {"old", "latest", "none"}
    BY DEF VersionOf
  <1> QED BY <1>1 DEF ClaimedRow, RowType

LEMMA InvMarkPending ==
    ASSUME Inv, NEW e \in Executors, MarkPending(e)
    PROVE  Inv'
  <1>0. /\ TypeOK /\ tx \in [Executors -> TxType] /\ tx[e] \in TxType
        /\ rows \in [Workflows -> RowType]
    BY DEF Inv, TypeOK
  <1>1. PICK C \in SUBSET tx[e].locked, t \in TxType :
            /\ \A w \in C : rows[w].status = "ENQUEUED"
            /\ rows' = [w \in Workflows |->
                   IF w \in C THEN ClaimedRow(rows[w], e, tx[e].start) ELSE rows[w]]
            /\ tx' = Touch([tx EXCEPT ![e] = t], C)
            /\ t.pc \in {"idle", "dispatch"} /\ t.seen = {} /\ t.locked = {} /\ t.claimed = C
            /\ t.pc = "idle" => C = {}
    BY <1>0, MarkPendingStep
  <1>2. /\ UNCHANGED <<queue, running, ended, up, now, faults>> /\ tx[e].pc = "selected"
    BY DEF MarkPending
  <1>3. C \in SUBSET Workflows /\ tx[e].start \in Nat
    BY <1>0, DequeueAssumption DEF TxType
  <1>4. PICK txs \in [Executors -> TxType] : txs = [tx EXCEPT ![e] = t]
    BY <1>0
  <1>5. \A x \in Executors : txs[x] = IF x = e THEN t ELSE tx[x]
    BY <1>0, <1>4
  <1>6. /\ rows' \in [Workflows -> RowType]
        /\ \A w \in Workflows \ C : rows'[w] = rows[w]
        /\ \A w \in C : /\ rows'[w].status = "PENDING" /\ rows'[w].owner = e
                        /\ rows'[w].started \in Nat /\ rows'[w].rank = rows[w].rank
    BY <1>0, <1>1, <1>3, ClaimedRowFacts
  <1>7. \A x \in Executors : txs[x].locked \cap C = {}
    BY <1>1, <1>5 DEF Inv, LockInv
  <1>8. LockInv' /\ RankInv'
    <2>1. /\ UNCHANGED queue /\ tx' = Touch(txs, C)
          /\ \A w \in C : /\ rows[w].status # "NONE" /\ rows'[w].status # "NONE"
                          /\ rows'[w].rank = rows[w].rank
      BY <1>1, <1>2, <1>4, <1>6
    <2>2. \A x \in Executors :
              \/ txs[x] = tx[x]
              \/ /\ txs[x].pc \in {"idle", "dispatch"} /\ txs[x].locked = {}
                 /\ txs[x].pc = "idle" => txs[x].claimed = {}
      BY <1>1, <1>5
    <2> QED BY <1>3, <1>6, <1>7, <2>1, <2>2, RowsTouched
  <1>9. /\ tx' \in [Executors -> TxType]
        /\ \A x \in Executors : tx'[x].pc = txs[x].pc /\ tx'[x].claimed = txs[x].claimed
    <2>1. tx' = Touch(txs, C)
      BY <1>1, <1>4
    <2>2. /\ Touch(txs, C) \in [Executors -> TxType]
          /\ \A x \in Executors : /\ Touch(txs, C)[x].pc = txs[x].pc
                                  /\ Touch(txs, C)[x].claimed = txs[x].claimed
      BY <1>3, TouchFacts
    <2> QED BY <2>1, <2>2
  <1>10. TypeOK'
    <2>1. \A w \in Pending' : rows'[w].owner \in Executors /\ rows'[w].started # Null
      BY <1>0, <1>3, <1>6, DequeueAssumption DEF TypeOK, Pending
    <2> QED BY <1>0, <1>1, <1>2, <1>6, <1>9, <2>1 DEF TypeOK
  <1>11. \A x \in Executors : Places(x)' = IF x = e THEN Places(x) \cup C ELSE Places(x)
    <2>1. tx[e].claimed = {}
      BY <1>2 DEF Inv, LockInv
    <2> QED BY <1>1, <1>2, <1>5, <1>9, <2>1 DEF Places
  <1>12. \A x \in Executors : Places(x) \cap C = {} /\ Places(x) \subseteq Workflows
    BY <1>0, <1>1, PlacesType DEF Inv, OwnInv
  <1>13. OwnInv'
    <2>1. \A x \in Executors : \A w \in Places(x)' :
              rows'[w].owner = x /\ rows'[w].status \in {"PENDING", "CANCELLED"}
      BY <1>6, <1>11, <1>12 DEF Inv, OwnInv
    <2>2. \A x \in Executors :
              /\ running[x] \cap ended[x] = {}
              /\ tx'[x].claimed \cap (running[x] \cup ended[x]) = {}
      <3>1. \A x \in Executors : tx'[x].claimed = IF x = e THEN C ELSE tx[x].claimed
        BY <1>1, <1>5, <1>9
      <3>2. C \cap (running[e] \cup ended[e]) = {}
        BY <1>12 DEF Places
      <3> QED BY <3>1, <3>2 DEF Inv, OwnInv
    <2>3. up[e]
      BY <1>2 DEF Inv, OwnInv
    <2>4. \A x \in Executors : ~up[x] => Places(x)' = {} /\ tx'[x].pc = "idle"
      BY <1>5, <1>9, <1>11, <2>3 DEF Inv, OwnInv
    <2> QED BY <1>2, <2>1, <2>2, <2>4 DEF OwnInv
  <1> QED BY <1>8, <1>10, <1>13 DEF Inv

LEMMA InvEnqueue ==
    ASSUME Inv, NEW w \in Workflows, Enqueue(w)
    PROVE  Inv'
  <1>0. /\ TypeOK /\ rows \in [Workflows -> RowType] /\ tx \in [Executors -> TxType]
    BY DEF Inv, TypeOK
  <1>1. PICK rank \in (1 .. Cardinality(Workflows)) \ UsedRanks, version \in {"old", "latest", "none"} :
            rows' = [rows EXCEPT ![w] =
                [NoRow EXCEPT !.status = "ENQUEUED", !.version = version, !.rank = rank]]
    BY DEF Enqueue
  <1>2. rank \in Nat
    BY WorkflowsFinite
  <1>3. PICK row : row = [NoRow EXCEPT !.status = "ENQUEUED", !.version = version, !.rank = rank]
    OBVIOUS
  <1>4. row \in RowType /\ row.status = "ENQUEUED" /\ row.rank = rank
    BY <1>2, <1>3, NoRowFacts DEF RowType
  <1>5. rows' = [rows EXCEPT ![w] = row] /\ rows[w].status = "NONE"
    BY <1>1, <1>3 DEF Enqueue
  <1>6. \A v \in Workflows : rows'[v] = IF v = w THEN row ELSE rows[v]
    BY <1>0, <1>5
  <1>7. UNCHANGED <<queue, tx, running, ended, up, now, faults>>
    BY DEF Enqueue
  <1>8. TypeOK'
    BY <1>0, <1>4, <1>5, <1>6, <1>7 DEF TypeOK, Pending
  <1>9. OwnInv'
    <2>1. \A x \in Executors : Places(x)' = Places(x) /\ Places(x) \subseteq Workflows
      BY <1>0, <1>7, PlacesType DEF Places
    <2>2. \A x \in Executors : \A v \in Places(x)' :
              rows'[v].owner = x /\ rows'[v].status \in {"PENDING", "CANCELLED"}
      BY <1>5, <1>6, <2>1 DEF Inv, OwnInv
    <2> QED BY <1>7, <2>1, <2>2 DEF Inv, OwnInv
  <1>10. \A x \in Executors : Eligible(x) \subseteq Eligible(x)'
    BY <1>5, <1>6, <1>7 DEF Eligible, VersionOf
  <1>11. LockInv'
    BY <1>7, <1>10 DEF Inv, LockInv
  <1>12. \A v \in Workflows : rows[v].status # "NONE" => rows[v].rank # rank
    BY <1>1 DEF UsedRanks
  <1>13. RankInv'
    BY <1>4, <1>6, <1>12 DEF Inv, RankInv
  <1> QED BY <1>8, <1>9, <1>11, <1>13 DEF Inv

LEMMA InvFinishBody ==
    ASSUME Inv, NEW e \in Executors, NEW w \in Workflows, FinishBody(e, w)
    PROVE  Inv'
  <1>0. /\ TypeOK /\ running \in [Executors -> SUBSET Workflows]
        /\ ended \in [Executors -> SUBSET Workflows]
    BY DEF Inv, TypeOK
  <1>1. UNCHANGED <<queue, rows, tx, up, now, faults>> /\ w \in running[e]
    BY DEF FinishBody
  <1>2. /\ running' = [running EXCEPT ![e] = @ \ {w}] /\ ended' = [ended EXCEPT ![e] = @ \cup {w}]
    BY DEF FinishBody
  <1>3. \A x \in Executors : /\ running'[x] = IF x = e THEN running[x] \ {w} ELSE running[x]
                             /\ ended'[x] = IF x = e THEN ended[x] \cup {w} ELSE ended[x]
    BY <1>0, <1>2
  <1>4. TypeOK'
    BY <1>0, <1>1, <1>2 DEF TypeOK, Pending
  <1>5. \A x \in Executors : Places(x)' = Places(x)
    BY <1>1, <1>3 DEF Places
  <1>6. OwnInv'
    <2>1. \A x \in Executors : \A v \in Places(x)' :
              rows'[v].owner = x /\ rows'[v].status \in {"PENDING", "CANCELLED"}
      BY <1>1, <1>5 DEF Inv, OwnInv
    <2>2. \A x \in Executors :
              /\ running'[x] \cap ended'[x] = {}
              /\ tx'[x].claimed \cap (running'[x] \cup ended'[x]) = {}
      <3> SUFFICES ASSUME NEW x \in Executors
                   PROVE  /\ running'[x] \cap ended'[x] = {}
                          /\ tx'[x].claimed \cap (running'[x] \cup ended'[x]) = {}
        OBVIOUS
      <3>1. /\ running[x] \cap ended[x] = {} /\ tx[x].claimed \cap (running[x] \cup ended[x]) = {}
            /\ tx'[x].claimed = tx[x].claimed
        BY <1>1 DEF Inv, OwnInv
      <3> QED BY <1>1, <1>3, <3>1
    <2>3. \A x \in Executors : ~up'[x] => Places(x)' = {} /\ tx'[x].pc = "idle"
      BY <1>1, <1>5 DEF Inv, OwnInv
    <2> QED BY <2>1, <2>2, <2>3 DEF OwnInv
  <1> QED BY <1>1, <1>4, <1>6 DEF Inv, LockInv, RankInv, Eligible, VersionOf

LEMMA InvRecordOutcome ==
    ASSUME Inv, NEW e \in Executors, NEW w \in Workflows, RecordOutcome(e, w)
    PROVE  Inv'
  <1> DEFINE S == IF rows[w].status = "CANCELLED" THEN {} ELSE {w}
  <1>0. /\ TypeOK /\ ended \in [Executors -> SUBSET Workflows]
        /\ tx \in [Executors -> TxType] /\ rows \in [Workflows -> RowType]
    BY DEF Inv, TypeOK
  <1>1. /\ UNCHANGED <<queue, running, up, now, faults>> /\ w \in ended[e]
        /\ ended' = [ended EXCEPT ![e] = @ \ {w}] /\ tx' = Touch(tx, S)
        /\ rows' = [x \in Workflows |->
               IF x \in S THEN [rows[x] EXCEPT !.status = "DONE"] ELSE rows[x]]
    BY DEF RecordOutcome
  <1>2. S \in SUBSET Workflows /\ \A x \in S : x = w /\ rows[x].status = "PENDING"
    BY <1>0, <1>1 DEF Inv, OwnInv, Places
  <1>3. /\ rows' \in [Workflows -> RowType]
        /\ \A x \in Workflows \ S : rows'[x] = rows[x]
        /\ \A x \in S : rows'[x].status = "DONE" /\ rows'[x].rank = rows[x].rank
    <2> HIDE DEF S
    <2> QED BY <1>0, <1>1, <1>2 DEF RowType
  <1>4. \A x \in Executors : tx[x].locked \cap S = {}
    BY <1>2 DEF Inv, LockInv, Eligible
  <1> HIDE DEF S
  <1>5. LockInv' /\ RankInv'
    BY <1>0, <1>1, <1>2, <1>3, <1>4, RowsTouched
  <1>6. /\ tx' \in [Executors -> TxType]
        /\ \A x \in Executors : tx'[x].pc = tx[x].pc /\ tx'[x].claimed = tx[x].claimed
    BY <1>0, <1>1, <1>2, TouchFacts
  <1>7. TypeOK'
    BY <1>0, <1>1, <1>3, <1>6 DEF TypeOK, Pending
  <1>8. \A x \in Executors : ended'[x] = IF x = e THEN ended[x] \ {w} ELSE ended[x]
    BY <1>0, <1>1
  <1>9. \A x \in Executors : Places(x)' \subseteq Places(x) /\ w \notin Places(x)'
    BY <1>0, <1>1, <1>6, <1>8 DEF Inv, OwnInv, Places
  <1>10. OwnInv'
    <2>1. \A x \in Executors : \A v \in Places(x)' :
              rows'[v].owner = x /\ rows'[v].status \in {"PENDING", "CANCELLED"}
      BY <1>0, <1>2, <1>3, <1>9, PlacesType DEF Inv, OwnInv
    <2>2. \A x \in Executors :
              /\ running'[x] \cap ended'[x] = {}
              /\ tx'[x].claimed \cap (running'[x] \cup ended'[x]) = {}
      BY <1>1, <1>6, <1>8 DEF Inv, OwnInv
    <2>3. \A x \in Executors : ~up'[x] => Places(x)' = {} /\ tx'[x].pc = "idle"
      BY <1>1, <1>6, <1>9 DEF Inv, OwnInv
    <2> QED BY <2>1, <2>2, <2>3 DEF OwnInv
  <1> QED BY <1>5, <1>7, <1>10 DEF Inv

LEMMA InvCancel ==
    ASSUME Inv, NEW w \in Workflows, Cancel(w)
    PROVE  Inv'
  <1>0. /\ TypeOK /\ tx \in [Executors -> TxType] /\ rows \in [Workflows -> RowType]
    BY DEF Inv, TypeOK
  <1>1. /\ UNCHANGED <<queue, running, ended, up, now>> /\ tx' = Touch(tx, {w})
        /\ rows[w].status \in {"ENQUEUED", "PENDING"}
        /\ \A x \in Executors : tx[x].locked \cap {w} = {}
    BY DEF Cancel
  <1>2. /\ rows' \in [Workflows -> RowType]
        /\ \A x \in Workflows \ {w} : rows'[x] = rows[x]
        /\ rows'[w].status = "CANCELLED" /\ rows'[w].rank = rows[w].rank
        /\ rows'[w].owner = rows[w].owner
    BY <1>0 DEF Cancel, RowType
  <1>3. LockInv' /\ RankInv'
    BY <1>0, <1>1, <1>2, RowsTouched
  <1>4. /\ tx' \in [Executors -> TxType]
        /\ \A x \in Executors : tx'[x].pc = tx[x].pc /\ tx'[x].claimed = tx[x].claimed
    BY <1>0, <1>1, TouchFacts
  <1>5. faults' \in [FaultKinds -> Nat]
    BY <1>0, FaultType DEF Cancel
  <1>6. TypeOK'
    <2>1. \A x \in Pending' : x \in Pending /\ rows'[x] = rows[x]
      BY <1>2 DEF Pending
    <2> QED BY <1>0, <1>1, <1>2, <1>4, <1>5, <2>1 DEF TypeOK
  <1>7. \A x \in Executors : Places(x)' = Places(x) /\ Places(x) \subseteq Workflows
    BY <1>0, <1>1, <1>4, PlacesType DEF Places
  <1>8. OwnInv'
    <2>1. \A x \in Executors : \A v \in Places(x)' :
              rows'[v].owner = x /\ rows'[v].status \in {"PENDING", "CANCELLED"}
      BY <1>2, <1>7 DEF Inv, OwnInv
    <2>2. \A x \in Executors :
              /\ running'[x] \cap ended'[x] = {}
              /\ tx'[x].claimed \cap (running'[x] \cup ended'[x]) = {}
      BY <1>1, <1>4 DEF Inv, OwnInv
    <2>3. \A x \in Executors : ~up'[x] => Places(x)' = {} /\ tx'[x].pc = "idle"
      BY <1>1, <1>4, <1>7, ZenonT(30) DEF Inv, OwnInv
    <2> QED BY <2>1, <2>2, <2>3 DEF OwnInv
  <1> QED BY <1>3, <1>6, <1>8 DEF Inv

LEMMA InvCrash ==
    ASSUME Inv, NEW e \in Executors, Crash(e)
    PROVE  Inv'
  <1>0. /\ TypeOK /\ tx \in [Executors -> TxType] /\ running \in [Executors -> SUBSET Workflows]
        /\ ended \in [Executors -> SUBSET Workflows] /\ up \in [Executors -> BOOLEAN]
    BY DEF Inv, TypeOK
  <1>1. UNCHANGED <<queue, rows, now>> /\ faults' \in [FaultKinds -> Nat]
    BY <1>0, FaultType DEF Crash
  <1>2. /\ up' = [up EXCEPT ![e] = FALSE] /\ running' = [running EXCEPT ![e] = {}]
        /\ ended' = [ended EXCEPT ![e] = {}] /\ tx' = [tx EXCEPT ![e] = NoTx]
    BY DEF Crash
  <1>3. \A x \in Executors :
            /\ running'[x] = IF x = e THEN {} ELSE running[x]
            /\ ended'[x] = IF x = e THEN {} ELSE ended[x]
            /\ tx'[x] = IF x = e THEN NoTx ELSE tx[x]
    BY <1>0, <1>2
  <1>4. TypeOK'
    BY <1>0, <1>1, <1>2, NoTxFacts DEF TypeOK, Pending
  <1>5. \A x \in Executors : Places(x)' = IF x = e THEN {} ELSE Places(x)
    BY <1>3, NoTxFacts DEF Places
  <1>6. OwnInv'
    <2>1. \A x \in Executors : \A w \in Places(x)' :
              rows'[w].owner = x /\ rows'[w].status \in {"PENDING", "CANCELLED"}
      BY <1>1, <1>5 DEF Inv, OwnInv
    <2>2. \A x \in Executors :
              /\ running'[x] \cap ended'[x] = {}
              /\ tx'[x].claimed \cap (running'[x] \cup ended'[x]) = {}
      BY <1>3, NoTxFacts DEF Inv, OwnInv
    <2>3. \A x \in Executors : ~up'[x] => Places(x)' = {} /\ tx'[x].pc = "idle"
      <3>1. \A x \in Executors : ~up'[x] => x = e \/ ~up[x]
        BY <1>0, <1>2
      <3>2. \A x \in Executors : tx'[x] = IF x = e THEN NoTx ELSE tx[x]
        BY <1>3
      <3> QED BY <1>5, <3>1, <3>2, NoTxFacts DEF Inv, OwnInv
    <2> QED BY <2>1, <2>2, <2>3 DEF OwnInv
  <1>7. \A x \in Executors : Eligible(x)' = Eligible(x)
    BY <1>1 DEF Eligible, VersionOf
  <1>8. LockInv'
    BY <1>3, <1>7, NoTxFacts DEF Inv, LockInv
  <1> QED BY <1>1, <1>4, <1>6, <1>8 DEF Inv, RankInv

LEMMA InvRestart ==
    ASSUME Inv, NEW e \in Executors, Restart(e)
    PROVE  Inv'
  <1> DEFINE S == Recovered(e)
  <1>0. /\ TypeOK /\ tx \in [Executors -> TxType] /\ rows \in [Workflows -> RowType]
        /\ up \in [Executors -> BOOLEAN]
    BY DEF Inv, TypeOK
  <1>1. /\ UNCHANGED <<queue, running, ended, now, faults>> /\ tx' = Touch(tx, S)
        /\ ~up[e] /\ up' = [up EXCEPT ![e] = TRUE]
        /\ rows' = [w \in Workflows |->
               IF w \in S THEN [rows[w] EXCEPT !.status = "ENQUEUED", !.started = Null] ELSE rows[w]]
    BY DEF Restart
  <1>2. S \in SUBSET Workflows /\ \A w \in S : rows[w].status = "PENDING" /\ rows[w].owner = e
    BY DEF Recovered, Pending
  <1> HIDE DEF S
  <1>3. /\ rows' \in [Workflows -> RowType]
        /\ \A w \in Workflows \ S : rows'[w] = rows[w]
        /\ \A w \in S : rows'[w].status = "ENQUEUED" /\ rows'[w].rank = rows[w].rank
    BY <1>0, <1>1, <1>2, ZenonT(30) DEF RowType
  <1>4. \A x \in Executors : tx[x].locked \cap S = {}
    BY <1>2 DEF Inv, LockInv, Eligible
  <1>5. LockInv' /\ RankInv'
    BY <1>0, <1>1, <1>2, <1>3, <1>4, RowsTouched
  <1>6. /\ tx' \in [Executors -> TxType]
        /\ \A x \in Executors : tx'[x].pc = tx[x].pc /\ tx'[x].claimed = tx[x].claimed
    BY <1>0, <1>1, <1>2, TouchFacts
  <1>7. TypeOK'
    <2>1. \A w \in Pending' : w \in Pending /\ rows'[w] = rows[w]
      BY <1>3 DEF Pending
    <2>2. up' \in [Executors -> BOOLEAN]
      BY <1>0, <1>1
    <2> QED BY <1>0, <1>1, <1>3, <1>6, <2>1, <2>2 DEF TypeOK
  <1>8. \A x \in Executors : Places(x)' = Places(x) /\ Places(x) \subseteq Workflows
    BY <1>0, <1>1, <1>6, PlacesType DEF Places
  <1>9. ASSUME NEW x \in Executors, NEW w \in Places(x) PROVE w \notin S
    <2>1. rows[w].owner = x /\ up[x]
      BY <1>9 DEF Inv, OwnInv
    <2> QED BY <1>1, <1>2, <2>1
  <1>10. OwnInv'
    <2>1. \A x \in Executors : ~up'[x] => ~up[x]
      BY <1>0, <1>1
    <2>2. \A x \in Executors : \A w \in Places(x)' :
              rows'[w].owner = x /\ rows'[w].status \in {"PENDING", "CANCELLED"}
      BY <1>3, <1>8, <1>9 DEF Inv, OwnInv
    <2>3. \A x \in Executors : ~up'[x] => Places(x)' = {} /\ tx'[x].pc = "idle"
      BY <1>6, <1>8, <2>1 DEF Inv, OwnInv
    <2>4. \A x \in Executors :
              /\ running'[x] \cap ended'[x] = {}
              /\ tx'[x].claimed \cap (running'[x] \cup ended'[x]) = {}
      BY <1>1, <1>6 DEF Inv, OwnInv
    <2> QED BY <2>2, <2>3, <2>4 DEF OwnInv
  <1> QED BY <1>5, <1>7, <1>10 DEF Inv

LEMMA InvNext == ASSUME Inv, [Next]_vars PROVE Inv'
  <1>1. CASE UNCHANGED vars
    BY <1>1 DEF vars, Inv, TypeOK, OwnInv, LockInv, RankInv, Places, Eligible, VersionOf, Pending
  <1>2. queue.executors \subseteq Executors /\ queue.workflows \subseteq Workflows
    BY DEF Inv, TypeOK, QueueType
  <1>3. ASSUME NEW e \in Executors, PollStep(e) \/ PollFails(e)
        PROVE  Inv'
    BY <1>3, InvPoll, InvMarkPending, InvDispatch DEF PollStep
  <1>4. ASSUME NEW e \in Executors, NEW w \in Workflows,
               DispatchFails(e, w) \/ FinishBody(e, w) \/ RecordOutcome(e, w)
        PROVE  Inv'
    BY <1>4, InvDispatch, InvFinishBody, InvRecordOutcome
  <1>5. ASSUME NEW e \in Executors, Crash(e) \/ Restart(e) PROVE Inv'
    BY <1>5, InvCrash, InvRestart
  <1>6. ASSUME NEW w \in Workflows, Enqueue(w) \/ Cancel(w) PROVE Inv'
    BY <1>6, InvEnqueue, InvCancel
  <1>7. CASE Tick
    <2>1. now' \in 0 .. MaxTime /\ UNCHANGED <<queue, rows, tx, running, ended, up, faults>>
      BY <1>7, DequeueAssumption DEF Tick, Inv, TypeOK
    <2>2. TypeOK'
      BY <2>1 DEF Inv, TypeOK, Pending
    <2> QED BY <2>1, <2>2 DEF Inv, OwnInv, LockInv, RankInv, Places, Eligible, VersionOf
  <1>8. ASSUME NEW e \in queue.executors,
               \/ PollStep(e) \/ PollFails(e) \/ Crash(e) \/ Restart(e)
               \/ \E w \in Workflows : DispatchFails(e, w) \/ FinishBody(e, w) \/ RecordOutcome(e, w)
        PROVE  Inv'
    BY <1>2, <1>3, <1>4, <1>5, <1>8
  <1>9. CASE Progress
    BY <1>8, <1>9 DEF Progress
  <1> QED BY <1>1, <1>2, <1>6, <1>7, <1>8, <1>9 DEF Next

LEMMA InvAlways == Spec => []Inv
  BY InvInit, InvNext, PTL DEF Spec

\* Every table, map and transaction keeps its type, and a PENDING workflow has the
\* owner and the start time that recovery and the rate limiter look for.
THEOREM DequeueTypes == Spec => []TypeOK
  <1>1. Inv => TypeOK
    BY DEF Inv
  <1> QED BY <1>1, InvAlways, PTL

\* No workflow is in the hands of two executors, however their transactions, crashes
\* and recoveries interleave: locked rows are claimed by who locked them, and a
\* sweep finds only what its executor no longer has.
THEOREM ClaimsAreExclusive == Spec => []ClaimedByOne
  <1>1. Inv => ClaimedByOne
    BY DEF Inv, OwnInv, Places, ClaimedByOne
  <1> QED BY <1>1, InvAlways, PTL

\* The version of a workflow never changes once it has one: only its own version
\* claims it, as a poller that locks a row has checked the version under the lock
\* or in a snapshot that is still true of the row.
THEOREM VersionsAreKept == Spec => VersionKept
  <1>1. ASSUME Inv, [Next]_vars, NEW w \in Workflows, rows[w].version # "none"
        PROVE  rows'[w].version = rows[w].version
    <2>0. /\ TypeOK /\ rows \in [Workflows -> RowType] /\ tx \in [Executors -> TxType]
          /\ queue.executors \subseteq Executors /\ queue.workflows \subseteq Workflows
      BY <1>1 DEF Inv, TypeOK, QueueType
    <2>1. ASSUME NEW e \in Executors, MarkPending(e) PROVE rows'[w].version = rows[w].version
      <3>1. PICK C \in SUBSET tx[e].locked :
                /\ \A v \in C : rows[v].status = "ENQUEUED"
                /\ rows' = [v \in Workflows |->
                       IF v \in C THEN ClaimedRow(rows[v], e, tx[e].start) ELSE rows[v]]
        BY <2>0, <2>1, MarkPendingStep
      <3>2. w \in C => rows[w].version = VersionOf(e)
        BY <1>1 DEF Inv, LockInv, Eligible
      <3>3. tx[e].start \in Nat /\ rows[w] \in RowType
        BY <2>0, DequeueAssumption DEF TxType
      <3>4. ClaimedRow(rows[w], e, tx[e].start).version = VersionOf(e)
        BY <3>3, ClaimedRowFacts
      <3> QED BY <3>1, <3>2, <3>4
    <2>2. ASSUME NEW v \in Workflows, Enqueue(v) PROVE rows'[w].version = rows[w].version
      <3>1. CASE v # w
        BY <2>0, <2>2, <3>1 DEF Enqueue
      <3>2. v # w
        BY <1>1, <2>2 DEF Enqueue, Inv, RankInv
      <3> QED BY <3>1, <3>2
    <2>3. ASSUME NEW e \in Executors, NEW v \in Workflows, RecordOutcome(e, v)
          PROVE  rows'[w].version = rows[w].version
      BY <2>0, <2>3 DEF RecordOutcome, RowType
    <2>4. ASSUME NEW v \in Workflows, Cancel(v) PROVE rows'[w].version = rows[w].version
      BY <2>0, <2>4 DEF Cancel, RowType
    <2>5. ASSUME NEW e \in Executors, Restart(e) PROVE rows'[w].version = rows[w].version
      BY <2>0, <2>5 DEF Restart, RowType
    <2>6. ASSUME UNCHANGED rows PROVE rows'[w].version = rows[w].version
      BY <2>6
    <2> QED BY <1>1, <2>0, <2>1, <2>2, <2>3, <2>4, <2>5, <2>6
         DEF Next, Progress, PollStep, PollQueue, CountTasks, SelectForUpdate, Dispatch, PollFails,
             Crash, DispatchFails, FinishBody, Tick, vars
  <1>2. ASSUME Inv, [Next]_vars
        PROVE  [\A w \in Workflows : rows[w].version # "none" => rows'[w].version = rows[w].version]_vars
    BY <1>1, <1>2
  <1> QED BY <1>2, InvAlways, PTL DEF Spec, VersionKept

-----------------------------------------------------------------------------
(* Steps that limits need not tell apart.                                  *)

\* Rows that nobody has locked change: transactions only learn that a snapshot is
\* stale, and no row becomes PENDING.
RowStep ==
    /\ UNCHANGED <<queue, running>> /\ tx' \in [Executors -> TxType]
    /\ \A e \in Executors :
           /\ tx'[e].pc = tx[e].pc /\ tx'[e].local = tx[e].local /\ tx'[e].max = tx[e].max
           /\ tx'[e].seen = tx[e].seen /\ tx'[e].locked = tx[e].locked
           /\ tx'[e].claimed = tx[e].claimed
           /\ tx[e].pc = "counted" => tx[e].stale \subseteq tx'[e].stale
    /\ \A w \in Workflows :
           /\ rows[w].status # "NONE" => rows'[w].status # "NONE" /\ rows'[w].rank = rows[w].rank
           /\ rows'[w].version = rows[w].version
           /\ rows'[w].status = "PENDING" => rows[w].status = "PENDING"
           /\ rows'[w].status = "ENQUEUED" => rows[w].status \in {"ENQUEUED", "PENDING"}

LEMMA RowSteps ==
    ASSUME Inv,
           \/ \E e \in Executors : Restart(e) \/ \E w \in Workflows : RecordOutcome(e, w)
           \/ \E w \in Workflows : Cancel(w)
    PROVE  RowStep
  <1>0. tx \in [Executors -> TxType] /\ rows \in [Workflows -> RowType]
    BY DEF Inv, TypeOK
  <1>1. ASSUME NEW S \in SUBSET Workflows, tx' = Touch(tx, S), UNCHANGED <<queue, running>>,
               \A x \in Workflows \ S : rows'[x] = rows[x],
               \A x \in S : /\ rows[x].status \in {"ENQUEUED", "PENDING"}
                            /\ rows'[x].rank = rows[x].rank /\ rows'[x].version = rows[x].version
                            /\ rows'[x].status \in {"ENQUEUED", "DONE", "CANCELLED"}
        PROVE  RowStep
    <2>1. \A x \in Workflows :
              /\ rows[x].status # "NONE" => rows'[x].status # "NONE" /\ rows'[x].rank = rows[x].rank
              /\ rows'[x].version = rows[x].version
              /\ rows'[x].status = "PENDING" => rows[x].status = "PENDING"
              /\ rows'[x].status = "ENQUEUED" => rows[x].status \in {"ENQUEUED", "PENDING"}
      BY <1>1
    <2> QED BY <1>0, <1>1, <2>1, TouchFacts DEF RowStep
  <1>2. ASSUME NEW e \in Executors, NEW w \in Workflows, RecordOutcome(e, w) PROVE RowStep
    <2> DEFINE S == IF rows[w].status = "CANCELLED" THEN {} ELSE {w}
    <2>1. /\ w \in ended[e] /\ tx' = Touch(tx, S) /\ UNCHANGED <<queue, running>>
          /\ rows' = [x \in Workflows |->
                 IF x \in S THEN [rows[x] EXCEPT !.status = "DONE"] ELSE rows[x]]
      BY <1>2 DEF RecordOutcome
    <2>2. S \in SUBSET Workflows /\ \A x \in S : rows[x].status = "PENDING"
      BY <2>1 DEF Inv, OwnInv, Places
    <2> HIDE DEF S
    <2>3. /\ \A x \in Workflows \ S : rows'[x] = rows[x]
          /\ \A x \in S : /\ rows'[x].rank = rows[x].rank /\ rows'[x].version = rows[x].version
                         /\ rows'[x].status = "DONE"
      BY <1>0, <2>1, <2>2 DEF RowType
    <2> QED BY <1>1, <2>1, <2>2, <2>3
  <1>3. ASSUME NEW w \in Workflows, Cancel(w) PROVE RowStep
    <2>1. /\ \A x \in Workflows \ {w} : rows'[x] = rows[x]
          /\ rows'[w].rank = rows[w].rank /\ rows'[w].version = rows[w].version
          /\ rows'[w].status = "CANCELLED"
          /\ rows[w].status \in {"ENQUEUED", "PENDING"}
      BY <1>0, <1>3 DEF Cancel, RowType
    <2>2. tx' = Touch(tx, {w}) /\ UNCHANGED <<queue, running>>
      BY <1>3 DEF Cancel
    <2> QED BY <1>1, <2>1, <2>2
  <1>4. ASSUME NEW e \in Executors, Restart(e) PROVE RowStep
    <2> DEFINE S == Recovered(e)
    <2>1. /\ tx' = Touch(tx, S) /\ UNCHANGED <<queue, running>>
          /\ rows' = [x \in Workflows |->
                 IF x \in S THEN [rows[x] EXCEPT !.status = "ENQUEUED", !.started = Null] ELSE rows[x]]
      BY <1>4 DEF Restart
    <2>2. S \in SUBSET Workflows /\ \A x \in S : rows[x].status = "PENDING"
      BY DEF Recovered, Pending
    <2> HIDE DEF S
    <2>3. /\ \A x \in Workflows \ S : rows'[x] = rows[x]
          /\ \A x \in S : /\ rows'[x].rank = rows[x].rank /\ rows'[x].version = rows[x].version
                         /\ rows'[x].status = "ENQUEUED"
      BY <1>0, <2>1, <2>2 DEF RowType
    <2> QED BY <1>1, <2>1, <2>2, <2>3
  <1> QED BY <1>2, <1>3, <1>4

\* Polls end, or start what they have claimed, and functions return.
QuietStep ==
    /\ UNCHANGED <<queue, rows>>
    /\ tx' \in [Executors -> TxType] /\ running' \in [Executors -> SUBSET Workflows]
    /\ \A e \in Executors :
           /\ running'[e] \cup tx'[e].claimed \subseteq running[e] \cup tx[e].claimed
           /\ \/ tx'[e] = tx[e] /\ running'[e] \subseteq running[e]
              \/ tx'[e].pc \in {"idle", "dispatch"}

LEMMA QuietPoll ==
    ASSUME Inv, NEW e \in Executors, NEW t \in TxType, tx' = [tx EXCEPT ![e] = t],
           UNCHANGED <<queue, rows, running>>,
           t.pc \in {"idle", "dispatch"}, t.claimed \subseteq tx[e].claimed
    PROVE  QuietStep
  <1>1. tx \in [Executors -> TxType] /\ running \in [Executors -> SUBSET Workflows]
    BY DEF Inv, TypeOK
  <1>2. tx'[e] = t /\ \A x \in Executors \ {e} : tx'[x] = tx[x]
    BY <1>1
  <1>3. tx' \in [Executors -> TxType]
    BY <1>1
  <1> QED BY <1>1, <1>2, <1>3 DEF QuietStep

LEMMA QuietDispatch ==
    ASSUME Inv, NEW e \in Executors, NEW w \in Workflows, Dispatch(e, w) \/ DispatchFails(e, w)
    PROVE  QuietStep
  <1>0. /\ tx \in [Executors -> TxType] /\ tx[e] \in TxType
        /\ running \in [Executors -> SUBSET Workflows]
    BY DEF Inv, TypeOK
  <1>1. /\ w \in tx[e].claimed /\ tx' = [tx EXCEPT ![e] = Dispatched(tx[e], w)]
        /\ UNCHANGED <<queue, rows>>
    BY DEF Dispatch, DispatchFails
  <1>2. PICK t \in TxType : t = Dispatched(tx[e], w)
    BY <1>0, <1>1, DispatchedFacts
  <1>3. t.claimed = tx[e].claimed \ {w} /\ (t = NoTx \/ t.pc = tx[e].pc)
    BY <1>0, <1>1, <1>2, DispatchedFacts
  <1>4. tx[e].pc = "dispatch"
    BY <1>1 DEF Inv, LockInv
  <1>5. t.pc \in {"idle", "dispatch"}
    BY <1>3, <1>4, NoTxFacts
  <1>6. /\ tx'[e] = t /\ \A x \in Executors \ {e} : tx'[x] = tx[x]
        /\ tx' \in [Executors -> TxType]
    BY <1>0, <1>1, <1>2
  <1>7. running' = running \/ running' = [running EXCEPT ![e] = @ \cup {w}]
    BY <1>0 DEF Dispatch, DispatchFails
  <1>8. /\ running' \in [Executors -> SUBSET Workflows]
        /\ running'[e] \subseteq running[e] \cup {w}
        /\ \A x \in Executors \ {e} : running'[x] = running[x]
    BY <1>0, <1>7
  <1> QED BY <1>1, <1>3, <1>5, <1>6, <1>8 DEF QuietStep

BeginStep(e) ==
    /\ UNCHANGED <<queue, rows, running>>
    /\ \E t \in TxType :
           /\ tx' = [tx EXCEPT ![e] = t] /\ t.pc = "connect"
           /\ t.local = Cardinality(running[e]) /\ t.claimed = {}

CountStep(e) ==
    /\ UNCHANGED <<queue, rows, running>> /\ tx[e].pc = "connect"
    /\ \E t \in TxType :
           /\ tx' = [tx EXCEPT ![e] = t] /\ t.pc = "counted"
           /\ t.max = MaxTasks(tx[e].local) /\ t.max # 0 /\ t.local = tx[e].local
           /\ t.seen = IF RepeatableRead THEN Eligible(e) ELSE {}
           /\ t.claimed = {}

SelectStep(e) ==
    /\ UNCHANGED <<queue, rows, running>> /\ tx[e].pc = "counted"
    /\ \E t \in TxType :
           /\ tx' = [tx EXCEPT ![e] = t] /\ t.pc = "selected"
           /\ t.locked = First(Candidates(e), tx[e].max) /\ ~Contention(e, t.locked)
           /\ t.max = tx[e].max /\ t.local = tx[e].local /\ t.seen = tx[e].seen
           /\ t.claimed = {}

\* C is what is claimed: of the locked rows, the first ones.
ClaimStep(e, C) ==
    /\ UNCHANGED <<queue, running>> /\ tx[e].pc = "selected" /\ C \subseteq tx[e].locked
    /\ \A w \in C : /\ rows[w].status = "ENQUEUED" /\ rows'[w].status = "PENDING"
                   /\ rows'[w].version = VersionOf(e)
    /\ \A w \in C, v \in tx[e].locked : rows[v].rank < rows[w].rank => v \in C
    /\ \A w \in Workflows \ C : rows'[w] = rows[w]
    /\ \A w \in Workflows : rows'[w].rank = rows[w].rank
    /\ tx' \in [Executors -> TxType]
    /\ tx'[e].pc \in {"idle", "dispatch"} /\ tx'[e].claimed = C
    /\ \A x \in Executors \ {e} :
           /\ tx'[x].pc = tx[x].pc /\ tx'[x].local = tx[x].local /\ tx'[x].max = tx[x].max
           /\ tx'[x].seen = tx[x].seen /\ tx'[x].locked = tx[x].locked
           /\ tx'[x].claimed = tx[x].claimed
           /\ tx[x].pc = "counted" => tx'[x].stale = tx[x].stale \cup C

EnqueueStep(w) ==
    /\ UNCHANGED <<queue, tx, running>>
    /\ rows[w].status = "NONE" /\ rows'[w].status = "ENQUEUED"
    /\ ~queue.versioned => rows'[w].version = "none"
    /\ queue.inOrder =>
           \A v \in Workflows : rows[v].status # "NONE" => rows[v].rank < rows'[w].rank
    /\ \A v \in Workflows \ {w} : rows'[v] = rows[v]

LEMMA PollSteps ==
    ASSUME Inv, NEW e \in Executors,
           PollQueue(e) \/ CountTasks(e) \/ SelectForUpdate(e) \/ PollFails(e)
    PROVE  QuietStep \/ BeginStep(e) \/ CountStep(e) \/ SelectStep(e)
  <1>0. TypeOK /\ tx[e] \in TxType
    BY DEF Inv, TypeOK
  <1>1. UNCHANGED <<queue, rows, running>>
    BY DEF PollQueue, CountTasks, SelectForUpdate, PollFails
  <1>2. CASE tx' = [tx EXCEPT ![e] = NoTx]
    BY <1>1, <1>2, NoTxFacts, QuietPoll
  <1>3. CASE PollQueue(e)
    BY <1>0, <1>1, <1>3, PollQueueStep DEF BeginStep
  <1>4. CASE CountTasks(e)
    <2>1. tx[e].pc = "connect" /\ tx[e].claimed = {}
      BY <1>4 DEF CountTasks, Inv, LockInv
    <2> QED BY <1>0, <1>1, <1>2, <1>4, <2>1, CountTasksStep DEF CountStep
  <1>5. CASE SelectForUpdate(e)
    <2>1. tx[e].pc = "counted" /\ tx[e].claimed = {}
      BY <1>5 DEF SelectForUpdate, Inv, LockInv
    <2> QED BY <1>0, <1>1, <1>2, <1>5, <2>1, SelectForUpdateStep DEF SelectStep
  <1>6. CASE PollFails(e)
    BY <1>2, <1>6 DEF PollFails
  <1> QED BY <1>3, <1>4, <1>5, <1>6

LEMMA ClaimSteps ==
    ASSUME Inv, NEW e \in Executors, MarkPending(e)
    PROVE  \E C \in SUBSET Workflows : ClaimStep(e, C)
  <1>0. /\ TypeOK /\ tx \in [Executors -> TxType] /\ tx[e] \in TxType
        /\ rows \in [Workflows -> RowType]
    BY DEF Inv, TypeOK
  <1>1. PICK C \in SUBSET tx[e].locked, t \in TxType :
            /\ \A w \in C : rows[w].status = "ENQUEUED"
            /\ \A w \in C, v \in tx[e].locked :
                   rows[v].status = "ENQUEUED" /\ rows[v].rank < rows[w].rank => v \in C
            /\ rows' = [w \in Workflows |->
                   IF w \in C THEN ClaimedRow(rows[w], e, tx[e].start) ELSE rows[w]]
            /\ tx' = Touch([tx EXCEPT ![e] = t], C)
            /\ t.pc \in {"idle", "dispatch"} /\ t.claimed = C
    BY <1>0, MarkPendingStep
  <1>2. C \in SUBSET Workflows /\ tx[e].start \in Nat
    BY <1>0 DEF TxType
  <1>3. \A v \in tx[e].locked : rows[v].status = "ENQUEUED"
    BY DEF Inv, LockInv, Eligible
  <1>4. /\ \A w \in Workflows \ C : rows'[w] = rows[w]
        /\ \A w \in C : rows'[w] = ClaimedRow(rows[w], e, tx[e].start)
    BY <1>1, <1>2
  <1>5. \A w \in C : /\ rows'[w].status = "PENDING" /\ rows'[w].rank = rows[w].rank
                     /\ rows'[w].version = VersionOf(e)
    BY <1>0, <1>2, <1>4, ClaimedRowFacts
  <1>6. PICK txs \in [Executors -> TxType] : txs = [tx EXCEPT ![e] = t]
    BY <1>0
  <1>7. /\ txs[e].pc \in {"idle", "dispatch"} /\ txs[e].claimed = C
        /\ \A x \in Executors \ {e} : txs[x] = tx[x]
    BY <1>0, <1>1, <1>6
  <1>8. tx' = Touch(txs, C)
    BY <1>1, <1>6
  <1>9. /\ tx' \in [Executors -> TxType]
        /\ \A x \in Executors :
               /\ tx'[x].pc = txs[x].pc /\ tx'[x].local = txs[x].local /\ tx'[x].max = txs[x].max
               /\ tx'[x].seen = txs[x].seen /\ tx'[x].locked = txs[x].locked
               /\ tx'[x].claimed = txs[x].claimed
               /\ txs[x].pc = "counted" => tx'[x].stale = txs[x].stale \cup C
    BY <1>2, <1>8, TouchFacts
  <1>10. UNCHANGED <<queue, running>> /\ tx[e].pc = "selected"
    BY DEF MarkPending
  <1>11. /\ \A w \in Workflows : rows'[w].rank = rows[w].rank
         /\ \A w \in C, v \in tx[e].locked : rows[v].rank < rows[w].rank => v \in C
    BY <1>1, <1>3, <1>4, <1>5
  <1>12. /\ tx'[e].pc \in {"idle", "dispatch"} /\ tx'[e].claimed = C
         /\ \A x \in Executors \ {e} :
               /\ tx'[x].pc = tx[x].pc /\ tx'[x].local = tx[x].local /\ tx'[x].max = tx[x].max
               /\ tx'[x].seen = tx[x].seen /\ tx'[x].locked = tx[x].locked
               /\ tx'[x].claimed = tx[x].claimed
               /\ tx[x].pc = "counted" => tx'[x].stale = tx[x].stale \cup C
    BY <1>7, <1>9
  <1>13. ClaimStep(e, C)
    BY <1>1, <1>4, <1>5, <1>9, <1>10, <1>11, <1>12 DEF ClaimStep
  <1> QED BY <1>2, <1>13

LEMMA EnqueueSteps ==
    ASSUME Inv, NEW w \in Workflows, Enqueue(w)
    PROVE  EnqueueStep(w)
  <1>0. rows \in [Workflows -> RowType]
    BY DEF Inv, TypeOK
  <1>1. PICK rank \in (1 .. Cardinality(Workflows)) \ UsedRanks,
             version \in IF queue.versioned THEN {"old", "latest", "none"} ELSE {"none"} :
            /\ queue.inOrder => \A k \in UsedRanks : k < rank
            /\ rows' = [rows EXCEPT ![w] =
                   [NoRow EXCEPT !.status = "ENQUEUED", !.version = version, !.rank = rank]]
    BY DEF Enqueue
  <1>2. /\ rows'[w].status = "ENQUEUED" /\ rows'[w].version = version /\ rows'[w].rank = rank
        /\ \A v \in Workflows \ {w} : rows'[v] = rows[v]
    BY <1>0, <1>1 DEF NoRow
  <1>3. \A v \in Workflows : rows[v].status # "NONE" => rows[v].rank \in UsedRanks
    BY DEF UsedRanks
  <1>4. rows[w].status = "NONE" /\ UNCHANGED <<queue, tx, running>>
    BY DEF Enqueue
  <1> QED BY <1>1, <1>2, <1>3, <1>4 DEF EnqueueStep

\* A step, seen from the limits.
LimitStep ==
    \/ QuietStep \/ RowStep
    \/ \E e \in Executors : BeginStep(e) \/ CountStep(e) \/ SelectStep(e)
    \/ \E e \in Executors, C \in SUBSET Workflows : ClaimStep(e, C)
    \/ \E w \in Workflows : EnqueueStep(w)

LEMMA LimitSteps == ASSUME Inv, [Next]_vars PROVE LimitStep
  <1>0. /\ tx \in [Executors -> TxType] /\ running \in [Executors -> SUBSET Workflows]
        /\ queue.executors \subseteq Executors /\ queue.workflows \subseteq Workflows
    BY DEF Inv, TypeOK, QueueType
  <1>1. CASE UNCHANGED <<queue, rows, tx, running>>
    BY <1>0, <1>1 DEF LimitStep, QuietStep
  <1>2. CASE UNCHANGED vars \/ Tick
    BY <1>1, <1>2 DEF Tick, vars
  <1>3. ASSUME NEW e \in Executors, PollStep(e) \/ PollFails(e) PROVE LimitStep
    BY <1>3, PollSteps, ClaimSteps, QuietDispatch DEF PollStep, LimitStep
  <1>4. ASSUME NEW e \in Executors, NEW w \in Workflows, FinishBody(e, w) PROVE LimitStep
    <2>1. /\ running' = [running EXCEPT ![e] = @ \ {w}] /\ UNCHANGED <<queue, rows, tx>>
      BY <1>4 DEF FinishBody
    <2>2. /\ running' \in [Executors -> SUBSET Workflows]
          /\ \A x \in Executors : running'[x] \subseteq running[x]
      BY <1>0, <2>1
    <2> QED BY <1>0, <2>1, <2>2 DEF QuietStep, LimitStep
  <1>5. ASSUME NEW e \in Executors, Crash(e) PROVE LimitStep
    <2>1. /\ running' = [running EXCEPT ![e] = {}] /\ tx' = [tx EXCEPT ![e] = NoTx]
          /\ UNCHANGED <<queue, rows>>
      BY <1>5 DEF Crash
    <2>2. /\ running' \in [Executors -> SUBSET Workflows] /\ tx' \in [Executors -> TxType]
          /\ running'[e] = {} /\ tx'[e] = NoTx
          /\ \A x \in Executors \ {e} : running'[x] = running[x] /\ tx'[x] = tx[x]
      BY <1>0, <2>1, NoTxFacts
    <2> QED BY <2>1, <2>2, NoTxFacts DEF QuietStep, LimitStep
  <1>6. ASSUME NEW e \in Executors, NEW w \in Workflows,
               DispatchFails(e, w) \/ RecordOutcome(e, w)
        PROVE  LimitStep
    BY <1>6, QuietDispatch, RowSteps DEF LimitStep
  <1>7. ASSUME NEW e \in Executors, Restart(e) PROVE LimitStep
    BY <1>7, RowSteps DEF LimitStep
  <1>8. ASSUME NEW w \in Workflows, Enqueue(w) \/ Cancel(w) PROVE LimitStep
    BY <1>8, EnqueueSteps, RowSteps DEF LimitStep
  <1> QED BY <1>0, <1>2, <1>3, <1>4, <1>5, <1>6, <1>7, <1>8 DEF Next, Progress

-----------------------------------------------------------------------------
(* Snapshots.                                                              *)

\* A poll has seen and locked only rows that exist.
SeenInv ==
    \A e \in Executors : tx[e].pc \in {"counted", "selected"} =>
        \A w \in tx[e].seen : rows[w].status # "NONE"

LEMMA SeenNext == ASSUME Inv, SeenInv, [Next]_vars PROVE SeenInv'
  <1>0. tx \in [Executors -> TxType]
    BY DEF Inv, TypeOK
  <1>1. CASE QuietStep
    BY <1>1 DEF QuietStep, SeenInv
  <1>2. CASE RowStep
    BY <1>0, <1>2 DEF RowStep, SeenInv, TxType
  <1>3. ASSUME NEW e \in Executors, BeginStep(e) \/ SelectStep(e) PROVE SeenInv'
    BY <1>0, <1>3 DEF BeginStep, SelectStep, SeenInv
  <1>4. ASSUME NEW e \in Executors, CountStep(e) PROVE SeenInv'
    BY <1>0, <1>4 DEF CountStep, SeenInv, Eligible
  <1>5. ASSUME NEW e \in Executors, NEW C \in SUBSET Workflows, ClaimStep(e, C) PROVE SeenInv'
    <2>1. \A w \in Workflows : rows[w].status # "NONE" => rows'[w].status # "NONE"
      BY <1>5 DEF ClaimStep
    <2> QED BY <1>0, <1>5, <2>1 DEF ClaimStep, SeenInv, TxType
  <1>6. ASSUME NEW w \in Workflows, EnqueueStep(w) PROVE SeenInv'
    BY <1>0, <1>6 DEF EnqueueStep, SeenInv, TxType
  <1> QED BY <1>1, <1>2, <1>3, <1>4, <1>5, <1>6, LimitSteps DEF LimitStep

-----------------------------------------------------------------------------
(* The limit of an executor.                                               *)

\* What was counted is an upper bound, since the map only shrinks during a poll,
\* and what is counted, locked or claimed together stays within the limit.
WithinLimit(t, mine) ==
    /\ t.pc \in {"connect", "counted", "selected"} => Cardinality(mine) <= t.local
    /\ t.pc \in {"counted", "selected"} => t.local + t.max <= WorkerConcurrency
    /\ t.pc = "selected" => Cardinality(t.locked) <= t.max
    /\ Cardinality(mine \cup t.claimed) <= WorkerConcurrency

WorkerInv == WorkerConcurrency # Null => \A e \in Executors : WithinLimit(tx[e], running[e])

LEMMA SubsetCardinality ==
    ASSUME NEW S \in SUBSET Workflows, NEW T \in SUBSET S
    PROVE  Cardinality(T) \in Nat /\ Cardinality(S) \in Nat /\ Cardinality(T) <= Cardinality(S)
  <1>1. T \in SUBSET Workflows
    OBVIOUS
  <1> QED BY <1>1, WorkflowsFinite, FS_Subset

LEMMA UnionCardinality ==
    ASSUME NEW S \in SUBSET Workflows, NEW T \in SUBSET Workflows
    PROVE  /\ Cardinality(S) \in Nat /\ Cardinality(T) \in Nat /\ Cardinality(S \cup T) \in Nat
           /\ Cardinality(S \cup T) <= Cardinality(S) + Cardinality(T)
  <1>1. S \cap T \in SUBSET Workflows /\ S \cup T \in SUBSET Workflows
    OBVIOUS
  <1>2. /\ Cardinality(S) \in Nat /\ Cardinality(T) \in Nat /\ Cardinality(S \cap T) \in Nat
        /\ IsFiniteSet(S) /\ IsFiniteSet(T) /\ Cardinality(S \cup T) \in Nat
    BY <1>1, WorkflowsFinite
  <1>3. Cardinality(S \cup T) = Cardinality(S) + Cardinality(T) - Cardinality(S \cap T)
    BY <1>2, FS_Union
  <1> QED BY <1>2, <1>3

\* The limit is kept when workflows leave the map and the poll goes on, or ends.
LEMMA LimitShrinks ==
    ASSUME NEW t \in TxType, NEW u \in TxType, NEW R \in SUBSET Workflows, NEW Q \in SUBSET R,
           WorkerConcurrency \in Nat, WithinLimit(t, R),
           \/ u.pc \in {"idle", "dispatch"}
           \/ u.pc = t.pc /\ u.local = t.local /\ u.max = t.max /\ u.locked = t.locked,
           u.claimed \subseteq t.claimed
    PROVE  WithinLimit(u, Q)
  <1>1. /\ Cardinality(Q) \in Nat /\ Cardinality(R) \in Nat /\ Cardinality(Q) <= Cardinality(R)
    BY SubsetCardinality
  <1>2. R \cup t.claimed \in SUBSET Workflows /\ Q \cup u.claimed \in SUBSET (R \cup t.claimed)
    BY DEF TxType
  <1>3. /\ Cardinality(Q \cup u.claimed) \in Nat /\ Cardinality(R \cup t.claimed) \in Nat
        /\ Cardinality(Q \cup u.claimed) <= Cardinality(R \cup t.claimed)
    BY <1>2, SubsetCardinality
  <1>4. t.local \in Nat
    BY DEF TxType
  <1> QED BY <1>1, <1>3, <1>4 DEF WithinLimit

LEMMA WorkerInit == Init => WorkerInv
  <1> SUFFICES ASSUME Init, WorkerConcurrency # Null, NEW e \in Executors
               PROVE  WithinLimit(tx[e], running[e])
    BY DEF WorkerInv
  <1>1. queue \in QueueType
    BY DequeueAssumption DEF Init
  <1>2. WorkerConcurrency \in Nat
    BY <1>1 DEF WorkerConcurrency, QueueType
  <1>3. tx[e] = NoTx /\ running[e] = {}
    BY DEF Init
  <1>4. running[e] \cup tx[e].claimed = {}
    BY <1>3, NoTxFacts
  <1> QED BY <1>2, <1>3, <1>4, NoTxFacts, FS_EmptySet DEF WithinLimit

\* Another executor's step, or one that only lets workflows go.
LEMMA WorkerKept ==
    ASSUME Inv, WorkerInv, WorkerConcurrency # Null, UNCHANGED queue,
           tx' \in [Executors -> TxType], running' \in [Executors -> SUBSET Workflows],
           NEW e \in Executors,
           running'[e] \subseteq running[e],
           \/ tx'[e].pc \in {"idle", "dispatch"}
           \/ /\ tx'[e].pc = tx[e].pc /\ tx'[e].local = tx[e].local
              /\ tx'[e].max = tx[e].max /\ tx'[e].locked = tx[e].locked,
           tx'[e].claimed \subseteq tx[e].claimed
    PROVE  WithinLimit(tx[e], running[e])'
  <1>1. tx[e] \in TxType /\ running[e] \in SUBSET Workflows /\ WorkerConcurrency \in Nat
    BY DEF Inv, TypeOK, WorkerConcurrency, QueueType
  <1>2. tx'[e] \in TxType /\ running'[e] \in SUBSET running[e] /\ WithinLimit(tx[e], running[e])
    BY DEF WorkerInv
  <1>3. WithinLimit(tx'[e], running'[e])
    BY <1>1, <1>2, LimitShrinks
  <1>4. WorkerConcurrency' = WorkerConcurrency
    BY DEF WorkerConcurrency
  <1> QED BY <1>3, <1>4 DEF WithinLimit

\* What a poll selects: of rows that exist, as many as it may claim.
LEMMA SelectedFacts ==
    ASSUME Inv, SeenInv, NEW e \in Executors, tx[e].pc = "counted"
    PROVE  /\ Candidates(e) \in SUBSET Workflows
           /\ First(Candidates(e), tx[e].max) \in SUBSET Candidates(e)
           /\ Cardinality(First(Candidates(e), tx[e].max)) <= tx[e].max
  <1>0. /\ rows \in [Workflows -> RowType] /\ tx[e].max \in Nat
        /\ tx[e].seen \in SUBSET Workflows
    BY DEF Inv, TypeOK, TxType
  <1>1. Candidates(e) \subseteq tx[e].seen \/ Candidates(e) \subseteq Eligible(e)
    BY DEF Candidates
  <1>2. /\ Candidates(e) \in SUBSET Workflows
        /\ \A w \in Candidates(e) : rows[w].status # "NONE"
    BY <1>0, <1>1 DEF Eligible, SeenInv
  <1>3. \A v, w \in Candidates(e) : v # w => rows[v].rank # rows[w].rank
    BY <1>2 DEF Inv, RankInv
  <1> QED BY <1>0, <1>2, <1>3, FirstBounded

LEMMA WorkerNext == ASSUME Inv, SeenInv, WorkerInv, [Next]_vars PROVE WorkerInv'
  <1>0. /\ tx \in [Executors -> TxType] /\ running \in [Executors -> SUBSET Workflows]
        /\ queue \in QueueType /\ TypeOK
    BY DEF Inv, TypeOK
  <1>1. LimitStep
    BY LimitSteps
  <1>2. UNCHANGED queue
    BY <1>1 DEF LimitStep, QuietStep, RowStep, BeginStep, CountStep, SelectStep, ClaimStep, EnqueueStep
  <1> SUFFICES ASSUME WorkerConcurrency # Null, NEW x \in Executors
               PROVE  WithinLimit(tx[x], running[x])'
    BY <1>2 DEF WorkerInv, WorkerConcurrency
  <1>3. WorkerConcurrency \in Nat /\ WorkerConcurrency' = WorkerConcurrency
    BY <1>0, <1>2 DEF WorkerConcurrency, QueueType
  <1>4. WithinLimit(tx[x], running[x])
    BY DEF WorkerInv
  <1>5. /\ tx[x] \in TxType /\ running[x] \in SUBSET Workflows
        /\ tx[x].local \in Nat /\ tx[x].max \in Nat /\ tx[x].claimed \in SUBSET Workflows
    BY <1>0 DEF TxType
  <1>6. Cardinality(running[x]) \in Nat
    BY <1>5, WorkflowsFinite
  \* A poll of another executor.
  <1>7. ASSUME NEW e \in Executors, NEW t \in TxType, tx' = [tx EXCEPT ![e] = t], x # e,
               UNCHANGED running
        PROVE  WithinLimit(tx[x], running[x])'
    <2>1. tx'[x] = tx[x] /\ tx' \in [Executors -> TxType] /\ running' \in [Executors -> SUBSET Workflows]
      BY <1>0, <1>7
    <2> QED BY <1>2, <1>7, <2>1, WorkerKept
  <1>8. CASE QuietStep
    <2>1. /\ tx' \in [Executors -> TxType] /\ running' \in [Executors -> SUBSET Workflows]
          /\ running'[x] \cup tx'[x].claimed \subseteq running[x] \cup tx[x].claimed
      BY <1>8 DEF QuietStep
    <2>2. CASE tx'[x] = tx[x] /\ running'[x] \subseteq running[x]
      BY <1>2, <2>1, <2>2, WorkerKept
    <2>3. CASE tx'[x].pc \in {"idle", "dispatch"}
      <3>1. running[x] \cup tx[x].claimed \in SUBSET Workflows
        BY <1>5
      <3>2. PICK T \in SUBSET (running[x] \cup tx[x].claimed) : T = running'[x] \cup tx'[x].claimed
        BY <2>1
      <3>3. /\ Cardinality(T) \in Nat /\ Cardinality(running[x] \cup tx[x].claimed) \in Nat
            /\ Cardinality(T) <= Cardinality(running[x] \cup tx[x].claimed)
        BY <3>1, SubsetCardinality
      <3> QED BY <1>3, <1>4, <2>3, <3>2, <3>3 DEF WithinLimit
    <2> QED BY <1>8, <2>2, <2>3 DEF QuietStep
  <1>9. CASE RowStep
    <2>1. /\ tx' \in [Executors -> TxType] /\ running' = running
          /\ tx'[x].pc = tx[x].pc /\ tx'[x].local = tx[x].local /\ tx'[x].max = tx[x].max
          /\ tx'[x].locked = tx[x].locked /\ tx'[x].claimed = tx[x].claimed
      BY <1>9 DEF RowStep
    <2> QED BY <1>0, <1>2, <2>1, WorkerKept
  <1>10. ASSUME NEW e \in Executors, BeginStep(e) PROVE WithinLimit(tx[x], running[x])'
    <2>1. PICK t \in TxType :
              /\ tx' = [tx EXCEPT ![e] = t] /\ t.pc = "connect"
              /\ t.local = Cardinality(running[e]) /\ t.claimed = {}
      BY <1>10 DEF BeginStep
    <2>2. UNCHANGED running
      BY <1>10 DEF BeginStep
    <2>3. CASE x = e
      <3>1. tx'[x] = t
        BY <1>0, <2>1, <2>3
      <3>2. running[x] \in SUBSET (running[x] \cup tx[x].claimed)
        OBVIOUS
      <3>3. running[x] \cup tx[x].claimed \in SUBSET Workflows
        BY <1>5
      <3>4. /\ Cardinality(running[x] \cup tx[x].claimed) \in Nat
            /\ Cardinality(running[x]) <= Cardinality(running[x] \cup tx[x].claimed)
        BY <3>2, <3>3, SubsetCardinality
      <3>5. Cardinality(running[x]) <= WorkerConcurrency
        BY <1>3, <1>4, <1>6, <3>4 DEF WithinLimit
      <3>6. running'[x] \cup tx'[x].claimed = running[x]
        BY <2>1, <2>2, <3>1
      <3>7. tx'[x].pc = "connect" /\ Cardinality(running'[x]) <= tx'[x].local
        BY <1>6, <2>1, <2>2, <2>3, <3>1
      <3> QED BY <1>3, <3>5, <3>6, <3>7 DEF WithinLimit
    <2> QED BY <1>7, <2>1, <2>2, <2>3
  <1>11. ASSUME NEW e \in Executors, CountStep(e) PROVE WithinLimit(tx[x], running[x])'
    <2>1. PICK t \in TxType :
              /\ tx' = [tx EXCEPT ![e] = t] /\ t.pc = "counted" /\ t.claimed = {}
              /\ t.max = MaxTasks(tx[e].local) /\ t.max # 0 /\ t.local = tx[e].local
      BY <1>11 DEF CountStep
    <2>2. UNCHANGED running /\ tx[e].pc = "connect"
      BY <1>11 DEF CountStep
    <2>3. CASE x = e
      <3>1. tx'[x] = t /\ t.max \in Nat
        BY <1>0, <2>1, <2>3 DEF TxType
      <3>2. t.max <= Minus(WorkerConcurrency, tx[x].local)
        BY <1>0, <1>5, <2>1, <2>3, MaxTasksBounds
      <3>3. t.local + t.max <= WorkerConcurrency
        BY <1>3, <1>5, <2>1, <2>3, <3>1, <3>2 DEF Minus
      <3>4. Cardinality(running[x]) <= t.local
        BY <1>4, <2>1, <2>2, <2>3 DEF WithinLimit
      <3>5. running'[x] \cup tx'[x].claimed = running[x]
        BY <2>1, <2>2, <3>1
      <3>6. Cardinality(running[x]) <= WorkerConcurrency
        BY <1>3, <1>5, <1>6, <2>1, <2>3, <3>1, <3>3, <3>4
      <3> QED BY <1>3, <2>1, <2>2, <3>1, <3>3, <3>4, <3>5, <3>6 DEF WithinLimit
    <2> QED BY <1>7, <2>1, <2>2, <2>3
  <1>12. ASSUME NEW e \in Executors, SelectStep(e) PROVE WithinLimit(tx[x], running[x])'
    <2>1. PICK t \in TxType :
              /\ tx' = [tx EXCEPT ![e] = t] /\ t.pc = "selected" /\ t.claimed = {}
              /\ t.locked = First(Candidates(e), tx[e].max)
              /\ t.max = tx[e].max /\ t.local = tx[e].local
      BY <1>12 DEF SelectStep
    <2>2. UNCHANGED running /\ tx[e].pc = "counted"
      BY <1>12 DEF SelectStep
    <2>3. CASE x = e
      <3>1. tx'[x] = t
        BY <1>0, <2>1, <2>3
      <3>2. Cardinality(t.locked) <= t.max
        BY <2>1, <2>2, SelectedFacts
      <3>3. running'[x] \cup tx'[x].claimed = running[x]
        BY <2>1, <2>2, <3>1
      <3>4. Cardinality(running[x]) <= t.local /\ t.local + t.max <= WorkerConcurrency
        BY <1>4, <2>1, <2>2, <2>3 DEF WithinLimit
      <3>5. Cardinality(running[x]) <= WorkerConcurrency
        BY <1>3, <1>5, <1>6, <2>1, <2>3, <3>4
      <3> QED BY <1>3, <2>1, <2>2, <3>1, <3>2, <3>3, <3>4, <3>5 DEF WithinLimit
    <2> QED BY <1>7, <2>1, <2>2, <2>3
  <1>13. ASSUME NEW e \in Executors, NEW C \in SUBSET Workflows, ClaimStep(e, C)
         PROVE  WithinLimit(tx[x], running[x])'
    <2>1. UNCHANGED running /\ tx' \in [Executors -> TxType]
      BY <1>13 DEF ClaimStep
    <2>2. CASE x # e
      <3>1. /\ tx'[x].pc = tx[x].pc /\ tx'[x].local = tx[x].local /\ tx'[x].max = tx[x].max
            /\ tx'[x].locked = tx[x].locked /\ tx'[x].claimed = tx[x].claimed
        BY <1>13, <2>2 DEF ClaimStep
      <3> QED BY <1>0, <1>2, <2>1, <3>1, WorkerKept
    <2>3. CASE x = e
      <3>1. /\ tx[x].pc = "selected" /\ C \in SUBSET tx[x].locked
            /\ tx'[x].pc \in {"idle", "dispatch"} /\ tx'[x].claimed = C
        BY <1>13, <2>3 DEF ClaimStep
      <3>2. /\ Cardinality(running[x]) <= tx[x].local
            /\ tx[x].local + tx[x].max <= WorkerConcurrency
            /\ Cardinality(tx[x].locked) <= tx[x].max
        BY <1>4, <3>1 DEF WithinLimit
      <3>3. tx[x].locked \in SUBSET Workflows
        BY <1>5 DEF TxType
      <3>4. /\ Cardinality(C) \in Nat /\ Cardinality(tx[x].locked) \in Nat
            /\ Cardinality(C) <= Cardinality(tx[x].locked)
        BY <3>1, <3>3, SubsetCardinality
      <3>5. /\ Cardinality(running[x] \cup C) \in Nat
            /\ Cardinality(running[x] \cup C) <= Cardinality(running[x]) + Cardinality(C)
        BY <1>5, UnionCardinality
      <3>6. Cardinality(running[x] \cup C) <= WorkerConcurrency
        BY <1>3, <1>5, <1>6, <3>2, <3>4, <3>5
      <3> QED BY <1>3, <2>1, <3>1, <3>6 DEF WithinLimit
    <2> QED BY <2>2, <2>3
  <1>14. ASSUME NEW w \in Workflows, EnqueueStep(w) PROVE WithinLimit(tx[x], running[x])'
    BY <1>3, <1>4, <1>14 DEF EnqueueStep, WithinLimit
  <1> QED BY <1>1, <1>8, <1>9, <1>10, <1>11, <1>12, <1>13, <1>14 DEF LimitStep

\* The limit of a DBOS process holds: what an executor runs and what it has claimed
\* are never more than workerConcurrency, though it counts before its transaction
\* begins and starts what it claims one by one.
THEOREM WorkerLimitHolds == Spec => []WorkerConcurrencyRespected
  <1>1. Init => SeenInv
    BY NoTxFacts DEF Init, SeenInv
  <1>2. Inv /\ SeenInv /\ [Next]_vars => SeenInv'
    BY SeenNext
  <1>3. Inv /\ SeenInv /\ WorkerInv /\ [Next]_vars => WorkerInv'
    BY WorkerNext
  <1>4. WorkerInv => WorkerConcurrencyRespected
    BY DEF WorkerInv, WithinLimit, WorkerConcurrencyRespected
  <1> QED BY <1>1, <1>2, <1>3, <1>4, WorkerInit, InvAlways, PTL DEF Spec

-----------------------------------------------------------------------------
(* The rate of an executor.  What is relevant of a step: the workflows the *)
(* executor has started, and what its poll has counted.                    *)

\* The workflows executor x has started, as the limiter counts them.
Mine(x) ==
    {w \in Workflows : /\ rows[w].status \in {"PENDING", "DONE"}
                       /\ rows[w].started # Null /\ rows[w].owner = x}

Counted(t) == t.pc \in {"counted", "selected"}

\* The executor starts nothing.
KeepStep(x) ==
    /\ \A w \in Mine(x)' : w \in Mine(x) /\ rows'[w].started = rows[w].started
    /\ Counted(tx'[x]) =>
           /\ Counted(tx[x])
           /\ tx'[x].start = tx[x].start /\ tx'[x].recent = tx[x].recent

\* Its poll counts what all executors have started.
TallyStep(x) ==
    /\ UNCHANGED rows
    /\ tx'[x].recent = Cardinality(RecentlyStarted(tx'[x].start)) /\ tx'[x].recent < RateLimit

\* Its poll starts no more than what was left of the limit when it counted.
StartStep(x, C) ==
    /\ Counted(tx[x]) /\ ~Counted(tx'[x])
    /\ Cardinality(C) <= Minus(RateLimit, tx[x].recent)
    /\ \A w \in Mine(x)' :
           \/ w \in C /\ rows'[w].started = tx[x].start
           \/ w \in Mine(x) /\ rows'[w].started = rows[w].started

\* What an executor has started since a poll that has counted is within the count.
RateInv ==
    RateLimit # Null =>
        \A x \in Executors :
            /\ Counted(tx[x]) =>
                   /\ tx[x].recent < RateLimit
                   /\ Cardinality(RecentlyStarted(tx[x].start) \cap Mine(x)) <= tx[x].recent
            /\ \A t \in 0 .. MaxTime :
                   Cardinality({w \in StartedWithin(t) : rows[w].owner = x}) <= RateLimit

\* A step of e's poll that starts nothing and does not count.
LEMMA KeepPoll ==
    ASSUME Inv, NEW e \in Executors, NEW t \in TxType, tx' = [tx EXCEPT ![e] = t],
           UNCHANGED rows,
           Counted(t) =>
               Counted(tx[e]) /\ t.start = tx[e].start /\ t.recent = tx[e].recent
    PROVE  \A x \in Executors : KeepStep(x)
  <1> SUFFICES ASSUME NEW x \in Executors PROVE KeepStep(x)
    OBVIOUS
  <1>1. tx \in [Executors -> TxType]
    BY DEF Inv, TypeOK
  <1>2. tx'[x] = IF x = e THEN t ELSE tx[x]
    BY <1>1
  <1>3. Mine(x)' = Mine(x)
    BY DEF Mine
  <1> QED BY <1>2, <1>3 DEF KeepStep

\* Rows change, but none becomes one that an executor has started.
LEMMA KeepRows ==
    ASSUME Inv, NEW S \in SUBSET Workflows, tx' = Touch(tx, S) \/ tx' = tx,
           \A w \in Workflows \ S : rows'[w] = rows[w],
           \A w \in S : \/ rows'[w].status \in {"ENQUEUED", "CANCELLED"}
                        \/ /\ rows[w].status \in {"PENDING", "DONE"}
                           /\ rows'[w].started = rows[w].started /\ rows'[w].owner = rows[w].owner
    PROVE  \A x \in Executors : KeepStep(x)
  <1> SUFFICES ASSUME NEW x \in Executors PROVE KeepStep(x)
    OBVIOUS
  <1>1. tx \in [Executors -> TxType]
    BY DEF Inv, TypeOK
  <1>2. tx'[x].pc = tx[x].pc /\ tx'[x].start = tx[x].start /\ tx'[x].recent = tx[x].recent
    BY <1>1, TouchFacts
  <1>3. \A w \in Mine(x)' : w \in Mine(x) /\ rows'[w].started = rows[w].started
    BY DEF Mine
  <1> QED BY <1>2, <1>3 DEF KeepStep, Counted

LEMMA StartSteps ==
    ASSUME Inv, RateLimit # Null, NEW e \in Executors, MarkPending(e), NEW x \in Executors
    PROVE  KeepStep(x) \/ \E C \in SUBSET Workflows : StartStep(x, C)
  <1>0. /\ TypeOK /\ tx \in [Executors -> TxType] /\ tx[e] \in TxType
        /\ rows \in [Workflows -> RowType] /\ RateLimit \in Nat
    BY DEF Inv, TypeOK, QueueType, RateLimit
  <1>1. PICK C \in SUBSET tx[e].locked, t \in TxType :
            /\ \A w \in C : rows[w].status = "ENQUEUED"
            /\ \A w \in C, v \in tx[e].locked :
                   rows[v].status = "ENQUEUED" /\ rows[v].rank < rows[w].rank => v \in C
            /\ rows' = [w \in Workflows |->
                   IF w \in C THEN ClaimedRow(rows[w], e, tx[e].start) ELSE rows[w]]
            /\ tx' = Touch([tx EXCEPT ![e] = t], C)
            /\ t.pc \in {"idle", "dispatch"} /\ t.seen = {} /\ t.locked = {} /\ t.claimed = C
            /\ t.pc = "idle" => C = {}
            /\ RateLimit # Null =>
                   C = First({w \in tx[e].locked : rows[w].status = "ENQUEUED"},
                             Minus(RateLimit, tx[e].recent))
    BY <1>0, MarkPendingStep
  <1> DEFINE startable == {w \in tx[e].locked : rows[w].status = "ENQUEUED"}
             n == Minus(RateLimit, tx[e].recent)
  <1>2. /\ C \in SUBSET Workflows /\ tx[e].start \in Nat /\ startable \in SUBSET Workflows
        /\ tx[e].pc = "selected"
    BY <1>0, DequeueAssumption DEF TxType, MarkPending
  <1>3. n \in Nat
    BY <1>0, MinusFacts DEF TxType
  <1>4. \A v, w \in startable : v # w => rows[v].rank # rows[w].rank
    BY <1>2 DEF Inv, RankInv
  <1>5. Cardinality(C) <= n
    <2>1. C = First(startable, n)
      BY <1>1
    <2> HIDE DEF startable, n
    <2>2. Cardinality(First(startable, n)) <= n
      BY <1>0, <1>2, <1>3, <1>4, FirstBounded
    <2> QED BY <2>1, <2>2
  <1>6. PICK txs \in [Executors -> TxType] : txs = [tx EXCEPT ![e] = t]
    BY <1>0
  <1>7. txs[x] = IF x = e THEN t ELSE tx[x]
    BY <1>0, <1>6
  <1>8. tx'[x].pc = txs[x].pc /\ tx'[x].start = txs[x].start /\ tx'[x].recent = txs[x].recent
    <2>1. tx' = Touch(txs, C)
      BY <1>1, <1>6
    <2>2. \A y \in Executors :
              /\ Touch(txs, C)[y].pc = txs[y].pc /\ Touch(txs, C)[y].start = txs[y].start
              /\ Touch(txs, C)[y].recent = txs[y].recent
      BY <1>2, TouchFacts
    <2> QED BY <2>1, <2>2
  <1>9. \A w \in Workflows :
            \/ w \in C /\ rows'[w].owner = e /\ rows'[w].started = tx[e].start
            \/ w \notin C /\ rows'[w] = rows[w]
    BY <1>0, <1>1, <1>2, ClaimedRowFacts
  <1>10. CASE x = e
    <2>1. Counted(tx[x]) /\ ~Counted(tx'[x])
      BY <1>1, <1>2, <1>7, <1>8, <1>10 DEF Counted
    <2>2. \A w \in Mine(x)' : \/ w \in C /\ rows'[w].started = tx[x].start
                              \/ w \in Mine(x) /\ rows'[w].started = rows[w].started
      BY <1>9, <1>10 DEF Mine
    <2>3. StartStep(x, C)
      BY <1>5, <1>10, <2>1, <2>2 DEF StartStep
    <2> QED BY <1>2, <2>3
  <1>11. CASE x # e
    <2>1. \A w \in Mine(x)' : w \in Mine(x) /\ rows'[w].started = rows[w].started
      BY <1>9, <1>11 DEF Mine
    <2> QED BY <1>7, <1>8, <1>11, <2>1 DEF KeepStep, Counted
  <1> QED BY <1>10, <1>11

LEMMA RateSteps ==
    ASSUME Inv, RateLimit # Null, [Next]_vars, NEW x \in Executors
    PROVE  KeepStep(x) \/ TallyStep(x) \/ \E C \in SUBSET Workflows : StartStep(x, C)
  <1>0. /\ TypeOK /\ tx \in [Executors -> TxType] /\ rows \in [Workflows -> RowType]
        /\ queue.executors \subseteq Executors /\ queue.workflows \subseteq Workflows
    BY DEF Inv, TypeOK, QueueType
  <1>1. CASE UNCHANGED <<rows, tx>>
    <2>1. Mine(x)' = Mine(x)
      BY <1>1 DEF Mine
    <2> QED BY <1>1, <2>1 DEF KeepStep
  <1>2. ASSUME NEW e \in Executors, tx' = [tx EXCEPT ![e] = NoTx], UNCHANGED rows PROVE KeepStep(x)
    BY <1>2, NoTxFacts, KeepPoll DEF Counted
  <1>3. ASSUME NEW e \in Executors, PollQueue(e) PROVE KeepStep(x)
    <2>1. PICK t \in TxType : tx' = [tx EXCEPT ![e] = t] /\ t.pc = "connect"
      BY <1>0, <1>3, PollQueueStep
    <2>2. UNCHANGED rows
      BY <1>3 DEF PollQueue
    <2> QED BY <2>1, <2>2, KeepPoll DEF Counted
  <1>4. ASSUME NEW e \in Executors, CountTasks(e) PROVE KeepStep(x) \/ TallyStep(x)
    <2>0. UNCHANGED rows
      BY <1>4 DEF CountTasks
    <2>1. CASE tx' = [tx EXCEPT ![e] = NoTx]
      BY <1>2, <2>0, <2>1
    <2>2. CASE tx' # [tx EXCEPT ![e] = NoTx]
      <3>1. PICK t \in TxType :
                /\ tx' = [tx EXCEPT ![e] = t] /\ t.start = tx[e].start
                /\ t.recent = Cardinality(RecentlyStarted(tx[e].start)) /\ t.recent < RateLimit
        BY <1>0, <1>4, <2>2, CountTasksStep
      <3>2. CASE x = e
        <4>1. tx'[x] = t
          BY <1>0, <3>1, <3>2
        <4> QED BY <2>0, <3>1, <3>2, <4>1 DEF TallyStep
      <3>3. CASE x # e
        <4>1. tx'[x] = tx[x]
          BY <1>0, <3>1, <3>3
        <4>2. Mine(x)' = Mine(x)
          BY <2>0 DEF Mine
        <4> QED BY <2>0, <4>1, <4>2 DEF KeepStep
      <3> QED BY <3>2, <3>3
    <2> QED BY <2>1, <2>2
  <1>5. ASSUME NEW e \in Executors, SelectForUpdate(e) PROVE KeepStep(x)
    <2>0. UNCHANGED rows /\ tx[e].pc = "counted"
      BY <1>5 DEF SelectForUpdate
    <2>1. CASE tx' = [tx EXCEPT ![e] = NoTx]
      BY <1>2, <2>0, <2>1
    <2>2. CASE tx' # [tx EXCEPT ![e] = NoTx]
      <3>1. PICK t \in TxType :
                tx' = [tx EXCEPT ![e] = t] /\ t.start = tx[e].start /\ t.recent = tx[e].recent
        BY <1>0, <1>5, <2>2, SelectForUpdateStep
      <3> QED BY <2>0, <3>1, KeepPoll DEF Counted
    <2> QED BY <2>1, <2>2
  <1>6. ASSUME NEW e \in Executors, NEW w \in Workflows, Dispatch(e, w) \/ DispatchFails(e, w)
        PROVE  KeepStep(x)
    <2>1. /\ w \in tx[e].claimed /\ tx' = [tx EXCEPT ![e] = Dispatched(tx[e], w)] /\ UNCHANGED rows
      BY <1>6 DEF Dispatch, DispatchFails
    <2>2. PICK t \in TxType : t = Dispatched(tx[e], w)
      BY <1>0, <2>1, DispatchedFacts
    <2>3. t = NoTx \/ t.pc = tx[e].pc
      BY <1>0, <2>1, <2>2, DispatchedFacts
    <2>4. tx[e].pc = "dispatch"
      BY <2>1 DEF Inv, LockInv
    <2>5. ~Counted(t)
      BY <2>3, <2>4, NoTxFacts DEF Counted
    <2> QED BY <2>1, <2>2, <2>5, KeepPoll
  <1>7. ASSUME NEW e \in Executors, NEW w \in Workflows, RecordOutcome(e, w) PROVE KeepStep(x)
    <2> DEFINE S == IF rows[w].status = "CANCELLED" THEN {} ELSE {w}
    <2>1. /\ w \in ended[e] /\ tx' = Touch(tx, S)
          /\ rows' = [v \in Workflows |->
                 IF v \in S THEN [rows[v] EXCEPT !.status = "DONE"] ELSE rows[v]]
      BY <1>7 DEF RecordOutcome
    <2>2. S \in SUBSET Workflows /\ \A v \in S : rows[v].status = "PENDING"
      BY <2>1 DEF Inv, OwnInv, Places
    <2> HIDE DEF S
    <2>3. /\ \A v \in Workflows \ S : rows'[v] = rows[v]
          /\ \A v \in S : rows'[v].started = rows[v].started /\ rows'[v].owner = rows[v].owner
      BY <1>0, <2>1, <2>2 DEF RowType
    <2> QED BY <2>1, <2>2, <2>3, KeepRows
  <1>8. ASSUME NEW w \in Workflows, Cancel(w) PROVE KeepStep(x)
    <2>1. /\ tx' = Touch(tx, {w}) /\ rows'[w].status = "CANCELLED"
          /\ \A v \in Workflows \ {w} : rows'[v] = rows[v]
      BY <1>0, <1>8 DEF Cancel, RowType
    <2> QED BY <2>1, KeepRows
  <1>9. ASSUME NEW w \in Workflows, Enqueue(w) PROVE KeepStep(x)
    <2>1. EnqueueStep(w)
      BY <1>9, EnqueueSteps
    <2>2. /\ tx' = tx /\ rows'[w].status = "ENQUEUED"
          /\ \A v \in Workflows \ {w} : rows'[v] = rows[v]
      BY <2>1 DEF EnqueueStep
    <2> QED BY <2>2, KeepRows
  <1>10. ASSUME NEW e \in Executors, Restart(e) PROVE KeepStep(x)
    <2>1. /\ tx' = Touch(tx, Recovered(e)) /\ Recovered(e) \in SUBSET Workflows
          /\ \A v \in Workflows \ Recovered(e) : rows'[v] = rows[v]
          /\ \A v \in Recovered(e) : rows'[v].status = "ENQUEUED"
      BY <1>0, <1>10 DEF Restart, RowType, Recovered, Pending
    <2> QED BY <2>1, KeepRows
  <1> QED BY <1>0, <1>1, <1>2, <1>3, <1>4, <1>5, <1>6, <1>7, <1>8, <1>9, <1>10, StartSteps
       DEF Next, Progress, PollStep, PollFails, Crash, FinishBody, Tick, vars

LEMMA RateNext == ASSUME Inv, RateInv, [Next]_vars PROVE RateInv'
  <1>0. /\ TypeOK /\ rows \in [Workflows -> RowType] /\ tx \in [Executors -> TxType]
        /\ queue \in QueueType
    BY DEF Inv, TypeOK
  <1>1. Inv'
    BY InvNext
  <1>2. UNCHANGED queue
    BY LimitSteps
    DEF LimitStep, QuietStep, RowStep, BeginStep, CountStep, SelectStep, ClaimStep, EnqueueStep
  <1> SUFFICES ASSUME RateLimit # Null, NEW x \in Executors
               PROVE  /\ Counted(tx'[x]) =>
                             /\ tx'[x].recent < RateLimit
                             /\ Cardinality((RecentlyStarted(tx[x].start) \cap Mine(x))') <= tx'[x].recent
                      /\ \A t \in 0 .. MaxTime :
                             Cardinality({w \in StartedWithin(t) : rows[w].owner = x}') <= RateLimit
    BY <1>2 DEF RateInv, RateLimit
  <1>3. /\ RateLimit \in Nat /\ Period \in Nat /\ Period' = Period /\ tx[x] \in TxType
        /\ tx'[x] \in TxType /\ rows' \in [Workflows -> RowType] /\ Null \notin Nat
    BY <1>0, <1>1, <1>2, DequeueAssumption DEF Inv, TypeOK, QueueType, RateLimit, Period
  <1>4. PICK P \in Nat : P = Period
    BY <1>3
  <1>5. /\ tx[x].start \in Nat /\ tx[x].recent \in Nat /\ tx'[x].start \in Nat /\ tx'[x].recent \in Nat
    BY <1>3, DequeueAssumption DEF TxType
  <1> DEFINE Recent(t) == {w \in Mine(x) : rows[w].started + P > t}
             Window(t) == {w \in Mine(x) : t <= rows[w].started /\ rows[w].started < t + P}
             NewRecent(t) == {w \in Mine(x)' : rows'[w].started + P > t}
             NewWindow(t) == {w \in Mine(x)' : t <= rows'[w].started /\ rows'[w].started < t + P}
  <1>6. /\ \A w \in Mine(x) : w \in Workflows /\ rows[w].started \in Nat
        /\ \A w \in Mine(x)' : w \in Workflows /\ rows'[w].started \in Nat
    BY <1>0, <1>3 DEF Mine, RowType
  <1>7. /\ \A t \in Nat : Recent(t) \in SUBSET Workflows /\ Window(t) \in SUBSET Workflows
        /\ \A t \in Nat : NewRecent(t) \in SUBSET Workflows /\ NewWindow(t) \in SUBSET Workflows
    BY <1>6
  <1>8. /\ RecentlyStarted(tx[x].start) \cap Mine(x) = Recent(tx[x].start)
        /\ (RecentlyStarted(tx[x].start) \cap Mine(x))' = NewRecent(tx'[x].start)
    BY <1>3, <1>4 DEF RecentlyStarted, Mine
  <1>9. /\ \A t \in 0 .. MaxTime : {w \in StartedWithin(t) : rows[w].owner = x} = Window(t)
        /\ \A t \in 0 .. MaxTime : {w \in StartedWithin(t) : rows[w].owner = x}' = NewWindow(t)
    BY <1>3, <1>4 DEF StartedWithin, Mine
  <1>10. /\ Counted(tx[x]) => /\ tx[x].recent < RateLimit
                              /\ Cardinality(Recent(tx[x].start)) <= tx[x].recent
         /\ \A t \in 0 .. MaxTime : Cardinality(Window(t)) <= RateLimit
    BY <1>8, <1>9 DEF RateInv
  <1>11. \A t \in 0 .. MaxTime : t \in Nat
    BY DequeueAssumption
  <1> SUFFICES /\ Counted(tx'[x]) => /\ tx'[x].recent < RateLimit
                                     /\ Cardinality(NewRecent(tx'[x].start)) <= tx'[x].recent
               /\ \A t \in 0 .. MaxTime : Cardinality(NewWindow(t)) <= RateLimit
    BY <1>8, <1>9
  \* A window that holds nothing new.
  <1>12. ASSUME NEW t \in 0 .. MaxTime, NewWindow(t) \subseteq Window(t)
         PROVE  Cardinality(NewWindow(t)) <= RateLimit
    <2>1. PICK S \in SUBSET Workflows : S = Window(t)
      BY <1>7, <1>11
    <2>2. PICK T \in SUBSET S : T = NewWindow(t)
      BY <1>12, <2>1
    <2>3. /\ Cardinality(T) \in Nat /\ Cardinality(S) \in Nat /\ Cardinality(T) <= Cardinality(S)
      BY SubsetCardinality
    <2>4. Cardinality(S) <= RateLimit
      BY <1>10, <2>1
    <2>5. Cardinality(T) <= RateLimit
      BY <1>3, <2>3, <2>4
    <2> QED BY <2>2, <2>5
  <1>13. CASE KeepStep(x)
    <2>1. \A w \in Mine(x)' : w \in Mine(x) /\ rows'[w].started = rows[w].started
      BY <1>13 DEF KeepStep
    <2>2. \A t \in 0 .. MaxTime : NewWindow(t) \subseteq Window(t)
      BY <2>1
    <2>3. ASSUME Counted(tx'[x])
          PROVE  /\ tx'[x].recent < RateLimit
                 /\ Cardinality(NewRecent(tx'[x].start)) <= tx'[x].recent
      <3>1. /\ Counted(tx[x]) /\ tx'[x].start = tx[x].start /\ tx'[x].recent = tx[x].recent
        BY <1>13, <2>3 DEF KeepStep
      <3>2. PICK S \in SUBSET Workflows : S = Recent(tx[x].start)
        BY <1>5, <1>7
      <3>3. PICK T \in SUBSET S : T = NewRecent(tx'[x].start)
        BY <2>1, <3>1, <3>2
      <3>4. /\ Cardinality(T) \in Nat /\ Cardinality(S) \in Nat /\ Cardinality(T) <= Cardinality(S)
        BY SubsetCardinality
      <3>5. Cardinality(S) <= tx[x].recent /\ tx[x].recent < RateLimit
        BY <1>10, <3>1, <3>2
      <3>6. Cardinality(T) <= tx[x].recent
        BY <1>5, <3>4, <3>5
      <3> QED BY <3>1, <3>3, <3>5, <3>6
    <2> HIDE DEF NewWindow, Window, NewRecent
    <2> QED BY <1>12, <2>2, <2>3
  <1>14. CASE TallyStep(x)
    <2>1. Mine(x)' = Mine(x) /\ UNCHANGED rows
      BY <1>14 DEF TallyStep, Mine
    <2>2. \A t \in 0 .. MaxTime : NewWindow(t) \subseteq Window(t)
      BY <2>1
    <2>3. PICK S \in SUBSET Workflows : S = RecentlyStarted(tx'[x].start)
      BY DEF RecentlyStarted
    <2>4. PICK T \in SUBSET S : T = NewRecent(tx'[x].start)
      BY <1>4, <2>1, <2>3 DEF RecentlyStarted, Mine
    <2>5. Cardinality(T) <= Cardinality(S)
      BY SubsetCardinality
    <2>6. Cardinality(S) = tx'[x].recent /\ tx'[x].recent < RateLimit
      BY <1>14, <2>3 DEF TallyStep
    <2> HIDE DEF NewWindow, Window, NewRecent
    <2> QED BY <1>12, <2>2, <2>4, <2>5, <2>6
  <1>15. ASSUME NEW C \in SUBSET Workflows, StartStep(x, C)
         PROVE  /\ ~Counted(tx'[x])
                /\ \A t \in 0 .. MaxTime : Cardinality(NewWindow(t)) <= RateLimit
    <2>1. /\ Counted(tx[x]) /\ ~Counted(tx'[x])
          /\ Cardinality(C) <= Minus(RateLimit, tx[x].recent)
          /\ \A w \in Mine(x)' :
                 \/ w \in C /\ rows'[w].started = tx[x].start
                 \/ w \in Mine(x) /\ rows'[w].started = rows[w].started
      BY <1>15 DEF StartStep
    <2> SUFFICES ASSUME NEW t \in 0 .. MaxTime PROVE Cardinality(NewWindow(t)) <= RateLimit
      BY <2>1
    <2>2. PICK u \in Nat : u = tx[x].start
      BY <1>5
    <2>3. t \in Nat
      BY <1>11
    <2>4. CASE ~(t <= u /\ u < t + P)
      <3>1. NewWindow(t) \subseteq Window(t)
        BY <2>1, <2>2, <2>4
      <3> HIDE DEF NewWindow, Window
      <3> QED BY <1>12, <3>1
    <2>5. CASE t <= u /\ u < t + P
      <3>1. ASSUME NEW w \in NewWindow(t) PROVE w \in C \/ w \in Recent(u)
        <4>1. CASE w \in Mine(x) /\ rows'[w].started = rows[w].started
          <5>1. PICK s \in Nat : s = rows[w].started
            BY <1>6, <4>1
          <5>2. t <= s
            BY <3>1, <4>1, <5>1
          <5>3. s + P > u
            BY <2>3, <2>5, <5>2
          <5> QED BY <4>1, <5>1, <5>3
        <4> QED BY <2>1, <3>1, <4>1
      <3>2. PICK R \in SUBSET Workflows : R = Recent(u)
        BY <1>7
      <3>3. PICK T \in SUBSET (R \cup C) : T = NewWindow(t)
        BY <3>1, <3>2
      <3>4. Cardinality(R) <= tx[x].recent /\ tx[x].recent < RateLimit
        BY <1>10, <2>1, <2>2, <3>2
      <3>5. /\ Cardinality(R) \in Nat /\ Cardinality(C) \in Nat /\ Cardinality(R \cup C) \in Nat
            /\ Cardinality(R \cup C) <= Cardinality(R) + Cardinality(C)
        BY UnionCardinality
      <3>6. R \cup C \in SUBSET Workflows
        OBVIOUS
      <3>7. Cardinality(T) \in Nat /\ Cardinality(T) <= Cardinality(R \cup C)
        BY <3>6, SubsetCardinality
      <3>8. Cardinality(C) <= RateLimit - tx[x].recent
        BY <1>3, <1>5, <2>1, <3>4 DEF Minus
      <3>9. Cardinality(T) <= RateLimit
        BY <1>3, <1>5, <3>4, <3>5, <3>7, <3>8
      <3> QED BY <3>3, <3>9
    <2> QED BY <2>4, <2>5
  <1> HIDE DEF NewWindow, NewRecent
  <1> QED BY <1>13, <1>14, <1>15, RateSteps

\* The rate limit holds for every executor by itself: it never starts more
\* workflows in a period than the limit, for any number of executors that count and
\* claim at the same time, cancel and recover.
THEOREM RateLimitHolds == Spec => []RateLimitRespected
  <1>1. Init => RateInv
    <2> SUFFICES ASSUME Init, RateLimit # Null, NEW x \in Executors
                 PROVE  /\ ~Counted(tx[x])
                        /\ \A t \in 0 .. MaxTime :
                               Cardinality({w \in StartedWithin(t) : rows[w].owner = x}) <= RateLimit
      BY DEF RateInv
    <2>1. RateLimit \in Nat
      BY DequeueAssumption DEF Init, RateLimit, QueueType
    <2>2. \A t \in 0 .. MaxTime : {w \in StartedWithin(t) : rows[w].owner = x} = {}
      BY NoRowFacts DEF Init, StartedWithin
    <2>3. tx[x] = NoTx
      BY DEF Init
    <2>4. ~Counted(tx[x])
      BY <2>3, NoTxFacts DEF Counted
    <2>5. Cardinality({}) <= RateLimit
      BY <2>1, FS_EmptySet
    <2> QED BY <2>2, <2>4, <2>5
  <1>2. Inv /\ RateInv /\ [Next]_vars => RateInv'
    BY RateNext
  <1>3. RateInv => RateLimitRespected
    BY DEF RateInv, RateLimitRespected
  <1> QED BY <1>1, <1>2, <1>3, InvAlways, PTL DEF Spec

-----------------------------------------------------------------------------
(* The global concurrency of a queue holds when later                      *)
(* workflows queue behind earlier ones and versions do not divide the      *)
(* queue, though pollers count in snapshots of their own.                  *)
(*                                                                         *)
(* Two pollers that counted the same PENDING workflows may both go on, so  *)
(* the argument is about what they can still claim: as both claim from the *)
(* front of the queue, they claim the same rows, and only one can have     *)
(* them, or one of them has passed over rows that the other could not see. *)

\* Without versions all pollers compete for the same rows, and in order the front
\* of the queue stays the front.
InOrder == Concurrency # Null /\ queue.inOrder /\ ~queue.versioned

\* What a poll will try to lock, and has locked when it has selected.
Plan(e) == First(tx[e].seen, tx[e].max)

\* The poll can still commit: no row of its plan was touched since its snapshot.
Viable(e) ==
    \/ tx[e].pc = "selected"
    \/ tx[e].pc = "counted" /\ Plan(e) \cap tx[e].stale = {}

\* The plan, and what is before a row of the plan but came into the queue after the
\* snapshot: while the plan is viable, nobody has claimed those rows yet.
Reach(e) ==
    Plan(e) \cup
        {w \in Workflows : /\ rows[w].status = "ENQUEUED" /\ w \notin tx[e].seen
                           /\ \E x \in Plan(e) : rows[w].rank < rows[x].rank}

\* Polls that can all commit: they claim different rows.
Together(D) ==
    /\ \A e \in D : Viable(e)
    /\ \A d, e \in D : d # e => Plan(d) \cap Plan(e) = {}

\* What is PENDING, or may be when the polls in D have committed.
Budget(D) ==
    {w \in Workflows : rows[w].status = "PENDING" \/ \E e \in D : w \in Reach(e)}

\* Inductive: whichever polls commit together, the limit is kept.
BudgetInv ==
    InOrder =>
        /\ \A e \in Executors : tx[e].pc = "selected" => tx[e].locked = Plan(e)
        /\ \A w \in Workflows : rows[w].version # "old"
        /\ \A D \in SUBSET Executors : Together(D) => Cardinality(Budget(D)) <= Concurrency

-----------------------------------------------------------------------------
(* Plans.                                                                  *)

LEMMA PlanFacts ==
    ASSUME Inv, SeenInv, NEW e \in Executors, tx[e].pc \in {"counted", "selected"}
    PROVE  /\ Plan(e) \in SUBSET tx[e].seen /\ tx[e].seen \in SUBSET Workflows
           /\ Cardinality(Plan(e)) <= tx[e].max
           /\ \A w \in Plan(e), v \in tx[e].seen : rows[v].rank < rows[w].rank => v \in Plan(e)
  <1>0. /\ rows \in [Workflows -> RowType] /\ tx[e].max \in Nat
        /\ tx[e].seen \in SUBSET Workflows
    BY DEF Inv, TypeOK, TxType
  <1>1. \A v, w \in tx[e].seen : v # w => rows[v].rank # rows[w].rank
    BY <1>0 DEF Inv, RankInv, SeenInv
  <1>2. Plan(e) \in SUBSET tx[e].seen /\ Cardinality(Plan(e)) <= tx[e].max
    BY <1>0, <1>1, FirstBounded DEF Plan
  <1>3. ASSUME NEW w \in Plan(e), NEW v \in tx[e].seen, rows[v].rank < rows[w].rank
        PROVE  v \in Plan(e)
    BY <1>0, <1>3, FirstDownward DEF Plan
  <1> QED BY <1>0, <1>2, <1>3

\* The rows of a viable plan are in the queue.
LEMMA ViableFacts ==
    ASSUME Inv, SeenInv, BudgetInv, InOrder, NEW e \in Executors, Viable(e)
    PROVE  Plan(e) \subseteq Eligible(e)
  <1>1. CASE tx[e].pc = "selected"
    BY <1>1 DEF BudgetInv, Inv, LockInv
  <1>2. CASE tx[e].pc = "counted" /\ Plan(e) \cap tx[e].stale = {}
    BY <1>2, PlanFacts DEF Inv, LockInv
  <1> QED BY <1>1, <1>2 DEF Viable

\* Plans stay the same while the snapshot does.
LEMMA PlanKept ==
    ASSUME Inv, NEW e \in Executors, tx'[e].seen = tx[e].seen, tx'[e].max = tx[e].max,
           \A w \in tx[e].seen : rows'[w].rank = rows[w].rank
    PROVE  Plan(e)' = Plan(e)
  <1> DEFINE S == tx[e].seen
  <1>1. \A w \in S : {x \in S : rows'[x].rank < rows'[w].rank} = {x \in S : rows[x].rank < rows[w].rank}
    OBVIOUS
  <1>2. Plan(e) = {w \in S : Cardinality({x \in S : rows[x].rank < rows[w].rank}) < tx[e].max}
    BY DEF Plan, First
  <1>3. Plan(e)' = {w \in S : Cardinality({x \in S : rows'[x].rank < rows'[w].rank}) < tx[e].max}
    BY DEF Plan, First
  <1> QED BY <1>1, <1>2, <1>3

LEMMA BudgetKept ==
    ASSUME BudgetInv, InOrder, InOrder', UNCHANGED queue, TypeOK,
           NEW D \in SUBSET Executors, NEW E \in SUBSET Executors, Together(E),
           Budget(D)' \subseteq Budget(E)
    PROVE  Cardinality(Budget(D))' <= Concurrency'
  <1>1. Budget(E) \in SUBSET Workflows /\ Cardinality(Budget(E)) <= Concurrency
    BY DEF BudgetInv, Budget
  <1>2. PICK T \in SUBSET Budget(E) : T = Budget(D)'
    OBVIOUS
  <1>3. /\ Cardinality(T) \in Nat /\ Cardinality(Budget(E)) \in Nat
        /\ Cardinality(T) <= Cardinality(Budget(E))
    BY <1>1, SubsetCardinality
  <1>4. Concurrency \in Nat /\ Concurrency' = Concurrency
    BY DEF Concurrency, InOrder, TypeOK, QueueType
  <1> QED BY <1>1, <1>2, <1>3, <1>4

-----------------------------------------------------------------------------
(* Steps.                                                                  *)

\* In order and without versions, a poll that finds anything finds the whole queue.
LEMMA WholeQueue ==
    ASSUME Inv, BudgetInv, InOrder, NEW e \in Executors, Eligible(e) # {}
    PROVE  VersionOf(e) = "latest" /\ Eligible(e) = {w \in Workflows : rows[w].status = "ENQUEUED"}
  <1>1. \A w \in Workflows : rows[w].version \in {"latest", "none"}
    BY DEF BudgetInv, Inv, TypeOK, RowType
  <1> QED BY <1>1 DEF Eligible, VersionOf

\* A step that leaves the rows and the polls in D alone.
LEMMA BudgetSame ==
    ASSUME BudgetInv, InOrder, InOrder', TypeOK, UNCHANGED <<queue, rows>>,
           NEW D \in SUBSET Executors, Together(D)', \A e \in D : tx'[e] = tx[e]
    PROVE  Cardinality(Budget(D))' <= Concurrency'
  <1>1. \A e \in D : Plan(e)' = Plan(e)
    BY DEF Plan, First
  <1>2. \A e \in D : Reach(e)' = Reach(e) /\ Viable(e)' = Viable(e)
    BY <1>1 DEF Reach, Viable
  <1>3. Together(D)
    BY <1>1, <1>2 DEF Together
  <1>4. Budget(D)' \subseteq Budget(D)
    BY <1>2 DEF Budget
  <1> QED BY <1>3, <1>4, BudgetKept

\* A step of another kind that only takes rows from the queue, or gives PENDING ones
\* back: plans stay, and what they reach was reached or PENDING before.
LEMMA BudgetRows ==
    ASSUME Inv, SeenInv, BudgetInv, InOrder, InOrder', RowStep,
           NEW D \in SUBSET Executors, Together(D)'
    PROVE  Cardinality(Budget(D))' <= Concurrency'
  <1>0. TypeOK /\ tx \in [Executors -> TxType]
    BY DEF Inv, TypeOK
  <1>1. /\ UNCHANGED queue
        /\ \A e \in Executors : /\ tx'[e].pc = tx[e].pc /\ tx'[e].max = tx[e].max
                                /\ tx'[e].seen = tx[e].seen
                                /\ tx[e].pc = "counted" => tx[e].stale \subseteq tx'[e].stale
        /\ \A w \in Workflows :
               /\ rows[w].status # "NONE" => rows'[w].status # "NONE" /\ rows'[w].rank = rows[w].rank
               /\ rows'[w].status = "PENDING" => rows[w].status = "PENDING"
               /\ rows'[w].status = "ENQUEUED" => rows[w].status \in {"ENQUEUED", "PENDING"}
    BY DEF RowStep
  <1>2. \A e \in D : tx[e].pc \in {"counted", "selected"}
    BY <1>1 DEF Together, Viable
  <1>3. \A e \in D : /\ Plan(e) \subseteq tx[e].seen
                     /\ \A w \in tx[e].seen : w \in Workflows /\ rows[w].status # "NONE"
    BY <1>2, PlanFacts DEF SeenInv
  <1>4. \A e \in D : Plan(e)' = Plan(e)
    BY <1>1, <1>3, PlanKept
  <1>5. Together(D)
    BY <1>1, <1>4 DEF Together, Viable
  <1>6. ASSUME NEW e \in D, NEW w \in Workflows, w \in Reach(e)', rows[w].status # "PENDING"
        PROVE  w \in Reach(e)
    <2>1. CASE w \in Plan(e)'
      BY <1>4, <2>1 DEF Reach
    <2>2. CASE w \notin Plan(e)'
      <3>1. PICK x \in Plan(e) : rows'[w].status = "ENQUEUED" /\ w \notin tx[e].seen
                                 /\ rows'[w].rank < rows'[x].rank
        BY <1>1, <1>4, <1>6, <2>2 DEF Reach
      <3>2. x \in Workflows /\ rows[x].status # "NONE" /\ rows[w].status = "ENQUEUED"
        BY <1>1, <1>3, <1>6, <3>1
      <3>3. rows[w].rank < rows[x].rank
        BY <1>1, <3>1, <3>2
      <3> QED BY <3>1, <3>2, <3>3 DEF Reach
    <2> QED BY <2>1, <2>2
  <1>7. Budget(D)' \subseteq Budget(D)
    BY <1>1, <1>6 DEF Budget
  <1> QED BY <1>0, <1>1, <1>5, <1>7, BudgetKept

\* A workflow that comes into the queue is behind all plans.
LEMMA BudgetEnqueue ==
    ASSUME Inv, SeenInv, BudgetInv, InOrder, InOrder', TypeOK', NEW v \in Workflows, EnqueueStep(v),
           NEW D \in SUBSET Executors, Together(D)'
    PROVE  Cardinality(Budget(D))' <= Concurrency'
  <1>0. TypeOK /\ \A w \in Workflows : rows[w].rank \in Nat /\ rows'[w].rank \in Nat
    BY DEF Inv, TypeOK, RowType
  <1>1. /\ UNCHANGED <<queue, tx>> /\ rows[v].status = "NONE" /\ rows'[v].status = "ENQUEUED"
        /\ \A w \in Workflows : rows[w].status # "NONE" => rows[w].rank < rows'[v].rank
        /\ \A w \in Workflows \ {v} : rows'[w] = rows[w]
    BY DEF EnqueueStep, InOrder
  <1>2. \A e \in D : tx[e].pc \in {"counted", "selected"}
    BY <1>1 DEF Together, Viable
  <1>3. \A e \in D : /\ Plan(e) \subseteq tx[e].seen
                     /\ \A w \in tx[e].seen : w \in Workflows \ {v} /\ rows[w].status # "NONE"
    BY <1>1, <1>2, PlanFacts DEF SeenInv
  <1>4. \A e \in D : Plan(e)' = Plan(e)
    BY <1>1, <1>3, PlanKept
  <1>5. Together(D)
    BY <1>1, <1>4 DEF Together, Viable
  <1>6. ASSUME NEW e \in D, NEW w \in Workflows, w \in Reach(e)'
        PROVE  w \in Reach(e)
    <2>1. CASE w \in Plan(e)'
      BY <1>4, <2>1 DEF Reach
    <2>2. CASE w \notin Plan(e)'
      <3>1. PICK x \in Plan(e) : rows'[w].status = "ENQUEUED" /\ w \notin tx[e].seen
                                 /\ rows'[w].rank < rows'[x].rank
        BY <1>1, <1>4, <1>6, <2>2 DEF Reach
      <3>2. x \in Workflows \ {v} /\ rows[x].status # "NONE" /\ rows'[x] = rows[x]
        BY <1>1, <1>3
      <3>3. w # v
        BY <1>0, <1>1, <3>1, <3>2
      <3>4. rows'[w] = rows[w]
        BY <1>1, <3>3
      <3> QED BY <3>1, <3>2, <3>4 DEF Reach
    <2> QED BY <2>1, <2>2
  <1>7. \A w \in Workflows : rows'[w].status = "PENDING" => rows[w].status = "PENDING"
    BY <1>1
  <1>8. Budget(D)' \subseteq Budget(D)
    BY <1>6, <1>7 DEF Budget
  <1> QED BY <1>0, <1>1, <1>5, <1>8, BudgetKept

\* With a global limit, what is locked is the plan, and it was viable: a locked or a
\* touched row would have failed the poll.
LEMMA LockedPlan ==
    ASSUME Inv, InOrder, NEW e \in Executors, SelectStep(e)
    PROVE  /\ Viable(e) /\ Viable(e)' /\ Plan(e)' = Plan(e) /\ Reach(e)' = Reach(e)
           /\ tx'[e].locked = Plan(e)
           /\ \A x \in Executors \ {e} : tx'[x] = tx[x]
  <1>0. tx \in [Executors -> TxType]
    BY DEF Inv, TypeOK
  <1>1. UNCHANGED <<queue, rows>> /\ tx[e].pc = "counted"
    BY DEF SelectStep
  <1>2. PICK t \in TxType :
            /\ tx' = [tx EXCEPT ![e] = t] /\ t.pc = "selected"
            /\ t.locked = First(Candidates(e), tx[e].max) /\ ~Contention(e, t.locked)
            /\ t.max = tx[e].max /\ t.seen = tx[e].seen
    BY DEF SelectStep
  <1>3. tx'[e] = t /\ \A x \in Executors \ {e} : tx'[x] = tx[x]
    BY <1>0, <1>2
  <1>4. t.locked = Plan(e) /\ Plan(e) \cap tx[e].stale = {}
    BY <1>2 DEF Plan, Candidates, Contention, RepeatableRead, NoWait, InOrder
  <1>5. t.pc = "selected" /\ t.max = tx[e].max /\ t.seen = tx[e].seen
    BY <1>2
  <1>6. Plan(e)' = Plan(e)
    BY <1>1, <1>3, <1>5 DEF Plan, First
  <1>7. Reach(e)' = Reach(e)
    BY <1>1, <1>3, <1>5, <1>6 DEF Reach
  <1> QED BY <1>1, <1>3, <1>4, <1>5, <1>6, <1>7 DEF Viable

LEMMA BudgetSelect ==
    ASSUME Inv, BudgetInv, InOrder, InOrder', NEW e \in Executors, SelectStep(e),
           NEW D \in SUBSET Executors, Together(D)'
    PROVE  Cardinality(Budget(D))' <= Concurrency'
  <1>0. TypeOK /\ UNCHANGED <<queue, rows>>
    BY DEF Inv, SelectStep
  <1>1. \A x \in Executors : Plan(x)' = Plan(x) /\ Reach(x)' = Reach(x) /\ (Viable(x)' => Viable(x))
    <2>1. ASSUME NEW x \in Executors, x # e
          PROVE  Plan(x)' = Plan(x) /\ Reach(x)' = Reach(x) /\ (Viable(x)' => Viable(x))
      <3>1. tx'[x] = tx[x]
        BY <2>1, LockedPlan
      <3>2. Plan(x)' = Plan(x)
        BY <1>0, <3>1 DEF Plan, First
      <3> QED BY <1>0, <3>1, <3>2 DEF Reach, Viable
    <2> QED BY <2>1, LockedPlan
  <1>2. Together(D)
    BY <1>1 DEF Together
  <1>3. Budget(D)' \subseteq Budget(D)
    BY <1>0, <1>1 DEF Budget
  <1> QED BY <1>0, <1>2, <1>3, BudgetKept

\* A new plan is the front of the queue.  Either it is alone, and was counted to fit,
\* or it was made beside another plan: of rows that are before that one's, which
\* are accounted for already.
LEMMA BudgetCount ==
    ASSUME Inv, SeenInv, BudgetInv, InOrder, InOrder', NEW e \in Executors, CountStep(e),
           NEW D \in SUBSET Executors, Together(D)'
    PROVE  Cardinality(Budget(D))' <= Concurrency'
  <1>0. /\ TypeOK /\ tx \in [Executors -> TxType] /\ rows \in [Workflows -> RowType]
        /\ Eligible(e) \in SUBSET Workflows /\ tx[e].local \in Nat
        /\ UNCHANGED <<queue, rows>>
    BY DEF Inv, TypeOK, Eligible, CountStep, TxType
  <1>1. PICK t \in TxType :
            /\ tx' = [tx EXCEPT ![e] = t]
            /\ t.max = MaxTasks(tx[e].local) /\ t.max # 0
            /\ t.seen = IF RepeatableRead THEN Eligible(e) ELSE {}
    BY DEF CountStep
  <1>2. /\ tx'[e] = t /\ t.seen = Eligible(e) /\ t.max \in Nat
        /\ \A x \in Executors \ {e} : tx'[x] = tx[x]
    BY <1>0, <1>1 DEF RepeatableRead, InOrder, TxType
  <1>3. PICK P \in SUBSET Workflows : P = First(Eligible(e), t.max)
    BY <1>0 DEF First
  <1>4. Plan(e)' = P
    BY <1>0, <1>2, <1>3 DEF Plan, First
  <1>5. \A w \in Eligible(e) : rows[w].status = "ENQUEUED"
    BY DEF Eligible
  <1>6. \A v, w \in Eligible(e) : v # w => rows[v].rank # rows[w].rank
    BY <1>0, <1>5 DEF Inv, RankInv
  <1>7. P \in SUBSET Eligible(e) /\ Cardinality(P) <= t.max
    BY <1>0, <1>2, <1>3, <1>6, FirstBounded
  <1>8. Reach(e)' = P
    <2>1. Reach(e)' = P \cup {w \in Workflows : /\ rows[w].status = "ENQUEUED" /\ w \notin Eligible(e)
                                                /\ \E x \in P : rows[w].rank < rows[x].rank}
      BY <1>0, <1>2, <1>4 DEF Reach
    <2>2. P # {} => \A w \in Workflows : rows[w].status = "ENQUEUED" => w \in Eligible(e)
      BY <1>7, WholeQueue
    <2> QED BY <2>1, <2>2
  <1>9. \A x \in Executors \ {e} : /\ Plan(x)' = Plan(x) /\ Reach(x)' = Reach(x)
                                   /\ Viable(x)' = Viable(x)
    <2>1. \A x \in Executors \ {e} : Plan(x)' = Plan(x)
      BY <1>0, <1>2 DEF Plan, First
    <2> QED BY <1>0, <1>2, <2>1 DEF Reach, Viable
  <1>10. CASE e \notin D
    BY <1>0, <1>2, <1>10, BudgetSame
  <1>11. CASE e \in D
    <2> DEFINE E == D \ {e}
    <2>1. Together(E) /\ E \in SUBSET Executors
      BY <1>9 DEF Together
    <2>2. \A w \in Workflows :
              w \in Budget(D)' => \/ rows[w].status = "PENDING"
                                  \/ \E d \in E : w \in Reach(d)
                                  \/ w \in P
      BY <1>0, <1>8, <1>9 DEF Budget
    <2>3. ASSUME NEW d \in E, Plan(d) # {}
          PROVE  Cardinality(Budget(D))' <= Concurrency'
      <3>1. PICK f \in Plan(d) : TRUE
        BY <2>3
      <3>2. /\ tx[d].pc \in {"counted", "selected"} /\ Viable(d) /\ d \in Executors
        BY <2>1 DEF Together, Viable
      <3>3. f \in Workflows /\ rows[f].status = "ENQUEUED"
        BY <3>1, <3>2, ViableFacts DEF Eligible
      <3>4. f \notin P
        BY <1>4, <1>9, <1>11, <2>3, <3>1, <3>2 DEF Together
      <3>5. ASSUME NEW w \in P PROVE w \in Reach(d)
        <4>1. w \in Eligible(e) /\ rows[w].status = "ENQUEUED" /\ w \in Workflows
          BY <1>0, <1>5, <1>7
        <4>2. f \in Eligible(e)
          BY <3>3, <4>1, WholeQueue
        <4>3. rows[w].rank \in Nat /\ rows[f].rank \in Nat /\ rows[w].rank # rows[f].rank
          BY <1>0, <1>6, <3>3, <3>4, <4>1, <4>2 DEF RowType
        <4>4. ~(rows[f].rank < rows[w].rank)
          BY <1>0, <1>2, <1>3, <3>4, <4>2, FirstDownward
        <4>5. rows[w].rank < rows[f].rank
          BY <4>3, <4>4
        <4>6. w \notin Plan(d)
          BY <1>4, <1>9, <1>11, <2>3, <3>2 DEF Together
        <4>7. w \notin tx[d].seen
          BY <3>1, <3>2, <4>5, <4>6, PlanFacts
        <4> QED BY <3>1, <4>1, <4>5, <4>7 DEF Reach
      <3>6. Budget(D)' \subseteq Budget(E)
        BY <2>2, <3>5 DEF Budget
      <3> QED BY <1>0, <2>1, <3>6, BudgetKept
    <2>4. CASE \A d \in E : Plan(d) = {}
      <3>1. \A d \in E : Reach(d) = {}
        BY <2>4 DEF Reach
      <3>2. Budget(D)' \subseteq Pending \cup P
        BY <2>2, <3>1 DEF Budget, Pending
      <3>3. Pending \in SUBSET Workflows /\ Pending \cup P \in SUBSET Workflows
        BY DEF Pending
      <3>4. PICK T \in SUBSET (Pending \cup P) : T = Budget(D)'
        BY <3>2
      <3>5. /\ Cardinality(T) \in Nat /\ Cardinality(Pending \cup P) \in Nat
            /\ Cardinality(T) <= Cardinality(Pending \cup P)
        BY <3>3, SubsetCardinality
      <3>6. /\ Cardinality(Pending) \in Nat /\ Cardinality(P) \in Nat
            /\ Cardinality(Pending \cup P) <= Cardinality(Pending) + Cardinality(P)
        BY <3>3, UnionCardinality
      <3>7. Concurrency \in Nat /\ Concurrency' = Concurrency
        BY <1>0 DEF Concurrency, InOrder, TypeOK, QueueType
      <3>8. t.max <= Minus(Concurrency, Cardinality(Pending)) /\ t.max # 0
        BY <1>0, <1>1, MaxTasksBounds DEF InOrder
      <3>9. Cardinality(Pending) + t.max <= Concurrency
        BY <1>2, <3>6, <3>7, <3>8 DEF Minus
      <3> QED BY <1>2, <1>7, <3>4, <3>5, <3>6, <3>7, <3>9
    <2> QED BY <2>3, <2>4
  <1> QED BY <1>10, <1>11

\* Rows are claimed.  Either the claiming poll was one of those that could commit
\* together, or another plan shares a row with it that it has not claimed: then
\* what it has claimed is before that row, and is accounted for by that plan.
LEMMA BudgetClaim ==
    ASSUME Inv, SeenInv, BudgetInv, InOrder, InOrder', NEW e \in Executors,
           NEW C \in SUBSET Workflows, ClaimStep(e, C),
           NEW D \in SUBSET Executors, Together(D)'
    PROVE  Cardinality(Budget(D))' <= Concurrency'
  <1>0. TypeOK /\ \A w \in Workflows : rows[w].rank \in Nat
    BY DEF Inv, TypeOK, RowType
  <1>1. /\ UNCHANGED queue /\ tx[e].pc = "selected" /\ C \subseteq tx[e].locked
        /\ \A w \in C : rows[w].status = "ENQUEUED"
        /\ \A w \in C, v \in tx[e].locked : rows[v].rank < rows[w].rank => v \in C
        /\ \A w \in Workflows \ C : rows'[w] = rows[w]
        /\ \A w \in C : rows'[w].status = "PENDING"
        /\ \A w \in Workflows : rows'[w].rank = rows[w].rank
        /\ tx'[e].pc \in {"idle", "dispatch"}
    BY DEF ClaimStep
  <1>2. \A x \in Executors \ {e} :
            /\ tx'[x].pc = tx[x].pc /\ tx'[x].max = tx[x].max /\ tx'[x].seen = tx[x].seen
            /\ tx[x].pc = "counted" => tx'[x].stale = tx[x].stale \cup C
    BY DEF ClaimStep
  <1>3. e \notin D
    BY <1>1 DEF Together, Viable
  <1>4. \A d \in D : /\ d \in Executors \ {e} /\ tx[d].pc \in {"counted", "selected"}
                     /\ tx[d].seen \subseteq Workflows /\ Plan(d) \subseteq tx[d].seen
    BY <1>2, <1>3, PlanFacts DEF Together, Viable
  <1>5. \A d \in D : Plan(d)' = Plan(d)
    BY <1>1, <1>2, <1>4, PlanKept
  <1>6. \A d \in D : Viable(d)
    BY <1>2, <1>4, <1>5 DEF Together, Viable
  <1>7. Together(D)
    BY <1>5, <1>6 DEF Together
  <1>8. tx[e].locked = Plan(e) /\ Viable(e)
    BY <1>1 DEF BudgetInv, Viable
  <1>9. \A d \in D : Plan(d) \cap C = {}
    <2>1. ASSUME NEW d \in D, tx[d].pc = "counted" PROVE Plan(d) \cap C = {}
      BY <1>2, <1>4, <1>5, <2>1 DEF Together, Viable
    <2>2. ASSUME NEW d \in D, tx[d].pc = "selected" PROVE Plan(d) \cap C = {}
      <3>1. Plan(d) = tx[d].locked /\ tx[d].locked \cap tx[e].locked = {}
        BY <1>4, <2>2 DEF BudgetInv, Inv, LockInv
      <3> QED BY <1>1, <3>1
    <2> QED BY <1>4, <2>1, <2>2
  <1>10. ASSUME NEW d \in D, NEW w \in Workflows, w \in Reach(d)'
         PROVE  w \in Reach(d)
    <2>1. CASE w \in Plan(d)'
      BY <1>5, <2>1 DEF Reach
    <2>2. CASE w \notin Plan(d)'
      <3>1. PICK x \in Plan(d) : rows'[w].status = "ENQUEUED" /\ w \notin tx[d].seen
                                 /\ rows'[w].rank < rows'[x].rank
        BY <1>2, <1>4, <1>5, <1>10, <2>2 DEF Reach
      <3>2. w \notin C
        BY <1>1, <3>1
      <3>3. rows[w].status = "ENQUEUED" /\ rows[w].rank < rows[x].rank
        BY <1>1, <1>4, <3>1, <3>2
      <3> QED BY <3>1, <3>3 DEF Reach
    <2> QED BY <2>1, <2>2
  <1>11. \A w \in Workflows :
             w \in Budget(D)' => \/ rows[w].status = "PENDING"
                                 \/ \E d \in D : w \in Reach(d)
                                 \/ w \in C
    BY <1>1, <1>10 DEF Budget
  <1>12. CASE \A d \in D : Plan(d) \cap Plan(e) = {}
    <2> DEFINE E == D \cup {e}
    <2>1. Together(E) /\ E \in SUBSET Executors
      BY <1>7, <1>8, <1>12 DEF Together
    <2>2. \A w \in C : w \in Reach(e)
      BY <1>1, <1>8 DEF Reach
    <2>3. Budget(D)' \subseteq Budget(E)
      BY <1>11, <2>2 DEF Budget
    <2> QED BY <1>0, <1>1, <2>1, <2>3, BudgetKept
  <1>13. ASSUME NEW d \in D, Plan(d) \cap Plan(e) # {}
         PROVE  Cardinality(Budget(D))' <= Concurrency'
    <2>1. PICK z \in Plan(d) : z \in Plan(e)
      BY <1>13
    <2>2. z \in tx[e].locked /\ z \notin C /\ z \in Workflows /\ rows[z].status = "ENQUEUED"
      <3>1. z \in tx[e].locked /\ tx[e].locked \subseteq Eligible(e)
        BY <1>8, <2>1 DEF Inv, LockInv
      <3> QED BY <1>9, <2>1, <3>1 DEF Eligible
    <2>3. ASSUME NEW c \in C PROVE c \in Reach(d)
      <3>1. rows[c].rank # rows[z].rank /\ ~(rows[z].rank < rows[c].rank)
        BY <1>1, <2>2 DEF Inv, RankInv
      <3>2. rows[c].rank < rows[z].rank
        BY <1>0, <2>2, <3>1
      <3>3. c \notin tx[d].seen
        BY <1>4, <1>9, <2>1, <3>2, PlanFacts
      <3> QED BY <1>1, <2>1, <3>2, <3>3 DEF Reach
    <2>4. Budget(D)' \subseteq Budget(D)
      BY <1>11, <2>3 DEF Budget
    <2> QED BY <1>0, <1>1, <1>7, <2>4, BudgetKept
  <1> QED BY <1>12, <1>13

LEMMA BudgetNext == ASSUME Inv, SeenInv, BudgetInv, [Next]_vars PROVE BudgetInv'
  <1>1. LimitStep /\ Inv'
    BY LimitSteps, InvNext
  <1>2. UNCHANGED queue
    BY <1>1 DEF LimitStep, QuietStep, RowStep, BeginStep, CountStep, SelectStep, ClaimStep, EnqueueStep
  <1> SUFFICES ASSUME InOrder, InOrder' PROVE BudgetInv'
    BY <1>2 DEF BudgetInv, InOrder, Concurrency
  <1>3. ASSUME NEW D \in SUBSET Executors, Together(D)'
        PROVE  Cardinality(Budget(D))' <= Concurrency'
    <2>0. TypeOK /\ tx \in [Executors -> TxType]
      BY DEF Inv, TypeOK
    <2>1. CASE QuietStep
      <3>1. UNCHANGED <<queue, rows>> /\ \A x \in D : tx'[x] = tx[x]
        BY <1>3, <2>1 DEF QuietStep, Together, Viable
      <3> QED BY <1>3, <2>0, <3>1, BudgetSame
    <2>2. ASSUME NEW e \in Executors, BeginStep(e) PROVE Cardinality(Budget(D))' <= Concurrency'
      <3>1. /\ UNCHANGED <<queue, rows>> /\ tx'[e].pc = "connect"
            /\ \A x \in Executors \ {e} : tx'[x] = tx[x]
        BY <2>0, <2>2 DEF BeginStep
      <3>2. e \notin D
        BY <1>3, <3>1 DEF Together, Viable
      <3> QED BY <1>3, <2>0, <3>1, <3>2, BudgetSame
    <2>3. CASE RowStep
      BY <1>3, <2>3, BudgetRows
    <2>4. ASSUME NEW e \in Executors, CountStep(e) \/ SelectStep(e)
          PROVE  Cardinality(Budget(D))' <= Concurrency'
      BY <1>3, <2>4, BudgetCount, BudgetSelect
    <2>5. ASSUME NEW e \in Executors, NEW C \in SUBSET Workflows, ClaimStep(e, C)
          PROVE  Cardinality(Budget(D))' <= Concurrency'
      BY <1>3, <2>5, BudgetClaim
    <2>6. ASSUME NEW w \in Workflows, EnqueueStep(w) PROVE Cardinality(Budget(D))' <= Concurrency'
      BY <1>1, <1>3, <2>6, BudgetEnqueue DEF Inv
    <2> QED BY <1>1, <2>1, <2>2, <2>3, <2>4, <2>5, <2>6 DEF LimitStep
  <1>4. \A w \in Workflows : rows'[w].version # "old"
    <2>1. \A w \in Workflows : rows[w].version # "old"
      BY DEF BudgetInv
    <2>2. ASSUME NEW e \in Executors, NEW C \in SUBSET Workflows, ClaimStep(e, C)
          PROVE  \A w \in Workflows : rows'[w].version # "old"
      <3>1. \A w \in C : w \in Eligible(e)
        BY <2>2 DEF ClaimStep, Inv, LockInv
      <3>2. C # {} => VersionOf(e) = "latest"
        BY <3>1, WholeQueue
      <3> QED BY <2>1, <2>2, <3>2 DEF ClaimStep
    <2>3. ASSUME NEW v \in Workflows, EnqueueStep(v)
          PROVE  \A w \in Workflows : rows'[w].version # "old"
      BY <2>1, <2>3 DEF EnqueueStep, InOrder
    <2> QED BY <1>1, <2>1, <2>2, <2>3
            DEF LimitStep, QuietStep, RowStep, BeginStep, CountStep, SelectStep
  <1>5. ASSUME NEW x \in Executors, tx'[x].pc = "selected"
        PROVE  tx'[x].locked = Plan(x)'
    <2>0. tx \in [Executors -> TxType]
      BY DEF Inv, TypeOK
    \* The poll had selected before.
    <2>1. ASSUME tx[x].pc = "selected", tx'[x].locked = tx[x].locked, tx'[x].seen = tx[x].seen,
                 tx'[x].max = tx[x].max,
                 \A w \in Workflows : rows[w].status # "NONE" => rows'[w].rank = rows[w].rank
          PROVE  tx'[x].locked = Plan(x)'
      <3>1. tx[x].locked = Plan(x)
        BY <2>1 DEF BudgetInv
      <3>2. \A w \in tx[x].seen : rows'[w].rank = rows[w].rank
        BY <2>0, <2>1 DEF SeenInv, TxType
      <3> QED BY <2>1, <3>1, <3>2, PlanKept
    <2>2. CASE QuietStep
      BY <1>5, <2>1, <2>2 DEF QuietStep
    <2>3. CASE RowStep
      BY <1>5, <2>1, <2>3 DEF RowStep
    <2>4. ASSUME NEW e \in Executors, BeginStep(e) \/ CountStep(e)
          PROVE  tx'[x].locked = Plan(x)'
      <3>1. x # e /\ tx'[x] = tx[x] /\ UNCHANGED rows
        BY <1>5, <2>0, <2>4 DEF BeginStep, CountStep
      <3> QED BY <1>5, <2>1, <3>1
    <2>5. ASSUME NEW e \in Executors, SelectStep(e) PROVE tx'[x].locked = Plan(x)'
      <3>1. CASE x = e
        BY <2>5, <3>1, LockedPlan
      <3>2. CASE x # e
        BY <1>5, <2>1, <2>5, <3>2, LockedPlan DEF SelectStep
      <3> QED BY <3>1, <3>2
    <2>6. ASSUME NEW e \in Executors, NEW C \in SUBSET Workflows, ClaimStep(e, C)
          PROVE  tx'[x].locked = Plan(x)'
      BY <1>5, <2>1, <2>6 DEF ClaimStep
    <2>7. ASSUME NEW w \in Workflows, EnqueueStep(w) PROVE tx'[x].locked = Plan(x)'
      BY <1>5, <2>1, <2>7 DEF EnqueueStep
    <2> QED BY <1>1, <2>2, <2>3, <2>4, <2>5, <2>6, <2>7 DEF LimitStep
  <1> QED BY <1>3, <1>4, <1>5 DEF BudgetInv

LEMMA BudgetInit == Init => BudgetInv
  <1> SUFFICES ASSUME Init, InOrder PROVE BudgetInv
    BY DEF BudgetInv
  <1>1. queue \in QueueType /\ \A e \in Executors : tx[e] = NoTx
    BY DequeueAssumption DEF Init
  <1>2. Concurrency \in Nat
    BY <1>1 DEF Concurrency, InOrder, QueueType
  <1>3. \A w \in Workflows : rows[w].status = "NONE" /\ rows[w].version = "none"
    BY NoRowFacts DEF Init
  <1>4. ASSUME NEW D \in SUBSET Executors, Together(D) PROVE Cardinality(Budget(D)) <= Concurrency
    <2>1. D = {}
      BY <1>1, <1>4, NoTxFacts DEF Together, Viable
    <2>2. Budget(D) = {}
      BY <1>3, <2>1 DEF Budget
    <2> QED BY <1>2, <2>2, FS_EmptySet
  <1> QED BY <1>1, <1>3, <1>4, NoTxFacts DEF BudgetInv

\* The global limit holds on a queue whose workflows come in order and carry no
\* versions: PENDING workflows never exceed concurrency, for any number of pollers,
\* each of which counts and locks in a snapshot of its own.  On a queue with
\* priorities two pollers may each claim up to the limit (see README).
THEOREM GlobalLimitHolds ==
    Spec => [](queue.inOrder /\ ~queue.versioned => ConcurrencyRespected)
  <1>1. Init => SeenInv
    BY NoTxFacts DEF Init, SeenInv
  <1>2. Inv /\ SeenInv /\ [Next]_vars => SeenInv'
    BY SeenNext
  <1>3. Inv /\ SeenInv /\ BudgetInv /\ [Next]_vars => BudgetInv'
    BY BudgetNext
  <1>4. Inv /\ BudgetInv => (queue.inOrder /\ ~queue.versioned => ConcurrencyRespected)
    <2> SUFFICES ASSUME BudgetInv, InOrder PROVE Cardinality(Pending) <= Concurrency
      BY DEF InOrder, ConcurrencyRespected
    <2>1. Together({}) /\ Budget({}) = Pending
      BY DEF Together, Budget, Pending
    <2>2. {} \in SUBSET Executors
      OBVIOUS
    <2> QED BY <2>1, <2>2 DEF BudgetInv
  <1> QED BY <1>1, <1>2, <1>3, <1>4, BudgetInit, InvAlways, PTL DEF Spec

=============================================================================
