-------------------------- MODULE ReceiversProofs --------------------------
(***************************************************************************)
(* That the receivers lose no message, start no workflow twice and, when   *)
(* the partition moves between batches only, start the workflows of a      *)
(* partition in the order of its offsets, for any number of processes and  *)
(* messages, any chunk size, any poison messages and any number of faults. *)
(*                                                                         *)
(* Two inductive invariants.  Durable says what a position promises:       *)
(* everything before the committed offset, and before the position of any  *)
(* process, handled; a message in hand of an SQS listener or deleted,      *)
(* durable.  Ordered says, while the history is clean, that the batch in   *)
(* hand is the owner's, that the rows form a prefix of the partition, that *)
(* the stamps of the active rows grow with the offset, and that the floor  *)
(* of the next stamp, wherever the handler holds it (the cursor, the seed  *)
(* it read, the stamp it drew), is above them all.                         *)
(***************************************************************************)
EXTENDS Receivers, FiniteSetTheorems, WellFoundedInduction, TLAPS

\* The provers tried, in turn, on a leaf that names none.  Zenon comes first: its
\* translation is deterministic, that to SMT now and then runs out of time.
USE ZenonT(5), SMT, Zenon, Z3, SMTT(6), Z3T(6)

Places == {"idle", "seed", "stamp", "insert", "backoff", "heartbeat", "start", "delete"}

Statuses == {"none", "enqueued", "pending", "done"}

\* The types of the state the arguments below read.
Typed ==
  /\ committed \in Nat /\ gone \subseteq Messages
  /\ pc \in [Procs -> Places]
  /\ pos \in [Procs -> Nat] /\ batch \in [Procs -> Nat]
  /\ nowMS \in [Procs -> Nat] /\ seed \in [Procs -> Nat]
  /\ cursor \in [Procs -> Nat] /\ stamp \in [Procs -> Nat]
  /\ status \in [Messages -> Statuses]
  /\ createdAt \in [Messages -> Nat]
  /\ started \in Seq(Messages)
  /\ clean \in BOOLEAN
  /\ now \in Nat \ {0}

Handled(m) == status[m] # "none" \/ m \in Poison

Active(m) == status[m] \in {"enqueued", "pending"}

\* A position of a Kafka partition is behind handled messages only.
PositionsInv ==
  kind # "sqs" =>
    /\ \A p \in Procs : pc[p] \notin {"start", "delete"}
    /\ \A m \in Messages : m < committed => Handled(m)
    /\ \A p \in Procs : \A m \in Messages : m < pos[p] => Handled(m)

\* An SQS listener deletes what it has made durable.
ListenersInv ==
  kind = "sqs" =>
    /\ \A p \in Procs :
         /\ pc[p] \in {"idle", "start", "delete"}
         /\ pc[p] # "idle" => pos[p] \in Messages
         /\ pc[p] = "delete" => status[pos[p]] # "none"
    /\ \A m \in gone : status[m] # "none"

\* What has been started is no longer enqueued, and was started once.
StartedInv ==
  /\ \A i \in DOMAIN started : status[started[i]] \in {"pending", "done"}
  /\ \A i, j \in DOMAIN started : started[i] = started[j] => i = j

Durable == PositionsInv /\ ListenersInv /\ StartedInv

\* The rows are a prefix of the partition, and started up to a point of it.
PrefixInv ==
  /\ \A k, m \in Messages : k < m /\ status[m] # "none" => Handled(k)
  /\ \A m \in Messages : \A i \in DOMAIN started : status[m] = "enqueued" => started[i] < m
  /\ \A i, j \in DOMAIN started : i < j => started[i] < started[j]

\* Stamps grow with the offset.
StampsInv ==
  /\ \A m \in Messages : Active(m) => createdAt[m] # 0
  /\ \A k, m \in Messages : Active(k) /\ Active(m) /\ k < m => createdAt[k] < createdAt[m]

\* The next stamp of p will be above those of the active rows.
FloorInv(p) ==
  /\ pc[p] # "idle" => owner = p
  /\ pc[p] = "stamp" => nowMS[p] # 0
  /\ pc[p] = "insert" => stamp[p] # 0 /\ cursor[p] = stamp[p] + Cardinality(Prepared(p))
  /\ \A m \in Messages :
       Active(m) =>
         /\ owner = p /\ cursor[p] # 0 => createdAt[m] < cursor[p]
         /\ pc[p] = "stamp" => createdAt[m] <= seed[p]
         /\ pc[p] = "insert" => createdAt[m] < stamp[p]

\* A consumer that is down, or being built, has no batch in hand.
ClientsInv ==
  /\ proc \in [Procs -> {"down", "up", "destroying", "destroyed"}]
  /\ cons \in [Procs -> {"none", "connecting", "subscribing", "running", "crashed", "idle"}]
  /\ \A p \in Procs :
       proc[p] = "down" \/ cons[p] \in {"none", "connecting", "subscribing", "crashed"} => pc[p] = "idle"

Ordered == kind # "sqs" /\ clean => PrefixInv /\ StampsInv /\ \A p \in Procs : FloorInv(p)

Inv == Typed /\ ClientsInv /\ Durable /\ Ordered

-----------------------------------------------------------------------------
(* Facts about the operators *)

\* A function with values in Nat has a largest one on a finite set: a smallest
\* finite set without one would have an element to spare.
LEMMA HasLargest ==
  ASSUME NEW S, NEW f \in [S -> Nat], NEW A, A \subseteq S, IsFiniteSet(A), A # {}
  PROVE  \E m \in A : \A k \in A : f[k] <= f[m]
<1> DEFINE Largest(B) == \E m \in B : \A k \in B : f[k] <= f[m]
           T == {B \in FiniteSubsetsOf(S) : B # {} /\ ~Largest(B)}
<1>1. SUFFICES ASSUME A \in T PROVE FALSE
  <2>1. A \in FiniteSubsetsOf(S) BY DEF FiniteSubsetsOf
  <2> QED BY <2>1, <1>1
<1>2. PICK B \in T : \A C \in T : ~(<<C, B>> \in StrictSubsetOrdering(S))
  <2>1. T \subseteq FiniteSubsetsOf(S) OBVIOUS
  <2>2. IsWellFoundedOn(StrictSubsetOrdering(S), FiniteSubsetsOf(S))
    BY FS_StrictSubsetOrderingWellFounded
  <2> HIDE DEF T
  <2> QED BY <1>1, <2>1, <2>2, WFMin
<1>3. B \subseteq S /\ IsFiniteSet(B) /\ B # {} /\ ~Largest(B) BY DEF FiniteSubsetsOf
<1>4. PICK x \in B : TRUE BY <1>3
<1> DEFINE C == B \ {x}
<1>5. C # {}
  <2>1. CASE B = {x} BY <2>1, <1>3
  <2> QED BY <2>1, <1>4
<1>6. IsFiniteSet(C) BY <1>3, FS_RemoveElement
<1>7. C \notin T
  <2>1. <<C, B>> \in StrictSubsetOrdering(S) BY <1>3, <1>4 DEF StrictSubsetOrdering
  <2> QED BY <2>1, <1>2
<1>8. Largest(C) BY <1>3, <1>5, <1>6, <1>7 DEF FiniteSubsetsOf
<1>9. PICK y \in C : \A k \in C : f[k] <= f[y] BY <1>8
<1>10. Largest(B)
  <2>1. f[x] \in Nat /\ f[y] \in Nat /\ \A k \in B : f[k] \in Nat BY <1>3, <1>4
  <2>2. CASE f[x] <= f[y] BY <2>2, <1>9
  <2>3. CASE f[y] <= f[x]
    <3>1. \A k \in B : f[k] <= f[x] BY <2>1, <2>3, <1>9
    <3> QED BY <3>1, <1>4
  <2> QED BY <2>1, <2>2, <2>3
<1> QED BY <1>3, <1>10

LEMMA MessagesFinite == Messages \subseteq Nat \ {0} /\ IsFiniteSet(Messages)
<1>1. IsFiniteSet(1 .. N) BY ReceiversAssumption, FS_Interval
<1> QED BY <1>1, ReceiversAssumption DEF Messages

\* Math.max is above whatever its second argument is above.
LEMMA BelowLarger ==
    ASSUME NEW a \in Nat, NEW b \in Nat, NEW c \in Nat, c < b
    PROVE  c < Larger(a, b)
  BY DEF Larger

\* The seed is the stamp of an active row and above the others, or there is none.
LEMMA SeedIsLargest ==
  ASSUME Typed
  PROVE  /\ ActiveMax \in Nat
         /\ \A m \in Messages : Active(m) => createdAt[m] <= ActiveMax
<1> DEFINE active == {m \in Messages : status[m] \in {"enqueued", "pending"}}
           stamps == {createdAt[m] : m \in active}
           Above(t) == \A m \in active : createdAt[m] <= t
<1>1. ActiveMax = IF active = {} THEN 0 ELSE CHOOSE t \in stamps : Above(t)
  BY DEF ActiveMax
<1>2. \A m \in Messages : Active(m) => m \in active BY DEF Active
<1>3. CASE active = {} BY <1>1, <1>2, <1>3
<1>4. CASE active # {}
  <2>1. IsFiniteSet(active) BY MessagesFinite, FS_Subset
  <2>2. createdAt \in [Messages -> Nat] BY DEF Typed
  <2>3. PICK m \in active : \A k \in active : createdAt[k] <= createdAt[m]
    <3> HIDE DEF active
    <3>1. active \subseteq Messages BY DEF active
    <3> QED BY <3>1, <2>1, <2>2, <1>4, HasLargest
  <2>4. createdAt[m] \in stamps /\ Above(createdAt[m]) BY <2>3
  <2>5. PICK t : t = CHOOSE u \in stamps : Above(u) OBVIOUS
  <2>6. t \in stamps /\ Above(t)
    <3> HIDE DEF stamps, Above
    <3> QED BY <2>4, <2>5
  <2>7. ActiveMax = t BY <1>1, <1>4, <2>5
  <2>8. t \in Nat BY <2>6, <2>2
  <2> QED BY <2>6, <2>7, <2>8, <1>2
<1> QED BY <1>3, <1>4

\* The rows of a chunk are finitely many, and numbered in the order of the
\* offsets from zero to their number.
LEMMA RankFacts ==
  ASSUME Typed, NEW p \in Procs
  PROVE  /\ Prepared(p) \subseteq Nat
         /\ Cardinality(Prepared(p)) \in Nat
         /\ \A m \in Prepared(p) :
              /\ Cardinality({k \in Prepared(p) : k < m}) \in Nat
              /\ Cardinality({k \in Prepared(p) : k < m}) < Cardinality(Prepared(p))
         /\ \A l, m \in Prepared(p) :
              l < m => Cardinality({k \in Prepared(p) : k < l}) < Cardinality({k \in Prepared(p) : k < m})
<1>1. PICK P : P = Prepared(p) OBVIOUS
<1>2. pos[p] \in Nat /\ batch[p] \in Nat BY DEF Typed
<1>3. PICK a, b \in Int : P = (a .. b) \ Poison /\ a >= 0
  <2>1. ChunkEnd(pos[p], batch[p]) \in Int
    BY <1>2, ReceiversAssumption DEF ChunkEnd, Smaller
  <2> QED BY <1>1, <1>2, <2>1 DEF Prepared
<1>4. P \subseteq Nat BY <1>3
<1>5. IsFiniteSet(P)
  <2>1. IsFiniteSet(a .. b) BY FS_Interval
  <2> QED BY <2>1, <1>3, FS_Subset
<1> DEFINE Before(m) == {k \in P : k < m}
<1>6. \A m : IsFiniteSet(Before(m)) /\ Cardinality(Before(m)) \in Nat
  <2> SUFFICES ASSUME NEW m PROVE IsFiniteSet(Before(m)) /\ Cardinality(Before(m)) \in Nat
    OBVIOUS
  <2>1. Before(m) \subseteq P OBVIOUS
  <2> HIDE DEF Before
  <2>2. IsFiniteSet(Before(m)) BY <2>1, <1>5, FS_Subset
  <2> QED BY <2>2, FS_CardinalityType
<1>7. Cardinality(P) \in Nat BY <1>5, FS_CardinalityType
<1>8. ASSUME NEW m \in P PROVE Cardinality(Before(m)) < Cardinality(P)
  <2>1. Before(m) \subseteq P /\ m \notin Before(m) BY <1>4
  <2> HIDE DEF Before
  <2>2. Cardinality(Before(m)) <= Cardinality(P) /\ Cardinality(Before(m)) # Cardinality(P)
    BY <2>1, <1>5, <1>8, FS_Subset
  <2> QED BY <2>2, <1>6, <1>7
<1>9. ASSUME NEW l \in P, NEW m \in P, l < m
      PROVE  Cardinality(Before(l)) < Cardinality(Before(m))
  <2>1. Before(l) \subseteq Before(m) /\ l \in Before(m) /\ l \notin Before(l)
    <3>1. l \in Nat /\ m \in Nat /\ \A k \in P : k \in Nat BY <1>4, <1>9
    <3>2. \A k \in P : k < l => k < m BY <3>1, <1>9
    <3>3. ~(l < l) BY <3>1
    <3> QED BY <3>2, <3>3, <1>9
  <2>2. IsFiniteSet(Before(m)) BY <1>6
  <2>3. Cardinality(Before(l)) \in Nat /\ Cardinality(Before(m)) \in Nat BY <1>6
  <2> HIDE DEF Before
  <2>4. Cardinality(Before(l)) <= Cardinality(Before(m)) /\ Cardinality(Before(l)) # Cardinality(Before(m))
    BY <2>1, <2>2, FS_Subset
  <2> QED BY <2>3, <2>4
<1> QED BY <1>1, <1>4, <1>6, <1>7, <1>8, <1>9

-----------------------------------------------------------------------------
(* Types *)

\* The chunk after the one in hand starts further on.
LEMMA ChunkFacts ==
  ASSUME NEW start \in Nat, NEW last \in Nat
  PROVE  ChunkEnd(start, last) \in Nat /\ ChunkEnd(start, last) + 1 \in Nat
BY ReceiversAssumption DEF ChunkEnd, Smaller

\* The client of a process and the visibility of SQS messages are not read here.
Still ==
  UNCHANGED <<kind, owner, committed, gone, handler, table, clean>>

ClientStep(p) ==
  StartConsumer(p) \/ StartFails(p) \/ Connect(p) \/ Destroy(p) \/ Sweep(p)

\* The actions, with what they do not tell apart taken together.
Step ==
  \/ Still /\ now' \in {now, now + 1}
  \/ \E p \in Procs :
       \/ kind # "sqs" /\ (Run(p) \/ ConsumerCrash(p) \/ Rebalance(p) \/ CommitOffset(p) \/ Fetch(p) \/ BatchStep(p))
       \/ kind = "sqs" /\ Listener(p)
       \/ Exit(p)
  \/ Dequeue \/ Finish

LEMMA Steps ==
  ASSUME [Next]_vars, PositionsInv
  PROVE  Step
<1>1. ASSUME NEW p \in Procs, ClientStep(p) PROVE Still /\ now' = now
  BY <1>1 DEF ClientStep, StartConsumer, StartFails, Connect, Destroy, Sweep, Still, broker
<1>2. ASSUME NEW p \in Procs, Lifecycle(p) PROVE Step
  <2>1. CASE ClientStep(p) BY <1>1, <2>1 DEF Step
  <2>2. CASE Run(p) /\ kind # "sqs" BY <2>2 DEF Step
  <2>3. CASE ConsumerCrash(p) BY <2>3 DEF Step, ConsumerCrash
  <2>4. CASE Exit(p) BY <2>4 DEF Step
  <2> QED BY <1>2, <2>1, <2>2, <2>3, <2>4
          DEF Lifecycle, KafkaJSClient, ConfluentClient, SQSClient, ClientStep
<1>3. ASSUME NEW p \in Procs, Rebalance(p) \/ CommitOffset(p) \/ Fetch(p) PROVE Step
  BY <1>3 DEF Step, Rebalance, CommitOffset, Fetch
<1>4. ASSUME NEW p \in Procs, EachBatch(p) PROVE Step
  <2>1. kind # "sqs" /\ BatchStep(p) BY <1>4 DEF EachBatch, KafkaJSEachBatch, ConfluentEachBatch
  <2> QED BY <2>1 DEF Step
<1>5. ASSUME NEW p \in Procs, Listener(p) PROVE Step
  <2>1. kind = "sqs" BY <1>5 DEF Listener, ReceiveMessage, StartWorkflow, DeleteMessage, PositionsInv
  <2> QED BY <1>5, <2>1 DEF Step
<1>6. ASSUME NEW m \in Messages, Reappear(m) PROVE Step
  <2>1. Still /\ now' = now BY <1>6 DEF Reappear, Still
  <2> QED BY <2>1 DEF Step
<1>7. CASE Tick
  <2>1. Still /\ now' = now + 1 BY <1>7 DEF Tick, Still, broker
  <2> QED BY <2>1 DEF Step
<1>8. CASE Dequeue \/ Finish BY <1>8 DEF Step
<1>9. CASE UNCHANGED vars
  <2>1. Still /\ now' = now BY <1>9 DEF vars, Still, broker
  <2> QED BY <2>1 DEF Step
<1> QED BY <1>2, <1>3, <1>4, <1>5, <1>6, <1>7, <1>8, <1>9 DEF Next

LEMMA TypedInit == Init => Typed
BY MessagesFinite DEF Init, Typed, Places, Statuses

\* A row inserted carries a stamp; the others are left alone.
LEMMA InsertFacts ==
  ASSUME Typed, NEW p \in Procs, Insert(p)
  PROVE  /\ status' \in [Messages -> Statuses] /\ createdAt' \in [Messages -> Nat]
         /\ \A m \in Messages :
              \/ /\ ~(m \in Prepared(p) /\ status[m] = "none")
                 /\ status'[m] = status[m] /\ createdAt'[m] = createdAt[m]
              \/ /\ m \in Prepared(p) /\ status[m] = "none" /\ status'[m] = "enqueued"
                 /\ createdAt'[m] = stamp[p] + Cardinality({k \in Prepared(p) : k < m})
<1> DEFINE rank(m) == Cardinality({k \in Prepared(p) : k < m})
           fresh(m) == m \in Prepared(p) /\ status[m] = "none"
<1>1. /\ status' = [m \in Messages |-> IF fresh(m) THEN "enqueued" ELSE status[m]]
      /\ createdAt' = [m \in Messages |-> IF fresh(m) THEN stamp[p] + rank(m) ELSE createdAt[m]]
  BY DEF Insert
<1>2. \A m \in Messages : fresh(m) => rank(m) \in Nat BY RankFacts
<1>3. stamp[p] \in Nat BY DEF Typed
<1>4. status \in [Messages -> Statuses] /\ createdAt \in [Messages -> Nat] BY DEF Typed
<1>5. "enqueued" \in Statuses BY DEF Statuses
<1>6. \A m \in Messages : fresh(m) => stamp[p] + rank(m) \in Nat
  <2> HIDE DEF rank, fresh
  <2> QED BY <1>2, <1>3
<1>7. status' \in [Messages -> Statuses] /\ createdAt' \in [Messages -> Nat]
  <2> HIDE DEF rank, fresh
  <2> QED BY <1>1, <1>4, <1>5, <1>6
<1>8. ASSUME NEW m \in Messages
      PROVE  \/ ~fresh(m) /\ status'[m] = status[m] /\ createdAt'[m] = createdAt[m]
             \/ fresh(m) /\ status'[m] = "enqueued" /\ createdAt'[m] = stamp[p] + rank(m)
  <2> HIDE DEF rank, fresh
  <2> QED BY <1>1
<1> QED BY <1>7, <1>8

LEMMA TypedNext ==
  ASSUME Typed, ListenersInv, Step
  PROVE  Typed'
<1> USE DEF Typed
<1>1. CASE Still /\ now' \in {now, now + 1} BY <1>1 DEF Still, handler, table
<1>2. CASE Dequeue BY <1>2 DEF Dequeue, broker, handler, Statuses
<1>3. CASE Finish BY <1>3 DEF Finish, broker, handler, Statuses
<1>4. ASSUME NEW p \in Procs, Run(p) PROVE Typed'
  BY <1>4 DEF Run, broker, table
<1>5. ASSUME NEW p \in Procs, ConsumerCrash(p) PROVE Typed'
  BY <1>5 DEF ConsumerCrash, Return, Goto, broker, table, Places
<1>6. ASSUME NEW p \in Procs, Exit(p) PROVE Typed'
  BY <1>6 DEF Exit, Return, Goto, broker, table, Places
<1>7. ASSUME NEW p \in Procs, Rebalance(p) PROVE Typed'
  BY <1>7 DEF Rebalance, table
<1>8. ASSUME NEW p \in Procs, CommitOffset(p) PROVE Typed'
  BY <1>8 DEF CommitOffset, handler, table
<1>9. ASSUME NEW p \in Procs, NEW start \in Nat, NEW last \in Nat, NextChunk(p, start, last)
      PROVE  pc' \in [Procs -> Places] /\ pos' \in [Procs -> Nat] /\ batch' \in [Procs -> Nat]
  <2>1. ChunkEnd(start, last) + 1 \in Nat BY ChunkFacts
  <2> QED BY <2>1, <1>9 DEF NextChunk, Goto, Places
<1>10. ASSUME NEW p \in Procs, Fetch(p) PROVE Typed'
  <2>1. PICK last \in pos[p] .. N : NextChunk(p, pos[p], last) BY <1>10 DEF Fetch
  <2>2. pos[p] \in Nat /\ last \in Nat BY <2>1, ReceiversAssumption
  <2>3. pc' \in [Procs -> Places] /\ pos' \in [Procs -> Nat] /\ batch' \in [Procs -> Nat]
    BY <1>9, <2>1, <2>2
  <2> QED BY <2>3, <1>10 DEF Fetch, broker, table
<1>11. ASSUME NEW p \in Procs, NEW clock \in Nat, NEW floor \in Nat, Stamp(p, clock, floor)
       PROVE  /\ stamp' \in [Procs -> Nat] /\ cursor' \in [Procs -> Nat]
              /\ nowMS' \in [Procs -> Nat] /\ seed' \in [Procs -> Nat] /\ pc' \in [Procs -> Places]
  <2>1. Larger(clock, floor) \in Nat BY DEF Larger
  <2>2. Cardinality(Prepared(p)) \in Nat BY RankFacts
  <2>3. PICK t \in Nat : t = Larger(clock, floor) BY <2>1
  <2>4. t + Cardinality(Prepared(p)) \in Nat BY <2>2
  <2>5. /\ stamp' = [stamp EXCEPT ![p] = t]
        /\ cursor' = [cursor EXCEPT ![p] = t + Cardinality(Prepared(p))]
        /\ nowMS' = [nowMS EXCEPT ![p] = 0] /\ seed' = [seed EXCEPT ![p] = 0]
        /\ pc' = [pc EXCEPT ![p] = "insert"]
    BY <1>11, <2>3 DEF Stamp, Goto
  <2> QED BY <2>4, <2>5 DEF Places
<1>12. ASSUME NEW p \in Procs, ReadSeed(p) PROVE Typed'
  <2>1. /\ stamp' \in [Procs -> Nat] /\ cursor' \in [Procs -> Nat]
        /\ nowMS' \in [Procs -> Nat] /\ seed' \in [Procs -> Nat] /\ pc' \in [Procs -> Places]
    <3>1. CASE Stamp(p, now, cursor[p]) BY <3>1, <1>11
    <3>2. CASE /\ nowMS' = [nowMS EXCEPT ![p] = now] /\ seed' = [seed EXCEPT ![p] = ActiveMax]
               /\ Goto(p, "stamp") /\ UNCHANGED <<stamp, cursor, faults>>
      BY <3>2, SeedIsLargest DEF Goto, Places
    <3>3. CASE Goto(p, "backoff") /\ UNCHANGED <<nowMS, seed, stamp, cursor>>
      BY <3>3 DEF Goto, Places
    <3> QED BY <1>12, <3>1, <3>2, <3>3 DEF ReadSeed
  <2> QED BY <2>1, <1>12 DEF ReadSeed, broker, table
<1>13. ASSUME NEW p \in Procs, AssignBatchCreatedAt(p) PROVE Typed'
  <2>1. PICK floor \in Nat : Stamp(p, nowMS[p], floor)
    <3>1. (IF seed[p] = 0 THEN 0 ELSE seed[p] + 1) \in Nat OBVIOUS
    <3> QED BY <3>1, <1>13 DEF AssignBatchCreatedAt
  <2>2. nowMS[p] \in Nat OBVIOUS
  <2>3. /\ stamp' \in [Procs -> Nat] /\ cursor' \in [Procs -> Nat]
        /\ nowMS' \in [Procs -> Nat] /\ seed' \in [Procs -> Nat] /\ pc' \in [Procs -> Places]
    BY <1>11, <2>1, <2>2
  <2> QED BY <2>3, <1>13 DEF AssignBatchCreatedAt, broker, table
<1>14. ASSUME NEW p \in Procs, EnqueueWorkflows(p) PROVE Typed'
  <2>1. status' \in [Messages -> Statuses] /\ createdAt' \in [Messages -> Nat]
    <3>1. CASE Insert(p) BY <3>1, InsertFacts
    <3>2. CASE UNCHANGED <<status, createdAt>> BY <3>2
    <3> QED BY <3>1, <3>2, <1>14 DEF EnqueueWorkflows
  <2>2. pos' \in [Procs -> Nat] /\ pc' \in [Procs -> Places]
    <3>1. CASE ResolveOffsets(p)
      <4>1. pos[p] \in Nat /\ batch[p] \in Nat OBVIOUS
      <4>2. ChunkEnd(pos[p], batch[p]) + 1 \in Nat BY <4>1, ChunkFacts
      <4> QED BY <3>1, <4>2 DEF ResolveOffsets, Goto, Places
    <3>2. CASE Goto(p, "backoff") /\ UNCHANGED pos BY <3>2 DEF Goto, Places
    <3> QED BY <3>1, <3>2, <1>14 DEF EnqueueWorkflows
  <2> QED BY <2>1, <2>2, <1>14 DEF EnqueueWorkflows, broker
<1>15. ASSUME NEW p \in Procs, Backoff(p) PROVE Typed'
  <2>1. CASE Return(p) BY <2>1, <1>15 DEF Backoff, Return, Goto, broker, table, Places
  <2>2. CASE Goto(p, "seed") /\ UNCHANGED <<batch, nowMS, seed, stamp>>
    BY <2>2, <1>15 DEF Backoff, Goto, broker, table, Places
  <2> QED BY <2>1, <2>2, <1>15 DEF Backoff
<1>16. ASSUME NEW p \in Procs, Heartbeat(p) PROVE Typed'
  <2>1. pos[p] \in Nat /\ batch[p] \in Nat OBVIOUS
  <2>2. CASE NextChunk(p, pos[p], batch[p]) /\ UNCHANGED <<nowMS, seed, stamp>>
    <3>1. pc' \in [Procs -> Places] /\ pos' \in [Procs -> Nat] /\ batch' \in [Procs -> Nat]
      BY <1>9, <2>1, <2>2
    <3> QED BY <3>1, <2>2, <1>16 DEF Heartbeat, broker, table
  <2>3. CASE Return(p) /\ UNCHANGED pos
    BY <2>3, <1>16 DEF Heartbeat, Return, Goto, broker, table, Places
  <2> QED BY <2>2, <2>3, <1>16 DEF Heartbeat
<1>17. ASSUME NEW p \in Procs, ReceiveMessage(p) PROVE Typed'
  BY <1>17, MessagesFinite DEF ReceiveMessage, Goto, table, Places
<1>18. ASSUME NEW p \in Procs, StartWorkflow(p) PROVE Typed'
  <2>1. pc' \in [Procs -> Places] /\ pos' \in [Procs -> Nat]
    <3>1. Goto(p, "delete") \/ Goto(p, "idle") BY <1>18 DEF StartWorkflow
    <3>2. pc' \in [Procs -> Places] BY <3>1 DEF Goto, Places
    <3>3. pos' = pos \/ pos' = [pos EXCEPT ![p] = 0] BY <1>18 DEF StartWorkflow
    <3>4. CASE pos' = pos BY <3>2, <3>4
    <3>5. CASE pos' = [pos EXCEPT ![p] = 0]
      <4>1. pos' \in [Procs -> Nat] BY <3>5
      <4> QED BY <3>2, <4>1
    <3> QED BY <3>3, <3>4, <3>5
  <2>2. status' \in [Messages -> Statuses] BY <1>18 DEF StartWorkflow, Statuses
  <2>3. createdAt' \in [Messages -> Nat] BY <1>18 DEF StartWorkflow
  <2> QED BY <2>1, <2>2, <2>3, <1>18 DEF StartWorkflow, broker
<1>19. ASSUME NEW p \in Procs, kind = "sqs", DeleteMessage(p) PROVE Typed'
  <2>1. pos[p] \in Messages BY <1>19 DEF ListenersInv, DeleteMessage
  <2> QED BY <1>19, <2>1 DEF DeleteMessage, Goto, table, Places
<1> QED
  BY <1>1, <1>2, <1>3, <1>4, <1>5, <1>6, <1>7, <1>8, <1>10, <1>12, <1>13, <1>14, <1>15, <1>16, <1>17, <1>18, <1>19
     DEF Step, BatchStep, Listener

-----------------------------------------------------------------------------
(* Nothing is lost, nothing runs twice *)

\* A step of the table: untouched, rows added, one started or one finished.
Adds ==
  /\ started' = started
  /\ \A m \in Messages : status'[m] = status[m] \/ (status[m] = "none" /\ status'[m] = "enqueued")

LEMMA TableSteps ==
  ASSUME Typed, ListenersInv, Step
  PROVE  kind' = kind /\ (Adds \/ Dequeue \/ Finish)
<1>1. ASSUME UNCHANGED <<status, started>> PROVE Adds BY <1>1 DEF Adds
<1>2. CASE Still BY <1>1, <1>2 DEF Still, table
<1>3. CASE Dequeue \/ Finish BY <1>3 DEF Dequeue, Finish
<1>4. ASSUME NEW p \in Procs, Run(p) \/ ConsumerCrash(p) \/ Exit(p) \/ Rebalance(p) \/ CommitOffset(p) \/ Fetch(p)
      PROVE  kind' = kind /\ Adds
  <2>1. kind' = kind /\ UNCHANGED table
    BY <1>4 DEF Run, ConsumerCrash, Exit, Rebalance, CommitOffset, Fetch
  <2> QED BY <2>1, <1>1 DEF table
<1>5. ASSUME NEW p \in Procs, ReadSeed(p) \/ AssignBatchCreatedAt(p) \/ Backoff(p) \/ Heartbeat(p)
      PROVE  kind' = kind /\ Adds
  <2>1. kind' = kind /\ UNCHANGED table
    BY <1>5 DEF ReadSeed, AssignBatchCreatedAt, Backoff, Heartbeat
  <2> QED BY <2>1, <1>1 DEF table
<1>6. ASSUME NEW p \in Procs, EnqueueWorkflows(p) PROVE kind' = kind /\ Adds
  <2>1. kind' = kind /\ started' = started BY <1>6 DEF EnqueueWorkflows
  <2>2. CASE Insert(p)
    <3>1. \A m \in Messages : status'[m] = status[m] \/ (status[m] = "none" /\ status'[m] = "enqueued")
      BY <2>2, InsertFacts
    <3> QED BY <2>1, <3>1 DEF Adds
  <2>3. CASE UNCHANGED <<status, createdAt>> BY <2>1, <2>3, <1>1
  <2> QED BY <2>2, <2>3, <1>6 DEF EnqueueWorkflows
<1>7. ASSUME NEW p \in Procs, ReceiveMessage(p) \/ DeleteMessage(p) PROVE kind' = kind /\ Adds
  <2>1. kind' = kind /\ UNCHANGED table BY <1>7 DEF ReceiveMessage, DeleteMessage
  <2> QED BY <2>1, <1>1 DEF table
<1>8. ASSUME NEW p \in Procs, StartWorkflow(p) PROVE kind' = kind /\ Adds
  <2>1. kind' = kind /\ started' = started BY <1>8 DEF StartWorkflow
  <2>2. CASE status' = [status EXCEPT ![pos[p]] = IF @ = "none" THEN "enqueued" ELSE @]
    BY <2>1, <2>2 DEF Adds, Typed
  <2>3. CASE UNCHANGED <<status, createdAt>> BY <2>1, <2>3, <1>1
  <2> QED BY <2>2, <2>3, <1>8 DEF StartWorkflow
<1> QED BY <1>2, <1>3, <1>4, <1>5, <1>6, <1>7, <1>8 DEF Step, BatchStep, Listener

\* A row stays.
LEMMA RowsStay ==
  ASSUME Typed, ListenersInv, Step, NEW m \in Messages
  PROVE  /\ status[m] # "none" => status'[m] # "none"
         /\ Handled(m) => Handled(m)'
<1>1. status[m] # "none" => status'[m] # "none"
  <2>1. CASE Adds BY <2>1 DEF Adds
  <2>2. CASE Dequeue BY <2>2 DEF Dequeue, Typed
  <2>3. CASE Finish BY <2>3 DEF Finish, Typed
  <2> QED BY <2>1, <2>2, <2>3, TableSteps
<1> QED BY <1>1 DEF Handled

LEMMA StartedNext ==
  ASSUME Typed, ListenersInv, Step, StartedInv
  PROVE  StartedInv'
<1>1. \A i \in DOMAIN started : started[i] \in Messages BY DEF Typed
<1>2. CASE Adds
  <2>1. started' = started BY <1>2 DEF Adds
  <2>2. \A i \in DOMAIN started : status'[started[i]] \in {"pending", "done"}
    BY <1>1, <1>2 DEF Adds, StartedInv
  <2> QED BY <2>1, <2>2 DEF StartedInv
<1>3. CASE Dequeue
  <2>1. PICK m \in Messages : /\ status[m] = "enqueued"
                              /\ status' = [status EXCEPT ![m] = "pending"]
                              /\ started' = Append(started, m)
    BY <1>3 DEF Dequeue
  <2>2. PICK n \in Nat : n = Len(started) BY DEF Typed
  <2>3. /\ DOMAIN started = 1 .. n /\ DOMAIN started' = 1 .. n + 1
        /\ started'[n + 1] = m /\ \A i \in 1 .. n : started'[i] = started[i]
    BY <2>1, <2>2 DEF Typed
  <2>4. \A i \in 1 .. n : started[i] # m BY <2>1, <2>3 DEF StartedInv
  <2>5. status'[m] = "pending" /\ \A k \in Messages : k # m => status'[k] = status[k]
    BY <2>1 DEF Typed
  <2>6. \A i \in 1 .. n + 1 : i \in 1 .. n \/ i = n + 1 OBVIOUS
  <2>7. \A i \in 1 .. n + 1 : status'[started'[i]] \in {"pending", "done"}
    BY <1>1, <2>3, <2>4, <2>5, <2>6 DEF StartedInv
  <2>8. \A i, j \in 1 .. n + 1 : started'[i] = started'[j] => i = j
    BY <2>3, <2>4, <2>6 DEF StartedInv
  <2> QED BY <2>3, <2>7, <2>8 DEF StartedInv
<1>4. CASE Finish
  <2>1. started' = started BY <1>4 DEF Finish
  <2>2. \A k \in Messages : status'[k] = status[k] \/ status'[k] = "done" BY <1>4 DEF Finish, Typed
  <2> QED BY <1>1, <2>1, <2>2 DEF StartedInv
<1> QED BY <1>2, <1>3, <1>4, TableSteps

\* What a step may do to positions.
Advances ==
  /\ \A p \in Procs : pc'[p] \notin {"start", "delete"}
  /\ committed' = committed \/ \E p \in Procs : committed' = pos[p]
  /\ \A p \in Procs :
       \/ pos'[p] = pos[p] \/ pos'[p] = committed \/ pos'[p] = 0
       \/ \A m \in Messages : m < pos'[p] => Handled(m)'

\* A position moves over a chunk when its rows are there, or it has none.
LEMMA ChunkHandled ==
  ASSUME Typed, NEW p \in Procs, NEW last \in Nat,
         \A m \in Messages : m < pos[p] => Handled(m)',
         \A m \in (pos[p] .. ChunkEnd(pos[p], last)) \ Poison : m \in Messages => status'[m] # "none"
  PROVE  \A m \in Messages : m < ChunkEnd(pos[p], last) + 1 => Handled(m)'
<1>1. pos[p] \in Nat BY DEF Typed
<1>2. PICK e \in Nat : e = ChunkEnd(pos[p], last) BY <1>1, ChunkFacts
<1>3. SUFFICES ASSUME NEW m \in Messages, m < e + 1 PROVE Handled(m)'
  BY <1>2
<1>4. m \in Nat BY MessagesFinite
<1>5. CASE m < pos[p] BY <1>5
<1>6. CASE ~(m < pos[p])
  <2>1. m \in pos[p] .. e BY <1>1, <1>3, <1>4, <1>6
  <2>2. m \in Poison \/ status'[m] # "none" BY <2>1, <1>2
  <2> QED BY <2>2 DEF Handled
<1> QED BY <1>5, <1>6

LEMMA Advancing ==
  ASSUME Typed, Durable, Step, kind # "sqs"
  PROVE  Advances
<1>1. \A p \in Procs : pc[p] \notin {"start", "delete"} BY DEF Durable, PositionsInv
<1>2. \A p \in Procs : \A m \in Messages : m < pos[p] => Handled(m)'
  BY RowsStay DEF Durable, PositionsInv
<1>3. pc \in [Procs -> Places] /\ pos \in [Procs -> Nat] /\ batch \in [Procs -> Nat] BY DEF Typed
<1>4. CASE Still \/ Dequeue \/ Finish
  <2>1. UNCHANGED <<pc, pos, committed>> BY <1>4 DEF Still, Dequeue, Finish, handler, broker
  <2> QED BY <2>1, <1>1 DEF Advances
<1>5. ASSUME NEW p \in Procs, Run(p) PROVE Advances
  <2>1. /\ UNCHANGED <<pc, committed>>
        /\ pos' = [pos EXCEPT ![p] = IF owner = p THEN committed ELSE @]
    BY <1>5 DEF Run, broker
  <2> QED BY <2>1, <1>1, <1>3 DEF Advances
<1>6. ASSUME NEW p \in Procs, ConsumerCrash(p) \/ Exit(p) PROVE Advances
  <2>1. /\ pc' = [pc EXCEPT ![p] = "idle"] /\ committed' = committed
        /\ pos' = pos \/ pos' = [pos EXCEPT ![p] = 0]
    BY <1>6 DEF ConsumerCrash, Exit, Return, Goto, broker
  <2> QED BY <2>1, <1>1, <1>3 DEF Advances
<1>7. ASSUME NEW p \in Procs, Rebalance(p) PROVE Advances
  <2>1. pc' = pc /\ committed' = committed /\ pos' = [pos EXCEPT ![p] = committed]
    BY <1>7 DEF Rebalance
  <2> QED BY <2>1, <1>1, <1>3 DEF Advances
<1>8. ASSUME NEW p \in Procs, CommitOffset(p) PROVE Advances
  <2>1. pc' = pc /\ committed' = pos[p] /\ pos' = pos BY <1>8 DEF CommitOffset, handler
  <2> QED BY <2>1, <1>1 DEF Advances
<1>9. ASSUME NEW p \in Procs, NEW last \in Nat, NextChunk(p, pos[p], last), committed' = committed
      PROVE  Advances
  <2>1. CASE pos[p] .. ChunkEnd(pos[p], last) \subseteq Poison
    <3>1. /\ pc' = [pc EXCEPT ![p] = "heartbeat"]
          /\ pos' = [pos EXCEPT ![p] = ChunkEnd(pos[p], last) + 1]
      BY <1>9, <2>1 DEF NextChunk, Goto
    <3>2. \A m \in (pos[p] .. ChunkEnd(pos[p], last)) \ Poison : m \in Messages => status'[m] # "none"
      BY <2>1
    <3>3. \A m \in Messages : m < ChunkEnd(pos[p], last) + 1 => Handled(m)'
      BY <1>2, <3>2, ChunkHandled
    <3> QED BY <3>1, <3>3, <1>1, <1>3, <1>9 DEF Advances
  <2>2. CASE ~(pos[p] .. ChunkEnd(pos[p], last) \subseteq Poison)
    <3>1. pc' = [pc EXCEPT ![p] = "seed"] /\ pos' = [pos EXCEPT ![p] = pos[p]]
      BY <1>9, <2>2 DEF NextChunk, Goto
    <3> QED BY <3>1, <1>1, <1>3, <1>9 DEF Advances
  <2> QED BY <2>1, <2>2
<1>10. ASSUME NEW p \in Procs, Fetch(p) PROVE Advances
  <2>1. PICK last \in pos[p] .. N : NextChunk(p, pos[p], last) BY <1>10 DEF Fetch
  <2>2. last \in Nat BY <2>1, <1>3, ReceiversAssumption
  <2>3. committed' = committed BY <1>10 DEF Fetch, broker
  <2> QED BY <1>9, <2>1, <2>2, <2>3
<1>11. ASSUME NEW p \in Procs, NEW place \in {"idle", "seed", "stamp", "insert", "backoff"},
              Goto(p, place), pos' = pos, committed' = committed
       PROVE  Advances
  BY <1>1, <1>3, <1>11 DEF Goto, Advances
<1>12. ASSUME NEW p \in Procs, ReadSeed(p) PROVE Advances
  <2>1. pos' = pos /\ committed' = committed BY <1>12 DEF ReadSeed, broker
  <2>2. Goto(p, "insert") \/ Goto(p, "stamp") \/ Goto(p, "backoff") BY <1>12 DEF ReadSeed, Stamp
  <2> QED BY <1>11, <2>1, <2>2
<1>13. ASSUME NEW p \in Procs, AssignBatchCreatedAt(p) PROVE Advances
  <2>1. pos' = pos /\ committed' = committed /\ Goto(p, "insert")
    BY <1>13 DEF AssignBatchCreatedAt, Stamp, broker
  <2> QED BY <1>11, <2>1
<1>14. ASSUME NEW p \in Procs, EnqueueWorkflows(p) PROVE Advances
  <2>1. committed' = committed BY <1>14 DEF EnqueueWorkflows, broker
  <2>2. CASE Goto(p, "backoff") /\ UNCHANGED pos BY <1>11, <2>1, <2>2
  <2>3. CASE Insert(p) /\ ResolveOffsets(p)
    <3>1. /\ pc' = [pc EXCEPT ![p] = "heartbeat"]
          /\ pos' = [pos EXCEPT ![p] = ChunkEnd(pos[p], batch[p]) + 1]
      BY <2>3 DEF ResolveOffsets, Goto
    <3>2. \A m \in Prepared(p) : m \in Messages => status'[m] # "none"
      BY <2>3, InsertFacts
    <3>3. \A m \in Messages : m < ChunkEnd(pos[p], batch[p]) + 1 => Handled(m)'
      BY <1>2, <1>3, <3>2, ChunkHandled DEF Prepared
    <3> QED BY <3>1, <3>3, <1>1, <1>3, <2>1 DEF Advances
  <2> QED BY <2>2, <2>3, <1>14 DEF EnqueueWorkflows
<1>15. ASSUME NEW p \in Procs, Backoff(p) PROVE Advances
  <2>1. pos' = pos /\ committed' = committed BY <1>15 DEF Backoff, broker
  <2>2. Goto(p, "idle") \/ Goto(p, "seed") BY <1>15 DEF Backoff, Return
  <2> QED BY <1>11, <2>1, <2>2
<1>16. ASSUME NEW p \in Procs, Heartbeat(p) PROVE Advances
  <2>1. committed' = committed BY <1>16 DEF Heartbeat, broker
  <2>2. batch[p] \in Nat BY <1>3
  <2>3. CASE NextChunk(p, pos[p], batch[p]) BY <1>9, <2>1, <2>2, <2>3
  <2>4. CASE Return(p) /\ UNCHANGED pos
    <3>1. Goto(p, "idle") BY <2>4 DEF Return
    <3> QED BY <1>11, <2>1, <2>4, <3>1
  <2> QED BY <2>3, <2>4, <1>16 DEF Heartbeat
<1> QED
  BY <1>4, <1>5, <1>6, <1>7, <1>8, <1>10, <1>12, <1>13, <1>14, <1>15, <1>16 DEF Step, BatchStep

LEMMA PositionsNext ==
  ASSUME Typed, Durable, Step
  PROVE  PositionsInv'
<1>1. SUFFICES ASSUME kind' # "sqs"
               PROVE  /\ \A p \in Procs : pc'[p] \notin {"start", "delete"}
                      /\ \A m \in Messages : m < committed' => Handled(m)'
                      /\ \A p \in Procs : \A m \in Messages : m < pos'[p] => Handled(m)'
  BY DEF PositionsInv
<1>2. kind # "sqs" BY <1>1, TableSteps DEF Durable
<1>3. Advances BY <1>2, Advancing
<1>4. /\ \A m \in Messages : m < committed => Handled(m)'
      /\ \A p \in Procs : \A m \in Messages : m < pos[p] => Handled(m)'
  BY <1>2, RowsStay DEF Durable, PositionsInv
<1>5. \A m \in Messages : ~(m < 0) BY MessagesFinite
<1> QED BY <1>3, <1>4, <1>5 DEF Advances

LEMMA ListenersNext ==
  ASSUME Typed, Durable, Step
  PROVE  ListenersInv'
<1>1. SUFFICES ASSUME kind' = "sqs" PROVE ListenersInv' BY DEF ListenersInv
<1>2. kind = "sqs" BY <1>1, TableSteps DEF Durable
<1>3. \A m \in Messages : status[m] # "none" => status'[m] # "none" BY RowsStay DEF Durable
<1>4. /\ \A q \in Procs :
           /\ pc[q] \in {"idle", "start", "delete"}
           /\ pc[q] # "idle" => pos[q] \in Messages
           /\ pc[q] = "delete" => status[pos[q]] # "none"
      /\ \A m \in gone : status[m] # "none"
  BY <1>2 DEF Durable, ListenersInv
<1>5. /\ pc \in [Procs -> Places] /\ pos \in [Procs -> Nat] /\ gone \subseteq Messages
      /\ status \in [Messages -> Statuses]
  BY DEF Typed
<1>6. CASE UNCHANGED <<pc, pos, gone>>
  BY <1>3, <1>4, <1>5, <1>6 DEF ListenersInv
<1>7. ASSUME NEW p \in Procs, pc' = [pc EXCEPT ![p] = "idle"], UNCHANGED gone,
             pos' = pos \/ pos' = [pos EXCEPT ![p] = 0]
      PROVE  ListenersInv'
  BY <1>3, <1>4, <1>5, <1>7 DEF ListenersInv
<1>8. CASE Still \/ Dequeue \/ Finish
  BY <1>8, <1>6 DEF Still, Dequeue, Finish, handler, broker
<1>9. ASSUME NEW p \in Procs, Exit(p) PROVE ListenersInv'
  BY <1>7, <1>9 DEF Exit, Return, Goto, broker
<1>10. ASSUME NEW p \in Procs, ReceiveMessage(p) PROVE ListenersInv'
  <2>1. PICK m \in Messages : pos' = [pos EXCEPT ![p] = m] BY <1>10 DEF ReceiveMessage
  <2>2. pc' = [pc EXCEPT ![p] = "start"] /\ gone' = gone BY <1>10 DEF ReceiveMessage, Goto
  <2> QED BY <1>3, <1>4, <1>5, <2>1, <2>2 DEF ListenersInv
<1>11. ASSUME NEW p \in Procs, StartWorkflow(p) PROVE ListenersInv'
  <2>1. gone' = gone BY <1>11 DEF StartWorkflow, broker
  <2>2. CASE Goto(p, "idle") /\ pos' = [pos EXCEPT ![p] = 0]
    BY <1>7, <2>1, <2>2 DEF Goto
  <2>3. CASE /\ status' = [status EXCEPT ![pos[p]] = IF @ = "none" THEN "enqueued" ELSE @]
             /\ Goto(p, "delete") /\ UNCHANGED <<pos, faults>>
    <3>1. pos[p] \in Messages BY <1>4, <1>11 DEF StartWorkflow
    <3>2. status'[pos[p]] # "none" BY <2>3, <3>1, <1>5
    <3>3. pc' = [pc EXCEPT ![p] = "delete"] /\ pos' = pos BY <2>3 DEF Goto
    <3> QED BY <1>3, <1>4, <1>5, <2>1, <3>1, <3>2, <3>3 DEF ListenersInv
  <2> QED BY <2>2, <2>3, <1>11 DEF StartWorkflow
<1>12. ASSUME NEW p \in Procs, DeleteMessage(p) PROVE ListenersInv'
  <2>1. /\ pc' = [pc EXCEPT ![p] = "idle"] /\ pos' = [pos EXCEPT ![p] = 0]
        /\ gone' = gone \/ gone' = gone \cup {pos[p]}
    BY <1>12 DEF DeleteMessage, Goto
  <2>2. pos[p] \in Messages /\ status[pos[p]] # "none" BY <1>4, <1>12 DEF DeleteMessage
  <2> QED BY <1>3, <1>4, <1>5, <2>1, <2>2 DEF ListenersInv
<1> QED BY <1>2, <1>8, <1>9, <1>10, <1>11, <1>12 DEF Step, Listener

LEMMA DurableInit == Init => Durable
BY MessagesFinite DEF Init, Durable, PositionsInv, ListenersInv, StartedInv, Handled

LEMMA DurableNext ==
  ASSUME Typed, Durable, Step
  PROVE  Durable'
BY PositionsNext, ListenersNext, StartedNext DEF Durable

\* Messages of Kafka and SQS become workflows once each: what the broker or the
\* queue has forgotten is durable or was dropped as unprocessable, and no
\* workflow is started twice.
THEOREM MessagesProcessedOnce == Spec => []ProcessedOnce
<1>1. Init => Typed /\ Durable BY TypedInit, DurableInit
<1>2. Typed /\ Durable /\ [Next]_vars => Typed' /\ Durable'
  <2> SUFFICES ASSUME Typed, Durable, [Next]_vars PROVE Typed' /\ Durable' OBVIOUS
  <2>1. Step BY Steps DEF Durable
  <2>2. Typed' BY <2>1, TypedNext DEF Durable
  <2> QED BY <2>1, <2>2, DurableNext
<1>3. Typed /\ Durable => ProcessedOnce
  <2> SUFFICES ASSUME Typed, Durable PROVE ProcessedOnce OBVIOUS
  <2>1. \A m \in Messages : Acknowledged(m) => status[m] # "none" \/ (kind # "sqs" /\ m \in Poison)
    BY DEF Durable, PositionsInv, ListenersInv, Handled, Acknowledged
  <2>2. IsInjective(started) BY DEF Durable, StartedInv, IsInjective
  <2> QED BY <2>1, <2>2 DEF ProcessedOnce
<1> QED BY <1>1, <1>2, <1>3, PTL DEF Spec

-----------------------------------------------------------------------------
(* Order *)

LEMMA ClientsNext ==
  ASSUME Typed, ClientsInv, [Next]_vars
  PROVE  ClientsInv'
<1> USE DEF ClientsInv
<1>1. pc \in [Procs -> Places] BY DEF Typed
<1>2. ASSUME NEW p \in Procs, StartConsumer(p) PROVE ClientsInv'
  <2>1. pc' = pc BY <1>2 DEF StartConsumer, handler
  <2>2. pc[p] = "idle" BY <1>2 DEF StartConsumer
  <2> QED BY <1>2, <2>1, <2>2 DEF StartConsumer
<1>3. ASSUME NEW p \in Procs, StartFails(p) PROVE ClientsInv'
  <2>1. pc' = pc BY <1>3 DEF StartFails, handler
  <2>2. pc[p] = "idle" BY <1>3 DEF StartFails
  <2> QED BY <1>3, <2>1, <2>2 DEF StartFails
<1>4. ASSUME NEW p \in Procs, Connect(p) PROVE ClientsInv'
  <2>1. pc' = pc BY <1>4 DEF Connect, handler
  <2>2. pc[p] = "idle" BY <1>4 DEF Connect
  <2> QED BY <1>4, <2>1, <2>2 DEF Connect
<1>5. ASSUME NEW p \in Procs, Run(p) PROVE ClientsInv'
  BY <1>5 DEF Run
<1>6. ASSUME NEW p \in Procs, ConsumerCrash(p) PROVE ClientsInv'
  <2>1. pc' = [pc EXCEPT ![p] = "idle"] BY <1>6 DEF ConsumerCrash, Return, Goto
  <2>2. proc' = proc /\ (cons' = [cons EXCEPT ![p] = "idle"] \/ cons' = [cons EXCEPT ![p] = "crashed"])
    BY <1>6 DEF ConsumerCrash
  <2> QED BY <1>1, <2>1, <2>2
<1>7. ASSUME NEW p \in Procs, Destroy(p) PROVE ClientsInv'
  BY <1>7 DEF Destroy, handler
<1>8. ASSUME NEW p \in Procs, Sweep(p) PROVE ClientsInv'
  BY <1>8 DEF Sweep, handler
<1>9. ASSUME NEW p \in Procs, Exit(p) PROVE ClientsInv'
  <2>1. /\ pc' = [pc EXCEPT ![p] = "idle"] /\ proc' = [proc EXCEPT ![p] = "down"]
        /\ cons' = [cons EXCEPT ![p] = "none"]
    BY <1>9 DEF Exit, Return, Goto
  <2> QED BY <1>1, <2>1
<1>10. ASSUME UNCHANGED <<pc, proc, cons>> PROVE ClientsInv'
  BY <1>10
<1>11. ASSUME NEW p \in Procs, NEW place, pc' = [pc EXCEPT ![p] = place], UNCHANGED <<proc, cons>>,
              place = "idle" \/ pc[p] # "idle" \/ (cons[p] = "running" /\ proc[p] = "up")
       PROVE  ClientsInv'
  BY <1>1, <1>11
<1>12. ASSUME NEW p \in Procs, Fetch(p) \/ ReceiveMessage(p) PROVE ClientsInv'
  <2>1. UNCHANGED <<proc, cons>> /\ cons[p] = "running" /\ proc[p] = "up"
    BY <1>12 DEF Fetch, ReceiveMessage, client, Aborted
  <2>2. \E place : pc' = [pc EXCEPT ![p] = place]
    BY <1>12 DEF Fetch, ReceiveMessage, NextChunk, Goto
  <2> QED BY <1>11, <2>1, <2>2
<1>13. ASSUME NEW p \in Procs, BatchStep(p) PROVE ClientsInv'
  <2>1. UNCHANGED <<proc, cons>> /\ pc[p] # "idle"
    BY <1>13 DEF BatchStep, ReadSeed, AssignBatchCreatedAt, EnqueueWorkflows, Backoff, Heartbeat, client
  <2>2. \E place : pc' = [pc EXCEPT ![p] = place]
    <3>1. CASE ReadSeed(p) BY <3>1 DEF ReadSeed, Stamp, Goto
    <3>2. CASE AssignBatchCreatedAt(p) BY <3>2 DEF AssignBatchCreatedAt, Stamp, Goto
    <3>3. CASE EnqueueWorkflows(p) BY <3>3 DEF EnqueueWorkflows, ResolveOffsets, Goto
    <3>4. CASE Backoff(p) BY <3>4 DEF Backoff, Return, Goto
    <3>5. CASE Heartbeat(p) BY <3>5 DEF Heartbeat, Return, NextChunk, Goto
    <3> QED BY <1>13, <3>1, <3>2, <3>3, <3>4, <3>5 DEF BatchStep
  <2> QED BY <1>11, <2>1, <2>2
<1>14. ASSUME NEW p \in Procs, StartWorkflow(p) \/ DeleteMessage(p) PROVE ClientsInv'
  <2>1. UNCHANGED <<proc, cons>> /\ pc[p] # "idle"
    BY <1>14 DEF StartWorkflow, DeleteMessage, client
  <2>2. \E place : pc' = [pc EXCEPT ![p] = place]
    BY <1>14 DEF StartWorkflow, DeleteMessage, Goto
  <2> QED BY <1>11, <2>1, <2>2
<1>15. ASSUME NEW p \in Procs, Rebalance(p) \/ CommitOffset(p) PROVE ClientsInv'
  BY <1>10, <1>15 DEF Rebalance, CommitOffset, client, handler
<1>16. ASSUME (\E m \in Messages : Reappear(m)) \/ Dequeue \/ Finish \/ Tick \/ UNCHANGED vars
       PROVE  ClientsInv'
  BY <1>10, <1>16 DEF Reappear, Dequeue, Finish, Tick, vars, client, handler
<1>17. ASSUME NEW p \in Procs, Lifecycle(p) PROVE ClientsInv'
  BY <1>2, <1>3, <1>4, <1>5, <1>6, <1>7, <1>8, <1>9, <1>17
     DEF Lifecycle, KafkaJSClient, ConfluentClient, SQSClient
<1>18. ASSUME NEW p \in Procs, EachBatch(p) \/ Listener(p) PROVE ClientsInv'
  BY <1>12, <1>13, <1>14, <1>18 DEF EachBatch, KafkaJSEachBatch, ConfluentEachBatch, Listener
<1> QED BY <1>12, <1>15, <1>16, <1>17, <1>18 DEF Next

\* No row becomes active and none changes its stamp.
Shrinks == \A m \in Messages : Active(m)' => Active(m) /\ createdAt'[m] = createdAt[m]

\* The handler of q is not at work.
Quiet(q) ==
  /\ owner' = owner
  /\ pc'[q] = pc[q] /\ pos'[q] = pos[q] /\ batch'[q] = batch[q] /\ nowMS'[q] = nowMS[q]
  /\ seed'[q] = seed[q] /\ cursor'[q] = cursor[q] /\ stamp'[q] = stamp[q]

LEMMA FloorKept ==
  ASSUME NEW q \in Procs, FloorInv(q), Quiet(q), Shrinks
  PROVE  FloorInv(q)'
<1>1. Prepared(q)' = Prepared(q) BY DEF Quiet, Prepared
<1>2. (Cardinality(Prepared(q)))' = Cardinality(Prepared(q)) BY <1>1
<1>3. /\ pc'[q] # "idle" => owner' = q
      /\ pc'[q] = "stamp" => nowMS'[q] # 0
      /\ pc'[q] = "insert" => stamp'[q] # 0 /\ cursor'[q] = stamp'[q] + (Cardinality(Prepared(q)))'
  BY <1>2 DEF FloorInv, Quiet
<1>4. ASSUME NEW m \in Messages, Active(m)'
      PROVE  /\ owner' = q /\ cursor'[q] # 0 => createdAt'[m] < cursor'[q]
             /\ pc'[q] = "stamp" => createdAt'[m] <= seed'[q]
             /\ pc'[q] = "insert" => createdAt'[m] < stamp'[q]
  <2>1. Active(m) /\ createdAt'[m] = createdAt[m] BY <1>4 DEF Shrinks
  <2> QED BY <2>1 DEF FloorInv, Quiet
<1> QED BY <1>3, <1>4 DEF FloorInv

\* Without a batch in hand the floor is the cursor, if q owns the partition and has one.
LEMMA FloorIdle ==
  ASSUME NEW q \in Procs, pc'[q] = "idle", owner' # q \/ cursor'[q] = 0
  PROVE  FloorInv(q)'
BY DEF FloorInv

\* Outside of the two waits for the database the cursor is all that p holds.
LEMMA FloorPassive ==
  ASSUME NEW p \in Procs, FloorInv(p), owner' = owner, cursor'[p] = cursor[p],
         pc'[p] \in {"idle", "seed", "backoff", "heartbeat"}, pc'[p] # "idle" => owner = p,
         Shrinks
  PROVE  FloorInv(p)'
<1>1. ASSUME NEW m \in Messages, Active(m)'
      PROVE  owner' = p /\ cursor'[p] # 0 => createdAt'[m] < cursor'[p]
  <2>1. Active(m) /\ createdAt'[m] = createdAt[m] BY <1>1 DEF Shrinks
  <2> QED BY <2>1 DEF FloorInv
<1>2. pc'[p] # "stamp" /\ pc'[p] # "insert" OBVIOUS
<1> QED BY <1>1, <1>2 DEF FloorInv

\* Stamps drawn above the active rows.
LEMMA FloorStamped ==
  ASSUME Typed, NEW p \in Procs, NEW clock \in Nat \ {0}, NEW floor \in Nat, Stamp(p, clock, floor),
         owner = p, UNCHANGED <<owner, pos, batch, table>>,
         \A m \in Messages : Active(m) => createdAt[m] < Larger(clock, floor)
  PROVE  FloorInv(p)'
<1>1. PICK s \in Nat : s = Larger(clock, floor) /\ s # 0 BY DEF Larger
<1>2. PICK c \in Nat : c = Cardinality(Prepared(p)) BY RankFacts
<1>3. stamp' = [stamp EXCEPT ![p] = s] /\ cursor' = [cursor EXCEPT ![p] = s + c]
      /\ pc' = [pc EXCEPT ![p] = "insert"]
  BY <1>1, <1>2 DEF Stamp, Goto
<1>4. pc'[p] = "insert" /\ stamp'[p] = s /\ cursor'[p] = s + c BY <1>3 DEF Typed
<1>5. Prepared(p)' = Prepared(p) BY DEF Prepared
<1>6. (Cardinality(Prepared(p)))' = c BY <1>2, <1>5
<1>7. ASSUME NEW m \in Messages, Active(m)' PROVE createdAt'[m] < s /\ createdAt'[m] < s + c
  <2>1. Active(m) /\ createdAt'[m] = createdAt[m] BY <1>7 DEF table, Active
  <2>2. createdAt[m] \in Nat /\ createdAt[m] < s BY <2>1, <1>1 DEF Typed
  <2> QED BY <2>1, <2>2
<1> QED BY <1>1, <1>4, <1>6, <1>7 DEF FloorInv

\* The insert of the chunk in hand of the owner.
Inserts(p) ==
  /\ pc[p] = "insert" /\ Insert(p)
  /\ UNCHANGED <<owner, cursor, started>>

LEMMA InsertPrefix ==
  ASSUME Typed, Durable, kind # "sqs", PrefixInv, NEW p \in Procs, Inserts(p)
  PROVE  PrefixInv'
<1>1. \A m \in Messages :
        \/ status'[m] = status[m]
        \/ m \in Prepared(p) /\ status[m] = "none" /\ status'[m] = "enqueued"
  BY InsertFacts DEF Inserts
<1>2. \A m \in Prepared(p) : m \in Messages => status'[m] # "none"
  BY InsertFacts DEF Inserts
<1>3. Messages \subseteq Nat BY MessagesFinite
<1>4. pos[p] \in Nat /\ batch[p] \in Nat BY DEF Typed
<1>5. PICK e \in Nat : e = ChunkEnd(pos[p], batch[p]) BY <1>4, ChunkFacts
<1>6. Prepared(p) = (pos[p] .. e) \ Poison BY <1>5 DEF Prepared
<1>7. \A m \in Messages : Handled(m) => Handled(m)' BY <1>1 DEF Handled
<1>8. ASSUME NEW k \in Messages, NEW m \in Messages, k < m, status'[m] # "none" PROVE Handled(k)'
  <2>1. CASE status[m] # "none" BY <2>1, <1>7, <1>8 DEF PrefixInv
  <2>2. CASE status[m] = "none"
    <3>1. m \in pos[p] .. e BY <2>2, <1>1, <1>6, <1>8
    <3>2. CASE k < pos[p]
      <4>1. Handled(k) BY <3>2 DEF Durable, PositionsInv
      <4> QED BY <4>1, <1>7
    <3>3. CASE ~(k < pos[p])
      <4>1. k \in pos[p] .. e BY <3>1, <3>3, <1>3, <1>4, <1>8
      <4>2. k \in Poison \/ k \in Prepared(p) BY <4>1, <1>6
      <4> QED BY <4>2, <1>2 DEF Handled
    <3> QED BY <3>2, <3>3
  <2> QED BY <2>1, <2>2
<1>9. ASSUME NEW m \in Messages, NEW i \in DOMAIN started, status'[m] = "enqueued" PROVE started[i] < m
  <2>1. CASE status[m] = "enqueued" BY <2>1 DEF PrefixInv
  <2>2. CASE status[m] = "none" /\ m \in Prepared(p)
    <3>1. started[i] \in Messages BY DEF Typed
    <3>2. status[started[i]] # "none" BY DEF Durable, StartedInv
    <3>3. ~Handled(m) BY <2>2, <1>6 DEF Handled
    <3>4. m # started[i] BY <2>2, <3>2
    <3>5. ~(m < started[i]) BY <3>1, <3>2, <3>3 DEF PrefixInv
    <3>6. started[i] \in Nat /\ m \in Nat BY <3>1, <1>3
    <3> QED BY <3>4, <3>5, <3>6
  <2> QED BY <2>1, <2>2, <1>1, <1>9
<1>10. started' = started BY DEF Inserts
<1> QED BY <1>8, <1>9, <1>10 DEF PrefixInv

LEMMA InsertStamps ==
  ASSUME Typed, Durable, kind # "sqs", PrefixInv, StampsInv, NEW p \in Procs, FloorInv(p), Inserts(p)
  PROVE  /\ StampsInv'
         /\ \A m \in Messages : Active(m)' => createdAt'[m] < cursor'[p]
<1> DEFINE rank(m) == Cardinality({k \in Prepared(p) : k < m})
           fresh(m) == m \in Prepared(p) /\ status[m] = "none"
<1>1. \A m \in Messages :
        \/ ~fresh(m) /\ status'[m] = status[m] /\ createdAt'[m] = createdAt[m]
        \/ fresh(m) /\ status'[m] = "enqueued" /\ createdAt'[m] = stamp[p] + rank(m)
  BY InsertFacts DEF Inserts
<1>2. PICK c \in Nat : c = Cardinality(Prepared(p)) BY RankFacts
<1>3. /\ \A m \in Messages : fresh(m) => rank(m) \in Nat /\ rank(m) < c
      /\ \A k, m \in Messages : fresh(k) /\ fresh(m) /\ k < m => rank(k) < rank(m)
  BY <1>2, RankFacts
<1>4. \A k, m \in Messages : fresh(k) /\ status[m] # "none" => ~(k < m)
  <2> SUFFICES ASSUME NEW k \in Messages, NEW m \in Messages, fresh(k), status[m] # "none", k < m
               PROVE  FALSE
    OBVIOUS
  <2>1. Handled(k) BY DEF PrefixInv
  <2>2. k \notin Poison BY DEF Prepared
  <2> QED BY <2>1, <2>2 DEF Handled
<1> HIDE DEF rank, fresh
<1>5. PICK s \in Nat : s = stamp[p] /\ s # 0 /\ cursor[p] = s + c
  BY <1>2 DEF Typed, FloorInv, Inserts
<1>6. \A m \in Messages : createdAt[m] \in Nat BY DEF Typed
<1>7. \A m \in Messages : Active(m) => createdAt[m] < s /\ createdAt[m] # 0
  BY <1>5 DEF FloorInv, StampsInv, Inserts
<1>8. ASSUME NEW m \in Messages, Active(m)'
      PROVE  \/ ~fresh(m) /\ Active(m) /\ status[m] # "none" /\ createdAt'[m] = createdAt[m]
             \/ fresh(m) /\ createdAt'[m] = s + rank(m)
  BY <1>1, <1>5, <1>8 DEF Active
<1>9. ASSUME NEW m \in Messages, Active(m)'
      PROVE  createdAt'[m] # 0 /\ createdAt'[m] < s + c
  <2>1. CASE ~fresh(m) /\ Active(m) /\ createdAt'[m] = createdAt[m] BY <2>1, <1>6, <1>7
  <2>2. CASE fresh(m) /\ createdAt'[m] = s + rank(m) BY <2>2, <1>3, <1>5
  <2> QED BY <2>1, <2>2, <1>8, <1>9
<1>10. ASSUME NEW k \in Messages, NEW m \in Messages, Active(k)', Active(m)', k < m
       PROVE  createdAt'[k] < createdAt'[m]
  <2>1. CASE fresh(k) /\ fresh(m)
    <3>1. createdAt'[k] = s + rank(k) /\ createdAt'[m] = s + rank(m) BY <2>1, <1>8, <1>10
    <3>2. rank(k) \in Nat /\ rank(m) \in Nat /\ rank(k) < rank(m) BY <2>1, <1>3, <1>10
    <3> QED BY <3>1, <3>2
  <2>2. CASE ~fresh(k) /\ fresh(m)
    <3>1. createdAt'[k] = createdAt[k] /\ Active(k) /\ createdAt'[m] = s + rank(m) BY <2>2, <1>8, <1>10
    <3>2. rank(m) \in Nat /\ createdAt[k] \in Nat /\ createdAt[k] < s BY <2>2, <3>1, <1>3, <1>6, <1>7
    <3> QED BY <3>1, <3>2
  <2>3. CASE fresh(k) /\ ~fresh(m) BY <2>3, <1>4, <1>8, <1>10
  <2>4. CASE ~fresh(k) /\ ~fresh(m)
    <3>1. Active(k) /\ Active(m) /\ createdAt'[k] = createdAt[k] /\ createdAt'[m] = createdAt[m]
      BY <2>4, <1>8, <1>10
    <3> QED BY <3>1, <1>10 DEF StampsInv
  <2> QED BY <2>1, <2>2, <2>3, <2>4
<1>11. cursor'[p] = s + c BY <1>5 DEF Inserts
<1> QED BY <1>9, <1>10, <1>11 DEF StampsInv

\* The queue of concurrency one takes the row with the smallest stamp, the
\* first of the partition still enqueued.
LEMMA DequeuePrefix ==
  ASSUME Typed, Durable, PrefixInv, StampsInv, Dequeue
  PROVE  PrefixInv'
<1>1. PICK m \in Messages :
        /\ status[m] = "enqueued"
        /\ \A k \in Messages : status[k] = "enqueued" => createdAt[m] <= createdAt[k]
        /\ status' = [status EXCEPT ![m] = "pending"]
        /\ started' = Append(started, m)
  BY DEF Dequeue
<1>2. PICK n \in Nat : n = Len(started) BY DEF Typed
<1>3. /\ DOMAIN started = 1 .. n /\ DOMAIN started' = 1 .. n + 1
      /\ started'[n + 1] = m /\ \A i \in 1 .. n : started'[i] = started[i]
  BY <1>1, <1>2 DEF Typed
<1>4. status'[m] = "pending" /\ \A k \in Messages : k # m => status'[k] = status[k]
  BY <1>1 DEF Typed
<1>5. \A i \in 1 .. n + 1 : i \in 1 .. n \/ i = n + 1 OBVIOUS
<1>6. \A i \in 1 .. n : started[i] < m BY <1>1, <1>3 DEF PrefixInv
<1>7. ASSUME NEW k \in Messages, status[k] = "enqueued", k # m PROVE m < k
  <2>1. k \in Nat /\ m \in Nat BY MessagesFinite
  <2>2. createdAt[k] \in Nat /\ createdAt[m] \in Nat /\ createdAt[m] <= createdAt[k]
    BY <1>1, <1>7 DEF Typed
  <2>3. ~(k < m)
    <3>1. k < m => createdAt[k] < createdAt[m] BY <1>1, <1>7 DEF StampsInv, Active
    <3> QED BY <3>1, <2>2
  <2> QED BY <2>1, <2>3, <1>7
<1>8. \A k, l \in Messages : k < l /\ status'[l] # "none" => Handled(k)'
  <2>1. \A k \in Messages : status[k] = "none" <=> status'[k] = "none" BY <1>1, <1>4
  <2> QED BY <2>1 DEF PrefixInv, Handled
<1>9. \A k \in Messages : \A i \in 1 .. n + 1 : status'[k] = "enqueued" => started'[i] < k
  <2> SUFFICES ASSUME NEW k \in Messages, NEW i \in 1 .. n + 1, status'[k] = "enqueued"
               PROVE  started'[i] < k
    OBVIOUS
  <2>1. status[k] = "enqueued" /\ k # m BY <1>4
  <2>2. CASE i \in 1 .. n BY <2>1, <2>2, <1>3 DEF PrefixInv
  <2>3. CASE i = n + 1 BY <2>1, <2>3, <1>3, <1>7
  <2> QED BY <2>2, <2>3, <1>5
<1>10. \A i, j \in 1 .. n + 1 : i < j => started'[i] < started'[j]
  <2> SUFFICES ASSUME NEW i \in 1 .. n + 1, NEW j \in 1 .. n + 1, i < j
               PROVE  started'[i] < started'[j]
    OBVIOUS
  <2>1. i \in 1 .. n BY <1>2
  <2>2. CASE j \in 1 .. n BY <2>1, <2>2, <1>3 DEF PrefixInv
  <2>3. CASE j = n + 1 BY <2>1, <2>3, <1>3, <1>6
  <2> QED BY <2>2, <2>3, <1>5
<1> QED BY <1>3, <1>8, <1>9, <1>10 DEF PrefixInv

LEMMA FinishTable ==
  ASSUME Typed, PrefixInv, StampsInv, Finish
  PROVE  PrefixInv' /\ StampsInv' /\ Shrinks
<1>1. PICK m \in Messages : /\ status[m] = "pending"
                            /\ status' = [status EXCEPT ![m] = "done"]
                            /\ createdAt' = [createdAt EXCEPT ![m] = 0]
                            /\ started' = started
  BY DEF Finish
<1>2. /\ status'[m] = "done"
      /\ \A k \in Messages : k # m => status'[k] = status[k] /\ createdAt'[k] = createdAt[k]
  BY <1>1 DEF Typed
<1>3. Shrinks BY <1>2 DEF Shrinks, Active
<1>4. PrefixInv'
  <2>1. \A k \in Messages : status[k] = "none" <=> status'[k] = "none" BY <1>1, <1>2
  <2>2. \A k \in Messages : status'[k] = "enqueued" => status[k] = "enqueued" BY <1>2
  <2>3. \A k, l \in Messages : k < l /\ status'[l] # "none" => Handled(k)'
    BY <2>1 DEF PrefixInv, Handled
  <2> QED BY <1>1, <2>2, <2>3 DEF PrefixInv
<1>5. StampsInv' BY <1>3 DEF Shrinks, StampsInv
<1> QED BY <1>3, <1>4, <1>5

LEMMA DequeueTable ==
  ASSUME Typed, StampsInv, Dequeue
  PROVE  StampsInv' /\ Shrinks
<1>1. PICK m \in Messages : status[m] = "enqueued" /\ status' = [status EXCEPT ![m] = "pending"]
  BY DEF Dequeue
<1>2. createdAt' = createdAt BY DEF Dequeue
<1>3. \A k \in Messages : Active(k)' => Active(k) BY <1>1 DEF Active, Typed
<1>4. Shrinks BY <1>2, <1>3 DEF Shrinks
<1> QED BY <1>4 DEF Shrinks, StampsInv

LEMMA SameTable ==
  ASSUME PrefixInv, StampsInv, UNCHANGED table
  PROVE  PrefixInv' /\ StampsInv' /\ Shrinks
BY DEF table, PrefixInv, StampsInv, Shrinks, Active, Handled

\* A step of the handler of p, and of the rows only what is added for p.
OnlyOf(p) ==
  /\ owner' = owner
  /\ \A q \in Procs : q # p => Quiet(q)

LEMMA HandlerSteps ==
  ASSUME Typed, NEW p \in Procs, Run(p) \/ ConsumerCrash(p) \/ Exit(p) \/ CommitOffset(p) \/ Fetch(p) \/ BatchStep(p)
  PROVE  OnlyOf(p)
<1>1. ASSUME /\ owner' = owner
             /\ pc' = pc \/ \E x : pc' = [pc EXCEPT ![p] = x]
             /\ pos' = pos \/ \E x : pos' = [pos EXCEPT ![p] = x]
             /\ batch' = batch \/ \E x : batch' = [batch EXCEPT ![p] = x]
             /\ nowMS' = nowMS \/ \E x : nowMS' = [nowMS EXCEPT ![p] = x]
             /\ seed' = seed \/ \E x : seed' = [seed EXCEPT ![p] = x]
             /\ cursor' = cursor \/ \E x : cursor' = [cursor EXCEPT ![p] = x]
             /\ stamp' = stamp \/ \E x : stamp' = [stamp EXCEPT ![p] = x]
      PROVE  OnlyOf(p)
  <2> SUFFICES ASSUME NEW q \in Procs, q # p PROVE Quiet(q) BY <1>1 DEF OnlyOf
  <2>1. pc'[q] = pc[q] BY <1>1 DEF Typed
  <2>2. pos'[q] = pos[q] BY <1>1 DEF Typed
  <2>3. batch'[q] = batch[q] BY <1>1 DEF Typed
  <2>4. nowMS'[q] = nowMS[q] BY <1>1 DEF Typed
  <2>5. seed'[q] = seed[q] BY <1>1 DEF Typed
  <2>6. cursor'[q] = cursor[q] BY <1>1 DEF Typed
  <2>7. stamp'[q] = stamp[q] BY <1>1 DEF Typed
  <2> QED BY <1>1, <2>1, <2>2, <2>3, <2>4, <2>5, <2>6, <2>7 DEF Quiet
<1>2. CASE Run(p) BY <1>1, <1>2 DEF Run, broker
<1>3. CASE ConsumerCrash(p) BY <1>1, <1>3 DEF ConsumerCrash, Return, Goto, broker
<1>4. CASE Exit(p) BY <1>1, <1>4 DEF Exit, Return, Goto, broker
<1>5. CASE CommitOffset(p) BY <1>1, <1>5 DEF CommitOffset, handler
<1>6. CASE Fetch(p) BY <1>1, <1>6 DEF Fetch, NextChunk, Goto, broker
<1>7. CASE ReadSeed(p) BY <1>1, <1>7 DEF ReadSeed, Stamp, Goto, broker
<1>8. CASE AssignBatchCreatedAt(p) BY <1>1, <1>8 DEF AssignBatchCreatedAt, Stamp, Goto, broker
<1>9. CASE EnqueueWorkflows(p) BY <1>1, <1>9 DEF EnqueueWorkflows, ResolveOffsets, Goto, broker
<1>10. CASE Backoff(p) BY <1>1, <1>10 DEF Backoff, Return, Goto, broker
<1>11. CASE Heartbeat(p) BY <1>1, <1>11 DEF Heartbeat, Return, NextChunk, Goto, broker
<1> QED BY <1>2, <1>3, <1>4, <1>5, <1>6, <1>7, <1>8, <1>9, <1>10, <1>11 DEF BatchStep

\* The floor of the process at work, action by action.
LEMMA FloorNext ==
  ASSUME Typed, ClientsInv, Durable, kind # "sqs", StampsInv, UNCHANGED table,
         NEW p \in Procs, FloorInv(p), owner' = owner,
         \/ Run(p) \/ ConsumerCrash(p) \/ Exit(p) \/ CommitOffset(p) \/ Fetch(p)
         \/ ReadSeed(p) \/ AssignBatchCreatedAt(p) \/ EnqueueWorkflows(p) \/ Backoff(p) \/ Heartbeat(p)
  PROVE  FloorInv(p)'
<1>1. Shrinks BY DEF table, Shrinks, Active
<1>2. pc[p] # "idle" => owner = p BY DEF FloorInv
<1>3. /\ pc \in [Procs -> Places] /\ pos \in [Procs -> Nat] /\ batch \in [Procs -> Nat]
      /\ nowMS \in [Procs -> Nat] /\ seed \in [Procs -> Nat] /\ cursor \in [Procs -> Nat]
      /\ now \in Nat \ {0} /\ \A m \in Messages : createdAt[m] \in Nat
  BY DEF Typed
<1>4. ASSUME NEW place \in {"idle", "seed", "backoff", "heartbeat"}, Goto(p, place),
             cursor' = cursor, place = "idle" \/ owner = p
      PROVE  FloorInv(p)'
  <2>1. pc'[p] = place /\ cursor'[p] = cursor[p] BY <1>3, <1>4 DEF Goto
  <2> QED BY <2>1, <1>1, <1>4, FloorPassive
<1>5. CASE Run(p)
  <2>1. pc' = pc /\ cursor' = cursor /\ pc[p] = "idle" BY <1>5 DEF Run, ClientsInv
  <2> QED BY <2>1, <1>1, FloorPassive
<1>6. CASE ConsumerCrash(p)
  <2>1. Goto(p, "idle") /\ cursor' = cursor BY <1>6 DEF ConsumerCrash, Return
  <2> QED BY <2>1, <1>4
<1>7. CASE Exit(p)
  <2>1. pc'[p] = "idle" /\ cursor'[p] = 0 BY <1>3, <1>7 DEF Exit, Return, Goto
  <2> QED BY <2>1, FloorIdle
<1>8. CASE CommitOffset(p)
  <2>1. Quiet(p) BY <1>8 DEF CommitOffset, handler, Quiet
  <2> QED BY <2>1, <1>1, FloorKept
<1>9. CASE Fetch(p)
  <2>1. Goto(p, "heartbeat") \/ Goto(p, "seed") BY <1>9 DEF Fetch, NextChunk
  <2>2. cursor' = cursor /\ owner = p BY <1>9 DEF Fetch
  <2> QED BY <2>1, <2>2, <1>4
<1>10. CASE ReadSeed(p)
  <2>1. owner = p /\ pos' = pos /\ batch' = batch BY <1>2, <1>10 DEF ReadSeed
  <2>2. CASE cursor[p] # 0 /\ Stamp(p, now, cursor[p])
    <3>1. cursor[p] \in Nat BY <1>3
    <3>2. \A m \in Messages : Active(m) => createdAt[m] < cursor[p] BY <2>1, <2>2 DEF FloorInv
    <3>3. \A m \in Messages : Active(m) => createdAt[m] < Larger(now, cursor[p])
      BY <3>1, <3>2, <1>3 DEF Larger
    <3> QED BY <2>1, <2>2, <3>1, <3>3, <1>3, FloorStamped
  <2>3. CASE /\ cursor[p] = 0 /\ nowMS' = [nowMS EXCEPT ![p] = now]
             /\ seed' = [seed EXCEPT ![p] = ActiveMax]
             /\ Goto(p, "stamp") /\ UNCHANGED <<stamp, cursor, faults>>
    <3>1. /\ pc'[p] = "stamp" /\ nowMS'[p] = now /\ seed'[p] = ActiveMax /\ cursor'[p] = 0
      BY <2>3, <1>3 DEF Goto
    <3>2. now # 0 BY <1>3
    <3>3. ASSUME NEW m \in Messages, Active(m)' PROVE createdAt'[m] <= seed'[p]
      <4>1. Active(m) /\ createdAt'[m] = createdAt[m] BY <3>3, <1>1 DEF Shrinks
      <4> QED BY <4>1, <3>1, SeedIsLargest
    <3> QED BY <2>1, <3>1, <3>2, <3>3 DEF FloorInv
  <2>4. CASE Goto(p, "backoff") /\ UNCHANGED <<nowMS, seed, stamp, cursor>>
    BY <2>1, <2>4, <1>4
  <2> QED BY <2>2, <2>3, <2>4, <1>10 DEF ReadSeed
<1>11. CASE AssignBatchCreatedAt(p)
  <2>1. owner = p /\ pos' = pos /\ batch' = batch /\ pc[p] = "stamp"
    BY <1>2, <1>11 DEF AssignBatchCreatedAt
  <2>2. PICK floor \in Nat : floor = IF seed[p] = 0 THEN 0 ELSE seed[p] + 1 BY <1>3
  <2>3. Stamp(p, nowMS[p], floor) BY <2>2, <1>11 DEF AssignBatchCreatedAt
  <2>4. nowMS[p] \in Nat \ {0} BY <1>3, <2>1 DEF FloorInv
  <2>5. ASSUME NEW m \in Messages, Active(m) PROVE createdAt[m] < Larger(nowMS[p], floor)
    <3>1. createdAt[m] <= seed[p] /\ createdAt[m] # 0 BY <2>1, <2>5 DEF FloorInv, StampsInv
    <3>2. createdAt[m] \in Nat /\ seed[p] \in Nat BY <1>3
    <3>3. createdAt[m] < floor BY <3>1, <3>2, <2>2
    <3>4. nowMS[p] \in Nat BY <2>4
    <3> QED BY <3>2, <3>3, <3>4, BelowLarger
  <2> QED BY <2>1, <2>3, <2>4, <2>5, FloorStamped
<1>12. CASE EnqueueWorkflows(p)
  <2>1. owner = p /\ cursor' = cursor BY <1>2, <1>12 DEF EnqueueWorkflows
  <2>2. Goto(p, "heartbeat") \/ Goto(p, "backoff") BY <1>12 DEF EnqueueWorkflows, ResolveOffsets
  <2> QED BY <2>1, <2>2, <1>4
<1>13. CASE Backoff(p)
  <2>1. owner = p /\ cursor' = cursor BY <1>2, <1>13 DEF Backoff
  <2>2. Goto(p, "idle") \/ Goto(p, "seed") BY <1>13 DEF Backoff, Return
  <2> QED BY <2>1, <2>2, <1>4
<1>14. CASE Heartbeat(p)
  <2>1. owner = p /\ cursor' = cursor BY <1>2, <1>14 DEF Heartbeat
  <2>2. Goto(p, "idle") \/ Goto(p, "seed") \/ Goto(p, "heartbeat") BY <1>14 DEF Heartbeat, Return, NextChunk
  <2> QED BY <2>1, <2>2, <1>4
<1> QED BY <1>5, <1>6, <1>7, <1>8, <1>9, <1>10, <1>11, <1>12, <1>13, <1>14

LEMMA OrderedNext ==
  ASSUME Typed, ClientsInv, Durable, Ordered, Step
  PROVE  Ordered'
<1>1. SUFFICES ASSUME kind' # "sqs", clean'
               PROVE  PrefixInv' /\ StampsInv' /\ \A q \in Procs : FloorInv(q)'
  BY DEF Ordered
<1>2. kind # "sqs" BY <1>1, TableSteps DEF Durable
<1>3. ASSUME clean, UNCHANGED table, \A q \in Procs : FloorInv(q)'
      PROVE  PrefixInv' /\ StampsInv' /\ \A q \in Procs : FloorInv(q)'
  BY <1>2, <1>3, SameTable DEF Ordered
<1>4. CASE Still
  <2>1. clean /\ UNCHANGED table /\ \A q \in Procs : Quiet(q) BY <1>1, <1>4 DEF Still, handler, Quiet
  <2>2. PrefixInv /\ StampsInv /\ \A q \in Procs : FloorInv(q) BY <1>2, <2>1 DEF Ordered
  <2>3. Shrinks BY <2>1, <2>2, SameTable
  <2> QED BY <2>1, <2>2, <2>3, <1>3, FloorKept
<1>5. CASE Dequeue \/ Finish
  <2>1. clean /\ \A q \in Procs : Quiet(q)
    BY <1>1, <1>5 DEF Dequeue, Finish, handler, broker, Quiet
  <2>2. PrefixInv /\ StampsInv /\ \A q \in Procs : FloorInv(q) BY <1>2, <2>1 DEF Ordered
  <2>3. PrefixInv' /\ StampsInv' /\ Shrinks
    BY <1>5, <2>2, DequeuePrefix, DequeueTable, FinishTable
  <2> QED BY <2>1, <2>2, <2>3, FloorKept
<1>6. ASSUME NEW p \in Procs, Rebalance(p)
      PROVE  PrefixInv' /\ StampsInv' /\ \A q \in Procs : FloorInv(q)'
  <2>1. clean /\ UNCHANGED table /\ cursor'[p] = 0 /\ owner' = p /\ \A q \in Procs : pc'[q] = "idle"
    BY <1>1, <1>6 DEF Rebalance
  <2> QED BY <2>1, <1>3, FloorIdle
<1>7. ASSUME NEW p \in Procs, Run(p) \/ ConsumerCrash(p) \/ Exit(p) \/ CommitOffset(p) \/ Fetch(p) \/ BatchStep(p)
      PROVE  PrefixInv' /\ StampsInv' /\ \A q \in Procs : FloorInv(q)'
  <2>1. clean
    BY <1>1, <1>7 DEF Run, ConsumerCrash, Exit, CommitOffset, Fetch, BatchStep, ReadSeed,
                     AssignBatchCreatedAt, EnqueueWorkflows, Backoff, Heartbeat
  <2>2. PrefixInv /\ StampsInv /\ \A q \in Procs : FloorInv(q) BY <1>2, <2>1 DEF Ordered
  <2>3. OnlyOf(p) BY <1>7, HandlerSteps
  <2>4. owner' = owner /\ \A q \in Procs : q # p => Quiet(q) BY <2>3 DEF OnlyOf
  <2>5. CASE UNCHANGED table
    <3>1. Shrinks BY <2>2, <2>5, SameTable
    <3>2. FloorInv(p)' BY <1>2, <1>7, <2>2, <2>4, <2>5, FloorNext DEF BatchStep
    <3>3. \A q \in Procs : q # p => FloorInv(q)' BY <2>2, <2>4, <3>1, FloorKept
    <3> QED BY <2>1, <2>5, <3>2, <3>3, <1>3
  <2>6. CASE EnqueueWorkflows(p) /\ Insert(p)
    <3>1. Inserts(p) BY <2>4, <2>6 DEF EnqueueWorkflows, Inserts
    <3>2. PrefixInv' BY <1>2, <2>2, <3>1, InsertPrefix
    <3>3. StampsInv' /\ \A m \in Messages : Active(m)' => createdAt'[m] < cursor'[p]
      BY <1>2, <2>2, <3>1, InsertStamps
    <3>4. owner = p BY <2>2, <3>1 DEF FloorInv, Inserts
    <3>5. FloorInv(p)'
      <4>1. Goto(p, "heartbeat") \/ Goto(p, "backoff") BY <2>6 DEF EnqueueWorkflows, ResolveOffsets
      <4>2. pc'[p] \in {"heartbeat", "backoff"} BY <4>1 DEF Goto, Typed
      <4> QED BY <2>4, <3>3, <3>4, <4>2 DEF FloorInv
    <3>6. ASSUME NEW q \in Procs, q # p PROVE FloorInv(q)'
      <4>1. pc[q] = "idle" BY <2>2, <3>4, <3>6 DEF FloorInv
      <4>2. pc'[q] = "idle" /\ owner' # q BY <2>4, <3>4, <3>6, <4>1 DEF Quiet
      <4> QED BY <4>2, FloorIdle
    <3> QED BY <3>2, <3>3, <3>5, <3>6
  <2>7. UNCHANGED table \/ (EnqueueWorkflows(p) /\ Insert(p))
    BY <1>7 DEF Run, ConsumerCrash, Exit, CommitOffset, Fetch, BatchStep, ReadSeed,
                AssignBatchCreatedAt, EnqueueWorkflows, Backoff, Heartbeat, table
  <2> QED BY <2>5, <2>6, <2>7
<1> QED BY <1>2, <1>4, <1>5, <1>6, <1>7 DEF Step

LEMMA InvInit == Init => Inv
<1> SUFFICES ASSUME Init PROVE Inv OBVIOUS
<1>1. ClientsInv BY DEF Init, ClientsInv
<1>2. Ordered
  <2>1. PrefixInv /\ StampsInv BY DEF Init, PrefixInv, StampsInv, Active
  <2>2. \A p \in Procs : FloorInv(p) BY DEF Init, FloorInv, Active
  <2> QED BY <2>1, <2>2 DEF Ordered
<1> QED BY <1>1, <1>2, TypedInit, DurableInit DEF Inv

LEMMA InvNext == Inv /\ [Next]_vars => Inv'
<1> SUFFICES ASSUME Inv, [Next]_vars PROVE Inv' OBVIOUS
<1>1. Step BY Steps DEF Inv, Durable
<1>2. Typed' BY <1>1, TypedNext DEF Inv, Durable
<1>3. ClientsInv' BY ClientsNext DEF Inv
<1>4. Durable' BY <1>1, DurableNext DEF Inv
<1>5. Ordered' BY <1>1, OrderedNext DEF Inv
<1> QED BY <1>2, <1>3, <1>4, <1>5 DEF Inv

\* Ordered consumers: the workflows of a partition start in the order of its
\* offsets, through crashes, restarts, rebuilt consumers, failed and unanswered
\* transactions and moves of the partition between batches to a process new to it.
THEOREM PartitionOrder == Spec => []OrderKept
<1>1. Inv => OrderKept BY DEF Inv, Ordered, PrefixInv, OrderKept
<1> QED BY <1>1, InvInit, InvNext, PTL DEF Spec

=============================================================================
