--------------------------- MODULE Observability ---------------------------
(***************************************************************************)
(* What the listings of system_database.ts and workflow_management.ts      *)
(* answer for a given workflow_status table, and the tables of versions.   *)
(*                                                                         *)
(* A table is a function from workflow IDs to rows, a row a record of      *)
(* columns; the steps of a workflow (operation_outputs) are kept in the    *)
(* row, in function-ID order.  A filter is a record: "in" gives, for each  *)
(* column filtered by a list, the values asked for; "from" and "to" bound  *)
(* the time columns; the other fields are the flags.  NoTime stands for    *)
(* NULL in a time column, Null in the others.                              *)
(***************************************************************************)
EXTENDS Integers, Sequences, FiniteSets, SequencesExt, FiniteSetsExt

CONSTANT Null

NoTime == -1

Queued == {"ENQUEUED", "PENDING", "DELAYED"}

NoFilter == [in |-> <<>>, from |-> <<>>, to |-> <<>>, queuesOnly |-> FALSE,
             wasForkedFrom |-> Null, hasParent |-> Null, attributes |-> {}]

\* Every bound on a time column drops the rows where the column is NULL.
Within(row, f) ==
  /\ \A c \in DOMAIN f.from : row[c] # NoTime /\ row[c] >= f.from[c]
  /\ \A c \in DOMAIN f.to : row[c] # NoTime /\ row[c] <= f.to[c]

Flagged(row, f) ==
  /\ f.queuesOnly => row.queue_name # Null /\ row.status \in Queued
  /\ f.wasForkedFrom # Null => row.was_forked_from = f.wasForkedFrom
  /\ f.hasParent # Null => (row.parent_workflow_id # Null) = f.hasParent
  /\ f.attributes \subseteq row.attributes

(***************************************************************************)
(* listWorkflows                                                           *)
(***************************************************************************)

\* A list given empty becomes "IN ()", which the database refuses.
ListRefused(f) == \E c \in DOMAIN f.in : f.in[c] = {}

Matching(t, f) ==
  {w \in DOMAIN t :
     /\ \A c \in DOMAIN f.in : t[w][c] \in f.in[c]
     /\ Flagged(t[w], f)
     /\ Within(t[w], f)}

\* ORDER BY created_at alone: rows of one millisecond come in any order.
Orders(t, ws, desc) ==
  LET one == SetToSortSeq(ws, LAMBDA v, w : IF desc THEN t[v].created_at > t[w].created_at
                                                    ELSE t[v].created_at < t[w].created_at)
  IN  {[i \in DOMAIN one |-> swap[one[i]]] :
         swap \in {f \in Permutations(ws) : \A w \in ws : t[f[w]].created_at = t[w].created_at}}

\* A limit of zero is no limit.
Page(s, limit, offset) ==
  SubSeq(s, offset + 1, IF limit = 0 THEN Len(s) ELSE Min({offset + limit, Len(s)}))

listWorkflows(t, f, desc, limit, offset) ==
  {Page(s, limit, offset) : s \in Orders(t, Matching(t, f), desc)}

\* What listQueuedWorkflows adds to the filter it is given.
QueuedOnly(f) == [f EXCEPT !.queuesOnly = TRUE]

(***************************************************************************)
(* getWorkflowAggregates and getStepAggregates: only what they refuse      *)
(***************************************************************************)

\* Nothing to group by, nothing selected or an impossible bucket: an error.
AggregateRefused(groupBy, bucket, select) ==
  \/ bucket # Null /\ bucket <= 0
  \/ groupBy = {} /\ bucket = Null
  \/ select = {}

(***************************************************************************)
(* Application versions                                                    *)
(***************************************************************************)

\* vs: version names to timestamps, ORDER BY version_timestamp DESC.
listApplicationVersions(vs) ==
  {s \in [1 .. Cardinality(DOMAIN vs) -> DOMAIN vs] :
     \A i, j \in DOMAIN s : i < j => s[i] # s[j] /\ vs[s[i]] >= vs[s[j]]}

getLatestApplicationVersion(vs) == {s[1] : s \in listApplicationVersions(vs)}

updateApplicationVersionTimestamp(vs, v, now) ==
  IF v \in DOMAIN vs THEN [vs EXCEPT ![v] = now] ELSE vs
=============================================================================
