----------------------------- MODULE MCLineage -----------------------------
(* Instances of Lineage: a root r with a child and a grandchild, for the
   operations that go down a tree; and a root s that publishes, with a child,
   for the operations that copy it.  f is its fork, with a child of its own, and
   x a finished workflow.  e is also taken alone, with the fork d.             *)
EXTENDS Lineage

CONSTANTS r, c, g, s, e, f, d, x

MCProgram ==
  [w \in {r, c, g, s, e, f, d, x} |->
     CASE w = r -> <<"child", "getResult">>
       [] w = c -> <<"child", "waitAll">>
       [] w \in {s, f} -> <<"child", "event", "stream", "event", "getResult">>
       [] w \in {g, e, d} -> <<"stream">>
       [] w = x -> <<>>]

MCChild ==
  [w \in DOMAIN MCProgram |-> CASE w = r -> c [] w = c -> g [] w = s -> e [] w = f -> d [] OTHER -> Null]

Plan(root, fork, todo) == [root |-> root, fork |-> fork, todo |-> todo]

MCPlans ==
  {Plan(r, f, {"cancel", "delete"}), Plan(r, f, {"cancel", "timeout"}), Plan(r, f, {"cancel", "crash"}),
   Plan(r, f, {"timeout", "crash"}), Plan(r, f, {"gc", "crash"}), Plan(e, d, {"timeout", "fork", "crash"}),
   Plan(s, f, {"cancel", "fork"}), Plan(s, f, {"fork", "gc"}),
   Plan(s, f, {"export", "delete", "import"}), Plan(s, f, {"export", "gc", "import"})}
=============================================================================
