----------------------------- MODULE MCMessaging -----------------------------
(* Instances of Messaging for TLC. *)
EXTENDS Messaging

\* A workflow sends two messages to a workflow that calls recv twice.
TwoRecvs ==
    [kind |-> [s \in Senders |-> "workflow"], sends |-> [s \in Senders |-> 2],
     calls |-> <<1, 3>>, sleeps |-> {}, faults |-> 1]

\* It calls recv once, and more goes wrong.
OneRecv == [TwoRecvs EXCEPT !.calls = <<1>>, !.faults = 2]

\* A client sends one under an idempotency key to a workflow that sleeps after its recv.
RecvAndSleep ==
    [TwoRecvs EXCEPT !.kind = [s \in Senders |-> "keyed"], !.sends = [s \in Senders |-> 1],
                     !.sleeps = {3}]

MCPlans == {TwoRecvs, OneRecv, RecvAndSleep}
=============================================================================
