---------------------------- MODULE MCPublishing ----------------------------
(* Instances of Publishing for TLC. *)
EXTENDS Publishing, TLC

Calls == <<"set", "write", "step", "set", "close">>
=============================================================================
