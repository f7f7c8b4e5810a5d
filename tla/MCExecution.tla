----------------------------- MODULE MCExecution -----------------------------
(* Instances of Execution for TLC. *)
EXTENDS Execution, Functions, TLC

CONSTANT MaxEvents   \* crashes, cancels, resumes, sweeps and losses in all

FewEvents == SumFunction(env) <= MaxEvents

Symmetry == Permutations(Executors) \cup Permutations(Runs)
=============================================================================
