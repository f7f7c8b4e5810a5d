----------------------------- MODULE MCIntake -----------------------------
EXTENDS Intake, TLC

CONSTANTS d1, d2, d3, w1, s1, s2, p1

MCCall == [c \in {d1, d2, d3, w1} |-> "debounce"] @@ [c \in {s1, s2} |-> "singleton"] @@ [c \in {p1} |-> "start"]

\* d3 debounces another workflow under the same key.
MCWorkflow == [c \in Callers |-> IF c = d3 THEN "other" ELSE "one"]

AfterAStep == [c \in Callers |-> IF c \in InWorkflow THEN 1 ELSE 0]
AtOnce == [c \in Callers |-> 0]
=============================================================================
