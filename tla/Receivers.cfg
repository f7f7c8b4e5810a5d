SPECIFICATION Spec
CONSTANTS
  Kinds = {"kafkajs", "confluent", "sqs"}
  Procs = {p1, p2}
  N = 3
  Poison = {2}
  BatchSize = 2
  MaxTime = 2
  MaxFaults = 1
  Null = Null
CHECK_DEADLOCK FALSE
INVARIANTS ProcessedOnce OrderKept
