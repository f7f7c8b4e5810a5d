SPECIFICATION FairSpec
CONSTANTS
  InMemory = {internal, qb}
  DbQueues = {qa, qb}
  Listened = {internal, qa}
  Intervals = {1, 2}
  MaxInterval = 3
  Maintenance = 2
  Lanes = 1
  MaxFaults = 2
  MayStop = TRUE
  Null = Null
CHECK_DEADLOCK FALSE
INVARIANTS LanesBounded
PROPERTIES PolledForever
