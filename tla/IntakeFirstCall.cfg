SPECIFICATION Spec
CONSTANTS
  d1 = d1
  d2 = d2
  d3 = d3
  w1 = w1
  s1 = s1
  s2 = s2
  p1 = p1
  Callers = {d1, d2, d3, w1, s1, s2, p1}
  Call <- MCCall
  InWorkflow = {w1, s1, p1}
  Workflow <- MCWorkflow
  FirstId <- AtOnce
  Present = {{s2, p1}}
  Period = 1
  DebounceTimeout = 1
  MaxTime = 2
  MaxFaults = 2
  Null = Null
INVARIANTS
  ReplayAgrees
CHECK_DEADLOCK FALSE
