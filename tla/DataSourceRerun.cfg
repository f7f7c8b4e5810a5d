SPECIFICATION Spec
CONSTANTS
  p1 = p1
  p2 = p2
  Procs <- MCProcs
  Configs <- TypeOrmConfigs
  MaxFaults = 3
  Null = Null
INVARIANT RerunAgrees
CHECK_DEADLOCK FALSE
