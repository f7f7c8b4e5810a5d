SPECIFICATION Spec
CONSTANTS
  p1 = p1
  p2 = p2
  Procs <- MCProcs
  Configs <- MCConfigs
  MaxFaults = 3
  Null = Null
CHECK_DEADLOCK FALSE
INVARIANTS AppliedOnce CrashTransparent
