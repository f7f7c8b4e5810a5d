SPECIFICATION Spec
CONSTANTS
  Null = Null
  AppVersion = "v1"
  Now = 5
  Requests <- MCRequests
  Tables <- MCTables
  Plans <- MCPlans
CHECK_DEADLOCK FALSE
INVARIANTS OneConnection Acknowledged
PROPERTY Reconnects
