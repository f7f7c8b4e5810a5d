SPECIFICATION FairSpec
CONSTANTS
  p1 = p1
  p2 = p2
  Process = {p1, p2}
  MaxTime = 5
  Horizon = 2
  Crontabs <- MCCrontabs
  Clock <- MCClock
  Plans <- MCPlans
  Null = Null
CHECK_DEADLOCK FALSE
INVARIANTS NoGaps
PROPERTIES CatchesUp
