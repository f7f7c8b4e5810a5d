SPECIFICATION FairSpec
CONSTANTS
  r = r
  c = c
  g = g
  s = s
  e = e
  f = f
  d = d
  x = x
  Other = x
  Program <- MCProgram
  Child <- MCChild
  Plans <- MCPlans
  Starts = {0, 2, 5}
  Null = Null
CHECK_DEADLOCK FALSE
INVARIANTS OnlyLateChildrenEscape CopiesAgree
PROPERTIES AwaitReturns
