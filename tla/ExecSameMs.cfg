\* Two executors record a step in the same millisecond.
SPECIFICATION Spec
CONSTANTS
    e1 = e1
    e2 = e2
    w1 = w1
    r1 = r1
    r2 = r2
    ok = ok
    bad = bad
    Executors = {e1, e2}
    Workflows = {w1}
    Runs = {r1, r2}
    NumSteps = 1
    Values = {ok, bad}
    StepErrors = {bad}
    Timed = {}
    Unreadable = {}
    MaxRetries = 1
    SameMs = TRUE
    SweepLive = TRUE
    MaxCrashes = 0
    MaxCancels = 0
    MaxResumes = 0
    MaxSweeps = 1
    MaxLostAcks = 0
    MaxLostClaims = 0
    MaxEvents = 3
    Null = Null
SYMMETRY Symmetry
INVARIANTS MarkerProvesWin
CHECK_DEADLOCK FALSE
