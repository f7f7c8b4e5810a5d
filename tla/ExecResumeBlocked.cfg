\* Resume while a cancelled run unwinds.
SPECIFICATION FairSpec
CONSTANTS
    e1 = e1
    e2 = e2
    w1 = w1
    r1 = r1
    r2 = r2
    r3 = r3
    ok = ok
    bad = bad
    Executors = {e1, e2}
    Workflows = {w1}
    Runs = {r1, r2, r3}
    NumSteps = 1
    Values = {ok, bad}
    StepErrors = {bad}
    Timed = {}
    Unreadable = {}
    MaxRetries = 1
    SameMs = FALSE
    SweepLive = FALSE
    MaxCrashes = 0
    MaxCancels = 1
    MaxResumes = 1
    MaxSweeps = 0
    MaxLostAcks = 0
    MaxLostClaims = 0
    MaxEvents = 3
    Null = Null
PROPERTIES Completion
CHECK_DEADLOCK FALSE
