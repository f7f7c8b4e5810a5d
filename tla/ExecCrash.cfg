\* Crashes and restarts, lost acknowledgments, dispatches that fail, inputs that cannot
\* be read, recovery of dead executors.
\* The workflow may be given up.
SPECIFICATION FairSpec
CONSTANTS
    e1 = e1
    e2 = e2
    w1 = w1
    r1 = r1
    r2 = r2
    r3 = r3
    ok = ok
    bad = bad
    Executors = {e1, e2}
    Workflows = {w1}
    Runs = {r1, r2, r3}
    NumSteps = 2
    Values = {ok, bad}
    StepErrors = {bad}
    Timed = {}
    Unreadable = {w1}
    MaxRetries = 1
    SameMs = FALSE
    SweepLive = FALSE
    MaxCrashes = 3
    MaxCancels = 0
    MaxResumes = 0
    MaxSweeps = 1
    MaxLostAcks = 1
    MaxLostClaims = 1
    MaxEvents = 5
    Null = Null
CHECK_DEADLOCK FALSE
INVARIANTS OneRunner PendingHasRunner RecoveryAttemptsBound
PROPERTIES ImplementsDurable Completion
