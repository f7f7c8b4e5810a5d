\* Cancels, timeouts and resumes, crashes, recovery of executors that are alive, and
\* lost acknowledgments: any three of them.
SPECIFICATION Spec
CONSTANTS
    e1 = e1
    e2 = e2
    w1 = w1
    r1 = r1
    r2 = r2
    r3 = r3
    ok = ok
    bad = bad
    Executors = {e1, e2}
    Workflows = {w1}
    Runs = {r1, r2, r3}
    NumSteps = 2
    Values = {ok, bad}
    StepErrors = {bad}
    Timed = {w1}
    Unreadable = {}
    MaxRetries = 1
    SameMs = FALSE
    SweepLive = TRUE
    MaxCrashes = 2
    MaxCancels = 1
    MaxResumes = 1
    MaxSweeps = 1
    MaxLostAcks = 2
    MaxLostClaims = 1
    MaxEvents = 3
    Null = Null
CONSTRAINT FewEvents
SYMMETRY Symmetry
CHECK_DEADLOCK FALSE
INVARIANTS ReplayAgreement RunningMapExact
PROPERTIES OutcomeStable CancelledUntilResumed
