\* A rate limit and two executors.
SPECIFICATION Spec
CONSTANTS
    e1 = e1
    e2 = e2
    Executors = {e1, e2}
    NumWorkflows = 2
    Queues <- RateRace
    MaxTime = 2
    Null = Null
INVARIANTS RateLimitGlobal
