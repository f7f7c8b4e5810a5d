\* Limits, versions and fairness of five queues, under one fault of each kind.
SPECIFICATION FairSpec
CONSTANTS
    e1 = e1
    e2 = e2
    Executors = {e1, e2}
    NumWorkflows = 3
    Queues <- MCQueues
    MaxTime = 2
    Null = Null
INVARIANTS ConcurrencyRespected WorkerConcurrencyRespected ClaimedByOne RateLimitRespected
PROPERTIES AllStarted
