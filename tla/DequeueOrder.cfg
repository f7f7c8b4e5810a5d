\* Global concurrency when a later workflow may queue ahead (priority).
SPECIFICATION Spec
CONSTANTS
    e1 = e1
    e2 = e2
    Executors = {e1, e2}
    NumWorkflows = 2
    Queues <- AnyOrder
    MaxTime = 2
    Null = Null
INVARIANTS ConcurrencyRespected
