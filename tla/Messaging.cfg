\* Two recvs of a workflow's messages, a recv and a sleep: two executors, failures, cancels.
SPECIFICATION FairSpec
CONSTANTS
    s1 = s1
    r1 = r1
    r2 = r2
    Senders = {s1}
    Plans <- MCPlans
    MaxSends = 2
    Runs = {r1, r2}
    Steps = {1, 3}
    Timeout = 1
    SameMs = FALSE
    MaxTime = 0
    Null = Null
CHECK_DEADLOCK FALSE
INVARIANTS ExactlyOnce RunsAgree SenderOrder NoLostWakeup
PROPERTIES CallsReturn
