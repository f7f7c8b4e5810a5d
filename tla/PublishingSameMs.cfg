\* Two runs complete a call, or record an answer, in the same millisecond.
SPECIFICATION Spec
CONSTANTS
    r1 = r1
    r2 = r2
    g1 = g1
    g2 = g2
    x1 = x1
    Runs = {r1, r2}
    Program <- Calls
    Getters = {g1, g2}
    Readers = {x1}
    Present = {{r1, r2}, {r1, g1, x1}, {r1, g1, g2}, {g1, g2, x1}}
    Limit = 1
    SameMs = TRUE
    MaxFaults = 2
    Null = Null
CHECK_DEADLOCK FALSE
INVARIANTS PublishedMatchesLog GetEventAgrees
