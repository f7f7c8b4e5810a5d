\* A workflow that sets an event twice and writes a stream, from a step too; readers that share a limiter.
SPECIFICATION Spec
CONSTANTS
    r1 = r1
    r2 = r2
    g1 = g1
    g2 = g2
    x1 = x1
    Runs = {r1, r2}
    Program <- Calls
    Getters = {g1, g2}
    Readers = {x1}
    Present = {{r1, r2}, {r1, g1, x1}, {r1, g1, g2}, {g1, g2, x1}}
    Limit = 1
    SameMs = FALSE
    MaxFaults = 2
    Null = Null
CHECK_DEADLOCK FALSE
INVARIANTS PublishedMatchesLog GetEventAgrees ReaderSeesAll PermitsConserved
