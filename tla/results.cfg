\* Three deliveries of a task, and a caller that may wait or give up, on each backend.
SPECIFICATION FairSpec
CONSTANTS
    Backends = {"redis", "sql"}
    Attempts = {a1, a2, a3}
    Readers = {r1}
    Timed = {r1}
    IgnoreResult = FALSE
    MaxFaults = 1
    MaxForgets = 1
INVARIANTS
    TypeOK
    OverlapIsHarmless
PROPERTIES
    FinalStays
    Answered
\* Every attempt ends.
CHECK_DEADLOCK FALSE
