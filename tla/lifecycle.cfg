\* The life of a worker, driven by its owner or by run().
SPECIFICATION FairSpec
CONSTANTS
    Envelopes = {e1, e2}
    Threaded = {e2}
    Stoppers = {c1, c2}
    Modes = {"owner", "run"}
INVARIANTS
    TypeOK
    StopsCleanly
PROPERTIES
    StoppedBeatStands
    StopsWhenTold
\* The worker stops.
CHECK_DEADLOCK FALSE
