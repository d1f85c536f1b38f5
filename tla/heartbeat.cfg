\* A worker, a cleanup and a listing, for ever, on Redis and in SQL; a drain may
\* outlast the heartbeat.
SPECIFICATION FairSpec
CONSTANTS
    Workers = {w1}
    Sweepers = {s1}
    Readers = {r1}
    Kinds = {"redis", "sql"}
    Interval = 2
    Ttl = 8
    Stale = 10
    Drain = 7
    Latency = 1
    Skew = 1
    MaxFaults = 5
INVARIANTS
    TypeOK
    SteadyListed
PROPERTIES
    ListsAndSweepsHonestly
    CatchesUp
