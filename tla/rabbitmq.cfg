\* One of each delivery mode, one worker, two operators on a pool of two channels.
SPECIFICATION FairSpec
CONSTANTS
    t1 = t1
    t2 = t2
    Tasks = {t1, t2}
    Workers = {w1}
    Operators = {o1, o2}
    Channels = {k1, k2}
    Lanes = {l1, l2}
    Prefetch = 1
    ScanLimit = 2
    DlqMaxLength = 0
    ModeOf <- OneOfEach
    MaxRetries = 1
    UseDlq = TRUE
    MaxMsgs = 3
    MaxEvents = 2
INVARIANTS
    TypeOK
    NoLoss
    OnceWhenCalm
    NothingHidden
PROPERTIES
    KeepsPromise
    OperationsEnd
\* Every message may be consumed.
CHECK_DEADLOCK FALSE
