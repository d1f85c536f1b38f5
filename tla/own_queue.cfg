\* Workers and tasks on a queue of their own.
SPECIFICATION Spec
CONSTANTS
    t1 = t1
    t2 = t2
    w1 = w1
    w2 = w2
    l1 = l1
    l2 = l2
    main = main
    high = high
    Tasks = {t1}
    Workers = {w1, w2}
    Queues = {main, high}
    DefaultQueue = main
    BrokerMode = "at_least_once"
    MaxStreamLength = 0
    DlqMaxLength = 0
    Lanes = {l1}
    Concurrency = 1
    QueueOf <- AllHigh
    RouteOf <- OneHigh
    ModeOf <- OnlyALO
    MaxRetries = 1
    IgnoreResult = {}
    Unregistered = {}
    RaisesRetry = {}
    UseDlq = TRUE
    ClaimLive = FALSE
    MaxMsgs = 5
    MaxFaults = 0
    MaxCrashes = 0
INVARIANTS
    RunOnceWhenCalm
CHECK_DEADLOCK FALSE
