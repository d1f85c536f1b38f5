\* Deliveries time out only when nobody works on them; the stream is short.
SPECIFICATION Spec
CONSTANTS
    t1 = t1
    t2 = t2
    w1 = w1
    w2 = w2
    l1 = l1
    l2 = l2
    main = main
    high = high
    Tasks = {t1, t2}
    Workers = {w1, w2}
    Queues = {main}
    DefaultQueue = main
    BrokerMode = "at_least_once"
    MaxStreamLength = 2
    DlqMaxLength = 0
    Lanes = {l1}
    Concurrency = 1
    QueueOf <- AllMain
    RouteOf <- OneMain
    ModeOf <- OneOfEach
    MaxRetries = 1
    IgnoreResult = {}
    Unregistered = {}
    RaisesRetry = {}
    UseDlq = TRUE
    ClaimLive = FALSE
    MaxMsgs = 5
    MaxFaults = 1
    MaxCrashes = 1
INVARIANTS
    TypeOK
    NoLoss
    ModeIsKept
    ChainWithinBudget
    RunOnceWhenCalm
    DeadForGood
PROPERTIES
    FinalState
SYMMETRY Symmetry
CHECK_DEADLOCK FALSE
