\* An at-most-once task whose entry goes idle while its owner is alive.
SPECIFICATION Spec
CONSTANTS
    t1 = t1
    t2 = t2
    w1 = w1
    w2 = w2
    l1 = l1
    l2 = l2
    main = main
    high = high
    Tasks = {t1}
    Workers = {w1, w2}
    Queues = {main}
    DefaultQueue = main
    BrokerMode = "at_least_once"
    MaxStreamLength = 0
    DlqMaxLength = 0
    Lanes = {l1}
    Concurrency = 1
    QueueOf <- AllMain
    RouteOf <- OneMain
    ModeOf <- OnlyAMO
    MaxRetries = 1
    IgnoreResult = {}
    Unregistered = {}
    RaisesRetry = {}
    UseDlq = TRUE
    ClaimLive = TRUE
    MaxMsgs = 5
    MaxFaults = 0
    MaxCrashes = 0
INVARIANTS
    AtMostOnce
CHECK_DEADLOCK FALSE
