\* Every accepted task is concluded, every queue runs dry.
SPECIFICATION FairSpec
CONSTANTS
    t1 = t1
    t2 = t2
    w1 = w1
    w2 = w2
    l1 = l1
    l2 = l2
    main = main
    high = high
    Tasks = {t1, t2}
    Workers = {w1, w2}
    Queues = {main}
    DefaultQueue = main
    BrokerMode = "at_least_once"
    MaxStreamLength = 0
    DlqMaxLength = 0
    Lanes = {l1}
    Concurrency = 1
    QueueOf <- AllMain
    RouteOf <- OneMain
    ModeOf <- BothALO
    MaxRetries = 1
    IgnoreResult = {t1}
    Unregistered = {t2}
    RaisesRetry = {}
    UseDlq = FALSE
    ClaimLive = FALSE
    MaxMsgs = 6
    MaxFaults = 1
    MaxCrashes = 1
PROPERTIES
    EverythingEnds
CHECK_DEADLOCK FALSE
