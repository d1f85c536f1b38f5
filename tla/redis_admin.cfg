\* Consumers, two operators and a sweep share one queue.
SPECIFICATION Spec
CONSTANTS
    w1 = w1
    w2 = w2
    o1 = o1
    o2 = o2
    s1 = s1
    t = t
    main = main
    Tasks = {t}
    Workers = {w1, w2}
    Queues = {main}
    DefaultQueue = main
    BrokerMode = "at_least_once"
    MaxStreamLength = 1
    DlqMaxLength = 0
    Operators = {o1, o2}
    Sweepers = {s1}
    MaxSent = 2
    MaxMsgs = 3
    MaxPurges = 1
INVARIANTS
    AdminTypeOK
    NoneTwiceNoneLost
    DlqIsFaithful
PROPERTIES
    SweepDropsOnlyLate
SYMMETRY Symmetry
CHECK_DEADLOCK FALSE
