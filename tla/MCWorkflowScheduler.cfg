CONSTANTS
    t1 = t1
    t2 = t2
    t3 = t3
    t4 = t4
    w1 = w1
    w2 = w2
    w3 = w3
    NoTask = NoTask
    Tasks <- MCTasks
    Threads <- MCThreads
    MaxConcurrency = 2
SPECIFICATION FairSpec
CHECK_DEADLOCK FALSE
INVARIANTS
    TypeOK
    CountIsExact
    NeverLocked
    NoIdleCapacity
PROPERTIES
    ImplementsLimitedPool
    EveryTaskFinishes
