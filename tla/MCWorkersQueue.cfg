CONSTANTS
    w1 = w1
    w2 = w2
    w3 = w3
    d1 = d1
    d2 = d2
    NoWorker = NoWorker
    Workers <- MCWorkers
    Drains <- MCDrains
SPECIFICATION FairSpec
CHECK_DEADLOCK FALSE
INVARIANTS
    TypeOK
    ReturnedMeansDone
    AloneNoUnderflow
PROPERTIES
    ImplementsSerialQueue
    CallsEnd
