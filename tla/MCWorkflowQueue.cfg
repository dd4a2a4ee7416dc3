CONSTANTS
    a = a
    b = b
    Contexts <- MCContexts
    Cancellable <- MCOnlyA
    Chains <- MCChains
    MaxDegree = 2
    MaxTime = 1
    MaxRounds = 2
    MaxFailures = 1
SPECIFICATION FairSpec
CHECK_DEADLOCK FALSE
INVARIANTS
    TypeOK
    StepsInOrder
    ReturnedMeansDone
PROPERTIES
    ImplementsChainRun
    TrappedStays
    ProcessTerminates
