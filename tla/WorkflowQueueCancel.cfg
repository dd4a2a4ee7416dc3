CONSTANTS
    a = a
    b = b
    Contexts <- MCContexts
    Cancellable <- MCOnlyA
    Chains <- MCOneChain
    MaxDegree = 2
    MaxTime = 1
    MaxRounds = 1
    MaxFailures = 0
SPECIFICATION FairSpec
CHECK_DEADLOCK FALSE
PROPERTIES
    CancelInterrupts
