CONSTANTS
    p1 = p1
    p2 = p2
    Paths <- MCPaths
    MaxExecutions = 2
SPECIFICATION FairSpec
CHECK_DEADLOCK FALSE
INVARIANTS
    TypeOK
    QuietMonitorGoes
PROPERTIES
    ImplementsFileGate
    PathsShrink
    WatchedFileIsHandled
