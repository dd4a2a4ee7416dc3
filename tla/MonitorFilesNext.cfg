CONSTANTS
    p1 = p1
    p2 = p2
    Paths <- MCPaths
    MaxExecutions = 1
SPECIFICATION Spec
CHECK_DEADLOCK FALSE
INVARIANTS
    NextStepFindsFiles
