CONSTANTS
    r1 = r1
    r2 = r2
    Repos = {r1, r2}
    NoRepo = NoRepo
    e1 = e1
    e2 = e2
    Edits = {e1, e2}
    MaxWorkers = 2
SPECIFICATION FairSpec
INVARIANTS
    TypeOK
    ReturnedMeansCommitted
    LastMeansPublished
PROPERTIES
    ImplementsEditFlow
    MigrationEnds
CHECK_DEADLOCK FALSE
