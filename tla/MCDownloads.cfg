CONSTANTS
    script = script
    table = table
    lib = lib
    deep = deep
    dotted = dotted
    Entries = {script, table, lib, deep, dotted}
    Kind <- MCKind
    Parent <- MCParent
    Root = Root
    NoEntry = NoEntry
    NoFile = NoFile
    Partial = Partial
    MaxVersion = 2
    MaxCalls = 3
SPECIFICATION FairSpec
INVARIANTS
    TypeOK
    LastGoodSurvives
    ReturnedMeansTried
PROPERTIES
    CallEnds
CHECK_DEADLOCK FALSE
