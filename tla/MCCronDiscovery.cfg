CONSTANTS
    h1 = h1
    h2 = h2
    r1 = r1
    r2 = r2
    c1 = c1
    c2 = c2
    NoHost = NoHost
    NoRole = NoRole
    NoNode = NoNode
    Hosts <- MCHosts
    Roles <- MCRoles
    Commands <- MCCommands
    Crontabs <- MCCrontabs
    MaxDiscoveries = 2
SPECIFICATION FairSpec
CHECK_DEADLOCK FALSE
INVARIANTS
    TypeOK
    OnHostThatRunsIt
    RoleFromItsCrontab
    HandledMeansStored
PROPERTIES
    GraphSpec
    WorkerEnds
