CONSTANTS
    h1 = h1
    c1 = c1
    c2 = c2
    c3 = c3
    repo = repo
    crontabs = crontabs
    NoHost = NoHost
    NoRole = NoRole
    NoNode = NoNode
    NoRepository = NoRepository
    Hosts <- MCHosts
    Roles <- MCRoles
    Commands <- MCCommands
    Repositories <- MCRepositories
    RepositoryOf <- MCRepositoryOf
    Improper <- MCImproper
    MaxCalls = 2
SPECIFICATION FairSpec
CHECK_DEADLOCK FALSE
INVARIANTS
    TypeOK
PROPERTIES
    ImplementsRepositoryLinks
    CallEnds
