CONSTANTS
    r1 = r1
    r2 = r2
    c1 = c1
    c2 = c2
    Requests <- MCRequests
    Clients <- MCClients
    Configs <- MCConfigs
    Defaults <- MCDefaults
    None = None
    Token = 2
    CleanupInterval = 1
    MinimumEntryTTL = 1
    MinBurst = 2
    MaxBurst = 3
    MaxRate = 1
    MaxTime = 4
    MaxUpdates = 1
SYMMETRY SameRequestsAndClients
SPECIFICATION Spec
INVARIANTS
    TypeOK
    GrantsBounded
PROPERTIES
    BlockHolds
    BurstBeforeBlock
