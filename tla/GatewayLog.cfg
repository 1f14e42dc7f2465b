CONSTANTS
    c1 = c1
    l1 = l1
    NoCursor = NoCursor
    Clients = {c1}
    Loggers = {l1}
    Kinds <- MCKinds
    Filters <- MCFilters
    Limits = {1, 3, 0}
    Pages = {1, 2, 0}
    MaxLimit = 2
    ChunkSize = 2
    TailWindowMax = 2
    MaxDay = 3
    Zones <- MCZones
    Configs <- MCConfigs
    Bounds <- MCBounds
SPECIFICATION Spec
CHECK_DEADLOCK FALSE
INVARIANTS
    PagingExactlyOnce
    PageIsWindow
    LinesKept
    OldFilesGo
PROPERTIES
    QueriesAreAtomic
