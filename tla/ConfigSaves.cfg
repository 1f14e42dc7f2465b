CONSTANTS
    c1 = c1
    c2 = c2
    Calls <- MCCalls
    Main = Main
    Nobody = Nobody
    Broken = Broken
    Parts = {1, 2}
    Published = {"host_rules"}
    Late = {"visibility"}
    IOMayFail = TRUE
    MaxCrashes = 1
SPECIFICATION FairSpec
CHECK_DEADLOCK FALSE
INVARIANTS
    FileLagsByOneCall
    FileSectionsKept
    RuntimeFollows
PROPERTIES
    RestartRestores
    EveryCallEnds
