CONSTANTS
    r1 = r1
    r2 = r2
    c1 = c1
    t1 = t1
    i1 = i1
    i2 = i2
    v1 = v1
    None = None
    Absent = Absent
    Unrelated = Unrelated
    Requests <- MCRequests2
    Jars = {c1}
    Tokens = {}
    IPs = {i1}
    Views = {v1}
    Profiles <- OneKeyProfiles
    Traffics <- OneKeyTraffics
    Configs <- OnOffConfigs
    SetCookies <- LiveSetCookies
    MaxTTL = 1
    AuthTimeout = 1
    CleanupInterval = 2
    MaxTime = 2
SPECIFICATION FairSpec
CHECK_DEADLOCK FALSE
INVARIANTS
    BoundedStaleness
PROPERTIES
    AnswersOnlyGetNewer
    EveryRequestDecided
