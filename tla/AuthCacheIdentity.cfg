CONSTANTS
    r1 = r1
    r2 = r2
    c1 = c1
    t1 = t1
    i1 = i1
    i2 = i2
    v1 = v1
    None = None
    Absent = Absent
    Unrelated = Unrelated
    Requests <- MCRequests2
    Jars = {c1}
    Tokens = {t1}
    IPs = {i1, i2}
    Views = {v1}
    Profiles <- MixedProfiles
    Traffics <- MixedTraffics
    Configs <- MixedConfigs
    SetCookies <- MixedSetCookies
    MaxTTL = 1
    AuthTimeout = 1
    CleanupInterval = 1
    MaxTime = 1
SPECIFICATION Spec
SYMMETRY RequestSymmetry
CHECK_DEADLOCK FALSE
INVARIANTS
    FlightsHaveLeaders
    IndexMatchesEntries
    ForgottenUntilChecked
    OnlyCleanAnswersCached
    AuthenticatedByOwnAnswer
