CONSTANTS
    a1 = a1
    a2 = a2
    r1 = r1
    r2 = r2
    setup = setup
    lfi = lfi
    custom = custom
    Admins = {a1, a2}
    Requests = {r1, r2}
    Files <- MCFiles
    Always = setup
    DefaultOff = {lfi}
    Text <- MCText
    Catches <- MCCatches
    Broken = {r2}
    Disks <- MCDisks
    RawConfigs <- MCConfigs
    NoEngine = NoEngine
    MaxEvents = 2
    TTL = 1
    Limits = {0, 3}
    DrainDefault = 1
    DrainMax = 2
    Budgets <- MCBudgets
SPECIFICATION Spec
SYMMETRY MCSymmetry
CHECK_DEADLOCK FALSE
INVARIANTS
    DecisionExplained
    RuntimeAgrees
    AnySelectionCompiles
    EventsLostOnlyByLimits
