CONSTANTS
    r1 = r1
    r2 = r2
    k1 = k1
    Requests = {r1, r2}
    Keys = {k1}
    Profiles <- MCProfiles
    Answers = {"pass", "deny"}
    Configs <- MCConfigs
    MaxTTL = 1
    Timeout = 1
    Cooldown = 1
    Budgets <- MCBudgets
    None = None
SPECIFICATION Spec
SYMMETRY MCSymmetry
CHECK_DEADLOCK FALSE
INVARIANTS
    UncheckedOnlyAfterFailure
    PolicyTakesEffect
PROPERTY
    AppsAskThemselves
