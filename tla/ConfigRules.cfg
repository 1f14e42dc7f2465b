CONSTANTS
    c1 = c1
    c2 = c2
    Calls <- MCCalls
    Main = Main
    Nobody = Nobody
    Broken = Broken
    Parts = {1, 2}
    Published = {}
    Late = {}
    IOMayFail = FALSE
    MaxCrashes = 0
SPECIFICATION Spec
CHECK_DEADLOCK FALSE
INVARIANTS
    RulesReplacedWhole
