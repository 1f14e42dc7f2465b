CONSTANTS
    a1 = a1
    a2 = a2
    Admins <- MCAdmins
    MaxChanges = 4
    ListenMayFail = TRUE
SPECIFICATION FairSpec
CHECK_DEADLOCK FALSE
INVARIANTS
    RecordedListenersAreOpen
PROPERTIES
    RequestedRebindHappens
