CONSTANTS
    c1 = c1
    c2 = c2
    Callers = {c1, c2}
    Tables <- MCTables
    Chains = {"REAUTH_FW"}
    InitRequests <- MCInitRequests
    ExistingParents <- MCExistingParents
    LocalCIDRs <- MCLocalCIDRs
    ChunkSize = 2
    Addresses = {"ip1", "ip2"}
    TableOf <- MCTableOf
    RulePort = "22"
    PolicyParents <- MCPolicyParents
    Policies <- MCPolicies
    Redirects <- MCRedirects
    Clients <- MCClients
SPECIFICATION Spec
SYMMETRY CallerSymmetry
CHECK_DEADLOCK FALSE
INVARIANTS
    LastWordHolds
    DefaultHolds
    LocalStaysOpen
    PolicyInForce
    NewestRedirectFirst
