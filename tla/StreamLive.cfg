CONSTANTS
    c1 = c1
    c2 = c2
    l1 = l1
    l2 = l2
    l3 = l3
    l4 = l4
    None = None
    Callers = {c1, c2}
    TCPKeys = {t1}
    UDPKeys = {}
    Rules = {r1}
    Listeners = {l1, l2, l3}
    Conns = {x1}
    ListenMayFail = TRUE
    ReadLoops = 2
SPECIFICATION FriendlySpec
PROPERTIES
    EveryCallReturns
