CONSTANTS
    TA = TA  TB = TB  E1 = E1  L1 = L1  L2 = L2
    l1 = l1  l2 = l2  r1 = r1  r2 = r2
    None = None
    Types = {TA, TB}
    Peers <- MCPeers
    ListenerApps = {l1, l2}
    ReqApps = {}
    TagValues = {0, 1}
    MaxListeners = 1
    MaxReceivers = 1
    SendCanFail = FALSE
    Preemptive = FALSE
    LocalEids = {L1}
    MaxInbound = 2
    MaxSends = 0
SPECIFICATION Spec
INVARIANT ListenerGetsBoundType
