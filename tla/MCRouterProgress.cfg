CONSTANTS
    TA = TA  TB = TB  E1 = E1  L1 = L1  L2 = L2
    l1 = l1  l2 = l2  r1 = r1  r2 = r2
    None = None
    Types = {TA}
    Peers <- MCPeers
    ListenerApps <- MCListenerApps
    ReqApps = {r1}
    TagValues = {0, 1}
    MaxListeners = 1
    MaxReceivers = 1
    SendCanFail = TRUE
    Preemptive = TRUE
    LocalEids = {L1, L2}
    MaxInbound = 2
    MaxSends = 2
SPECIFICATION Spec

INVARIANT NoLostWakeup
PROPERTY MailboxSpec

