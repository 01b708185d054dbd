CONSTANTS
    s1 = s1  s2 = s2  f1 = f1
    None = None
    Senders <- MCSenders
    Forwarders <- MCForwarders
    QueueDepth = 2
    MaxFrags = 3
    FragErrors = TRUE
    MaxMsgs = 1
    MaxFwds = 2
    MaxMtu = 2
    Mtus = {2}
    Lens = {2, 3}
SPECIFICATION Spec
INVARIANT ForwardNeverWaitsOnFullQueue
