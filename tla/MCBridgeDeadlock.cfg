CONSTANTS
    SA = SA  SB = SB  DA = DA  DB = DB
    None = None
    QueueDepth = 1
    MaxFrags = 2
    MaxMsgs = 1
    MaxFwds = 1
    CombinedDrivers = TRUE
    MaxMtu = 2
    Mtus = {2}
    Lens = {2}
SPECIFICATION Spec
PROPERTY BridgeCallsReturn
CHECK_DEADLOCK FALSE
