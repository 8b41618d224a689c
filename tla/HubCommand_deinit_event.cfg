SPECIFICATION FairSpec
CONSTANTS
    Clients = {c1, c2}
    MaxCalls = 1
    MaxSessions = 1
    MaxDevices = 1
    MaxEvents = 1
    MaxSpurious = 0
PROPERTY DeinitReturns
\* when every bound is spent the hub is idle for good
CHECK_DEADLOCK FALSE
