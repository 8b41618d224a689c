SPECIFICATION FairSpec
CONSTANTS
    Clients = {c1, c2}
    MaxCalls = 1
    MaxSessions = 2
    MaxDevices = 1
    MaxEvents = 1
    MaxSpurious = 1
INVARIANTS
    TypeOK
    RunsOrWaits
PROPERTIES
    ImplementsService
    CallReturns
\* when every bound is spent the hub is idle for good
CHECK_DEADLOCK FALSE
