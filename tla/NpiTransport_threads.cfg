SPECIFICATION FairSpec
CONSTANTS
    QueueSize = 2
    Callers <- MCCallers
    Calls <- MCCalls
    Payloads <- MCPayloads
    Packets <- MCPackets
    MaxTraffic = 3
    StartRaces <- MCRaces
INVARIANTS
    TypeOK
    FramesWhole
PROPERTIES
    ImplementsChannel
    UnplugReported
    DeinitEnds
\* once Deinit is over, or the process is gone, nothing happens any more
CHECK_DEADLOCK FALSE
