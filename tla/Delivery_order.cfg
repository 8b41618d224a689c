SPECIFICATION FairSpec
CONSTANTS
    Listener = {l1}
    Poller = {p1, p2}
    Sent <- Packages
    None = None
    MaxNotices = 2
    MaxModes = 1
    MaxWaiting = 1
INVARIANTS
    TypeOK
PROPERTIES
    HeardInOrder
    NotifyEnds
\* A listener that calls the hub back may stop every thread for ever.
CHECK_DEADLOCK FALSE
