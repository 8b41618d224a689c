SPECIFICATION FairSpec
CONSTANTS
    d1 = d1
    d2 = d2
    r1 = r1
    r2 = r2
    Device = {d1, d2}
    Request = {r1, r2}
    Target <- ToTheFirst
    MAX_DEVICE = 2
    MaxTries <- Twice
    MaxOffs = 1
INVARIANTS
    TypeOK
    RightDevice
PROPERTIES
    EveryRequestSent
\* The client may stop asking.
CHECK_DEADLOCK FALSE
