SPECIFICATION FairSpec
CONSTANTS
    Devices = {d1, d2}
    MaxStarts = 2
    MaxStops = 1
    MaxEarly = 1
    MaxAdverts = 3
INVARIANTS
    TypeOK
    FinishedOnce
    ToldIsListed
PROPERTY ScanReported
\* when every bound is spent the scanner is idle for good
CHECK_DEADLOCK FALSE
