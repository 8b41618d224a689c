SPECIFICATION DiscoveryFairSpec
CONSTANTS
    d1 = d1
    d2 = d2
    Devices = {d1, d2}
    Layouts <- MCLayouts
    MaxConnects = 2
    MaxLosses = 1
    MaxRefusals = 1
INVARIANTS
    DiscoveryTypeOK
    WalkInOrder
    SavedIsComplete
PROPERTY DiscoveryEnds
\* when every bound is spent the devices stay as they are
CHECK_DEADLOCK FALSE
