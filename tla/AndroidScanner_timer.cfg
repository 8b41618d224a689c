SPECIFICATION ScannerFairSpec
CONSTANTS
    MaxOffs = 2
    MaxScans = 3
INVARIANTS
    OneTimer
PROPERTIES
    ScanEnds
\* The client need not scan again and the user need not touch the adapter.
CHECK_DEADLOCK FALSE
