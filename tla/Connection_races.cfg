SPECIFICATION FairSpec
CONSTANTS
    Devices = {d1, d2}
    Address <- MCAddress
    Clients = {c1, c2}
    Handles <- MCHandles
    MaxConnects = 3
    Budgets <- MCBudgets
INVARIANTS
    TypeOK
    SetsApart
    LinksOwned
    StatusTrue
PROPERTY AttemptsEnd
\* the system rests when the bounds are spent, and stops when it crashes
CHECK_DEADLOCK FALSE
