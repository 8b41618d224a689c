SPECIFICATION Spec
CONSTANTS
    Device = {d1, d2}
    Slot = {1, 2}
    MaxResets = 2
    MaxMessages = 3
INVARIANTS
    TypeOK
    OneSlotEach
    KeepsSearching
\* The application quits, or nothing happens any more.
CHECK_DEADLOCK FALSE
