SPECIFICATION FairSpec
CONSTANTS
    Commands <- MCCommands
    MtuCommands <- MCMtu
    DirectWrites <- MCDirect
    MaxMessages = 3
    MayFail = TRUE
INVARIANTS
    OneOutstanding
PROPERTIES
    ImplementsChannel
    EveryCommandSent
\* once the device is torn down nothing more happens to it
CHECK_DEADLOCK FALSE
