SPECIFICATION SettingsFairSpec
CONSTANTS
    Ask = {a1}
    AskCommand <- GetRevision
    Lengths <- ShortAndLong
    Training = {m1, m2}
    None = None
    Packages = 2
    TIMEOUT = 1
INVARIANTS
    SettingsTypeOK
    OwnAnswer
    WholeModelSent
PROPERTIES
    EveryCallEnds
\* The program ends when it calls a callback that is not there.
CHECK_DEADLOCK FALSE
