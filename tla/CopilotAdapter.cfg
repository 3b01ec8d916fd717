CONSTANTS
    None = None
    Sessions = {s1}
    Rows = {"fact", "feedback"}
    Controls = {"feedback"}
    Kinds = {"upgrade", "install", "enable", "disable", "uninstall"}
    ByHand = TRUE
    MaxFaults = 2
SPECIFICATION Spec
INVARIANTS
    NobodyIsInside
    FailureIsUndone
    SettingIsReturned
PROPERTIES
    WritesAreKept
CHECK_DEADLOCK FALSE
