CONSTANTS
    Events = {"e1", "e2"}
    Victims = {"e1"}
    None = None
    MaxClock = 2
    MaxResets = 2
    MaxFaults = 2
SPECIFICATION FairSpec
PROPERTIES
    ClearedStaysOut
    BegunIsFinished
CHECK_DEADLOCK FALSE
