CONSTANTS
    Events = {1, 2, 3, 4, 5}
    WithContent = {1, 2, 3, 4}
    NoWorkspace = "none"
    Context <- MCContext
    Size <- MCSize
    BareSize <- MCBareSize
    MaxItems = 2
    MaxBytes = 3
    MaxGapContexts = 2
    MaxFaults = 2
SPECIFICATION FairWriterSpec
INVARIANTS
    LossIsAccounted
    FlushedIsDurable
PROPERTIES
    EventuallyDrained
CHECK_DEADLOCK FALSE
