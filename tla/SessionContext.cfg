CONSTANTS
    Dirs = {"a", "x"}
    Repos = {"a"}
    Tools = {"t"}
    Operations = {"o"}
    MaxEvents = 3
    MaxCalls = 2
SPECIFICATION Spec
CONSTRAINT Followed
INVARIANTS
    
    PublishedIsCurrent
    ApprovalsAreHonoured
CHECK_DEADLOCK FALSE
