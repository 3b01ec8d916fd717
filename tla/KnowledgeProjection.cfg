CONSTANTS
    Events = {"e1", "e2"}
    Lessons = {"l1"}
    None = "none"
    MaxFaults = 1
    MaxToggles = 1
    Rules = {"a", "b", "c"}
    Requests <- MCRequests
    Guidance <- MCGuidance
    Orders <- MCOrders
    Absent = Absent
    SearchLimit = 2
    PageSize = 1
    MaxCandidates = 3
    MaxPendingReads = 2
    MaxSearches = 2
    MaxEdits = 1
    MaxMishaps = 1
SPECIFICATION ProjectionSpec
INVARIANTS
    LagIsExplained
PROPERTIES
    NoWriterIsOvertaken
    TheIndexCatchesUp
    AnswersAreSound
CHECK_DEADLOCK FALSE
