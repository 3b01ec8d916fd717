CONSTANTS
    w1 = w1
    t1 = t1
    t2 = t2
    None = None
    Windows = {w1}
    Tasks = {t1, t2}
    Task <- MCTask
    AttemptLimit = 2
    DailyLimit = 2
    Day = 2
    Life = 2
    Deadline = 1
    MaxClock = 3
    MaxRevision = 2
    MaxFaults = 1
    MaxToggles = 1
SPECIFICATION FairSpec
INVARIANTS
    NoChangeIsForgotten
    NoModelOnTheErased
    AttemptsAreCounted
PROPERTIES
    LessonsAreOfTheMoment
    RunningIsTakenUp
CHECK_DEADLOCK FALSE
