CONSTANTS
    i1 = i1
    i2 = i2
    i3 = i3
    k1 = k1
    k2 = k2
    w1 = w1
    w2 = w2
    None = None
    NoEvent = NoEvent
    Ids = {i1, i2}
    Keys = {k1, k2}
    Claimants = {w1, w2}
    Deletions = {}
    Kind <- MCKindInvalid
    Target <- MCTarget
    MaxAttempts = 2
    MaxFaults = 3
SPECIFICATION FairSpec
INVARIANTS
    SettledIsExplained
    LagIsMarked
PROPERTIES
    CommittedKeepsBudget
    NothingIsLost
    EverythingIsAnswered
CHECK_DEADLOCK FALSE
