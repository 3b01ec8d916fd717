CONSTANTS
    i1 = i1
    k1 = k1
    k2 = k2
    d1 = d1
    d2 = d2
    d3 = d3
    w1 = w1
    None = None
    NoEvent = NoEvent
    Ids = {i1}
    Keys = {k1, k2}
    Claimants = {w1}
    Deletions = {d1, d2, d3}
    Kind <- MCKindInvalid
    Target <- MCTargets
    MaxAttempts = 1
    MaxFaults = 2
SPECIFICATION DeletionFairSpec
INVARIANTS
    ErasedForGood
PROPERTIES
    DeletionsFinish
CHECK_DEADLOCK FALSE
