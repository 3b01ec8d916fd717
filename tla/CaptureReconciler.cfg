CONSTANTS
    Lines = 3
    Completes <- MCCompletes
    Long = {1}
    Victims = {3}
    Budget = 2
    MaxPending = 1
    Absent = Absent
    MaxJoins = 1
    MaxToggles = 1
SPECIFICATION FairReconcilerSpec
INVARIANT OnlyTheObserved
PROPERTY EverythingIsRecovered
CHECK_DEADLOCK FALSE
