CONSTANTS
    i1 = i1
    i2 = i2
    p1 = p1
    p2 = p2
    None = None
    Ids = {i1, i2}
    Procs = {p1, p2}
    Keys = {"stable", "selftest"}
    SelfTestKeys = {"selftest"}
    Deletions = {"d"}
    MaxAttempts = 1
    MaxClaims = 1
    MaxFaults = 1
SPECIFICATION Spec
SYMMETRY IdSymmetry
CONSTRAINT SelfTestsApart
PROPERTIES
    ImplementsContract
CHECK_DEADLOCK FALSE
