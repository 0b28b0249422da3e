SPECIFICATION Spec
CONSTANTS
    s1 = s1
    s2 = s2
    Sessions = {s1}
    Paths = {"p1"}
    Ops <- PutOnly
    MayConnect = FALSE
    MaySignOut = TRUE
    MaxParallel = 1
    MaxCalls = 1
    MaxFaults = 0
    MaxEpoch = 1
PROPERTIES
    SignedOutStays
CHECK_DEADLOCK FALSE
