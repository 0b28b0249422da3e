SPECIFICATION FairSpec
CONSTANTS
    s1 = s1
    s2 = s2
    Sessions = {s1}
    Paths = {"p1"}
    Ops <- MixedOps
    MayConnect = TRUE
    MaySignOut = TRUE
    MaxParallel = 2
    MaxCalls = 2
    MaxFaults = 1
    MaxEpoch = 2
PROPERTIES
    EveryCallReturns
CHECK_DEADLOCK FALSE
