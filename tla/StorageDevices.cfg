SPECIFICATION Spec
CONSTANTS
    s1 = s1
    s2 = s2
    Sessions = {s1, s2}
    Paths = {"p1"}
    Ops <- BothOps
    MayConnect = FALSE
    MaySignOut = FALSE
    MaxParallel = 1
    MaxCalls = 4
    MaxFaults = 1
    MaxEpoch = 2
INVARIANTS
    TypeOK
    ConflictIsReal
    DeletedIsForgotten
    ResolvedPairVerifies
PROPERTIES
    WritesAreConditional
CONSTRAINT OneKind
SYMMETRY AnyDevice
CHECK_DEADLOCK FALSE
