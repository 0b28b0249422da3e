SPECIFICATION FairSpec
CONSTANTS
    a = a
    b = b
    d = d
    NoNonce = NoNonce
    Calls = {a, b}
    Options <- OneOfEach
    Ends = {"completed", "failed"}
    Timeout = 1
    PollInterval = 1
    MaxTries = 2
    MaxFaults = 1
INVARIANTS
    TypeOK
    PaysOnceAtItsNonce
    RefusalHasCause
    TaskMatchesTransaction
    OutcomeIsTrue
    OneLatePoll
PROPERTIES
    EveryCallReturns
CHECK_DEADLOCK FALSE
