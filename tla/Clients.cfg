SPECIFICATION ClientsSpec
CONSTANTS
    IntBytes = 2
    HashBytes = 1
    Accounts = {"ann", "bob"}
    Responses <- AllResponses
    MaxRequests = 2
    MaxCalls = 2
    MaxSignOuts = 1
    MaxTime = 1
    MaxFiles = 2
    Patience = 2
INVARIANTS
    CodecFaithful
    TextReadsBack
    InterfaceFaithful
    TransactionFaithful
    StackingFaithful
    NamesAreOpened
    ArgumentsArrive
    HeededDryRunSendsNothing
    ReportIsTrue
    HandlersServed
    SessionAsAsked
    SignedInSoundly
PROPERTIES
    ClientsSettle
CHECK_DEADLOCK FALSE
