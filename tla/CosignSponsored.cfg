SPECIFICATION FairSpec
CONSTANTS
    k1 = k1
    k2 = k2
    k3 = k3
    sp = sp
    Stranger = Stranger
    NoSig = NoSig
    Pending = Pending
    HashMode = "P2PKH"
    AuthType = "Sponsored"
    Keys = {k1, k2, k3, sp}
    Uncompressed = {}
    PubKeys <- OneKey
    NumSigs = 1
    Sponsor = sp
    Willing = {k1}
    Reluctant = {k1, k2}
    Fees = {0, 1, 2}
INVARIANTS
    CompleteRoundVerifies
PROPERTIES
    EventuallyConfirmed
CHECK_DEADLOCK FALSE
