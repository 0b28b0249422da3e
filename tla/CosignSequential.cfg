SPECIFICATION FairSpec
CONSTANTS
    k1 = k1
    k2 = k2
    k3 = k3
    sp = sp
    Stranger = Stranger
    NoSig = NoSig
    Pending = Pending
    HashMode = "P2SH"
    AuthType = "Standard"
    Keys = {k1, k2, k3, sp}
    Uncompressed = {}
    PubKeys <- ThreeKeys
    NumSigs = 2
    Sponsor = sp
    Willing = {k2, k3}
    Reluctant = {k1, k2}
    Fees = {0, 1}
INVARIANTS
    TypeOK
    CompleteRoundVerifies
PROPERTIES
    QuorumApproves
    EventuallyConfirmed
CHECK_DEADLOCK FALSE
