SPECIFICATION Spec
CONSTANTS
    k1 = k1
    k2 = k2
    k3 = k3
    Stranger = Stranger
    NoSig = NoSig
    Unsigned = o1
    HashMode = "P2PKH"
    AuthType = "Sponsored"
    Keys = {k1, k2}
    Uncompressed = {}
    PubKeys <- OneKey
    NumSigs = 1
    Sponsor = k2
    Objs = {o1, o2}
    Signers = {s1}
    Fees = {0, 1}
    Nonces = {0}
    MaxFields = 1
    MaxUses = 2
INVARIANTS
    VerifiedByQuorum
PROPERTIES
    SponsorSignatureHolds
    EditsInvalidate
