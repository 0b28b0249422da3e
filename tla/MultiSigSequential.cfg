SPECIFICATION Spec
CONSTANTS
    k1 = k1
    k2 = k2
    k3 = k3
    Stranger = Stranger
    NoSig = NoSig
    Unsigned = o1
    HashMode = "P2SH"
    AuthType = "Standard"
    Keys = {k1, k2, k3}
    Uncompressed = {}
    PubKeys <- ThreeKeys
    NumSigs = 2
    Sponsor = k1
    Objs = {o1}
    Signers = {s1, s2}
    Fees = {0, 1}
    Nonces = {0, 1}
    MaxFields = 3
    MaxUses = 3
INVARIANTS
    TypeOK
    NoOversign
    VerifiedByQuorum
PROPERTIES
    EditsInvalidate
SYMMETRY AnySigner
