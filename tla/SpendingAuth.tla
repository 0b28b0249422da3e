---------------------------- MODULE SpendingAuth ----------------------------
(***************************************************************************)
(* The spending conditions of packages/transactions: what a cosigner signs *)
(* and what verifyOrigin accepts (authorization.ts, wire/helpers.ts).      *)
(*                                                                         *)
(* Hashing and ECDSA are symbolic.  A hash is the record of what went into *)
(* it, so two hashes are equal exactly when their inputs are; a signature  *)
(* names the key that made it and the hash it is over; recovering a public *)
(* key from a signature and the wrong hash gives a key nobody holds.       *)
(***************************************************************************)
EXTENDS Naturals, Sequences, FiniteSets

CONSTANTS
    Keys,          \* private keys, named by their holder
    Uncompressed,  \* the keys whose public key is in the 65-byte encoding
    PubKeys,       \* the keys of the origin's address, in the order it hashes
    NumSigs,       \* signaturesRequired
    HashMode,      \* AddressHashMode of the origin's address
    AuthType,      \* AuthType of the transaction: standard or sponsored
    Sponsor,       \* the sponsor's key
    Stranger,      \* stands for a recovered key that is nobody's
    NoSig          \* emptyMessageSignature()

Sequential    == {"P2SH", "P2WSH"}
NonSequential == {"P2SHNonSequential", "P2WSHNonSequential"}
Segwit        == {"P2WSH", "P2WSHNonSequential"}

isSingleSig              == HashMode = "P2PKH"
isSequentialMultiSig     == HashMode \in Sequential
isNonSequentialMultiSig  == HashMode \in NonSequential

\* What createSpendingCondition accepts, for an address whose keys differ.
ASSUME KeysAssumption ==
    /\ Uncompressed \subseteq Keys /\ Sponsor \in Keys
    /\ Stranger \notin Keys
    /\ Len(PubKeys) \in Nat \ {0}
    /\ PubKeys \in [1..Len(PubKeys) -> Keys]
    /\ \A i, j \in 1..Len(PubKeys) : PubKeys[i] = PubKeys[j] => i = j
ASSUME ModeAssumption ==
    /\ HashMode \in Sequential \cup NonSequential \cup {"P2PKH"}
    /\ AuthType \in {"Standard", "Sponsored"}
    /\ NumSigs \in 1..Len(PubKeys)
    /\ isSingleSig => Len(PubKeys) = 1
    /\ HashMode \in Segwit => \A i \in 1..Len(PubKeys) : PubKeys[i] \notin Uncompressed

-----------------------------------------------------------------------------
(* Public keys, and the hash the origin signs first.                       *)

Encoding(k) == IF k \in Uncompressed THEN "Uncompressed" ELSE "Compressed"

PublicKey(k) == [key |-> k, enc |-> Encoding(k)]

\* addressFromPublicKeys hashes the mode, the threshold and the ordered keys:
\* the signer of the condition is this sequence.
Signer == [i \in 1..Len(PubKeys) |-> PublicKey(PubKeys[i])]

\* signBegin / verifyBegin: fee, nonce, signatures and sponsor are cleared, the
\* auth type stays.
signBegin == [cleared |-> AuthType]

-----------------------------------------------------------------------------
(* One link of the chain of hashes.                                        *)

\* Mutation: the fee and the nonce are not hashed.
FeeNonceUnsigned(cur, auth, fee, nonce) ==
    [prev |-> cur, auth |-> auth, fee |-> 0, nonce |-> 0]

sigHashPreSign(cur, auth, fee, nonce) ==
    [prev |-> cur, auth |-> auth, fee |-> fee, nonce |-> nonce]

sigHashPostSign(pre, enc, sig) == [pre |-> pre, enc |-> enc, sig |-> sig]

\* nextSignature, with the hash after it.
nextSignature(cur, auth, fee, nonce, k) ==
    LET pre == sigHashPreSign(cur, auth, fee, nonce)
        sig == [by |-> k, over |-> pre]
    IN  [sig |-> sig, sigHash |-> sigHashPostSign(pre, Encoding(k), sig)]

\* nextVerification: the key is recovered from the signature, never compared.
nextVerification(cur, auth, fee, nonce, enc, sig) ==
    LET pre == sigHashPreSign(cur, auth, fee, nonce)
    IN  [pubKey  |-> [key |-> IF sig.over = pre THEN sig.by ELSE Stranger, enc |-> enc],
         sigHash |-> sigHashPostSign(pre, enc, sig)]

-----------------------------------------------------------------------------
(* Auth fields of a multi-sig condition: a signature, or the public key of *)
(* a cosigner who does not sign.                                           *)

\* Mutation: a signature filed as a public key.
MislabelledField(k, sig) == [type |-> "PublicKey", enc |-> Encoding(k), contents |-> sig]

SignatureField(k, sig) == [type |-> "MessageSignature", enc |-> Encoding(k), contents |-> sig]
PublicKeyField(k) == [type |-> "PublicKey", enc |-> Encoding(k), contents |-> k]

SigIndices(fields) == {i \in DOMAIN fields : fields[i].type = "MessageSignature"}
NumSigned(fields)  == Cardinality(SigIndices(fields))

\* What a field, and a sequence of fields, looks like.
IsField(f) ==
    /\ f \in [type: {"MessageSignature", "PublicKey"}, enc: {"Compressed", "Uncompressed"},
              contents: {f.contents}]
    /\ f.type = "PublicKey" => f.contents \in Keys
    /\ f.type = "MessageSignature" => f.contents.by \in Keys

IsFields(s) ==
    /\ Len(s) \in Nat
    /\ s \in [1..Len(s) -> {s[i] : i \in 1..Len(s)}]
    /\ \A i \in 1..Len(s) : IsField(s[i])

\* The encodings the signature fields carry, and those the constructor assumes.
FieldEncodings(tx)   == [i \in 1..Len(tx.fields) |-> tx.fields[i].enc]
AlwaysCompressed(tx) == [i \in 1..Len(tx.fields) |-> "Compressed"]

\* The hash each field is signed over: h[i] is the chain before field i + 1.
\* verifyMultiSig and the constructor of TransactionSigner walk the fields the
\* same way, but for the auth type and the key encoding they assume.
SigHashes(tx, auth, encs) ==
    LET h[i \in 0..Len(tx.fields)] ==
          IF i = 0 THEN signBegin
          ELSE IF tx.fields[i].type = "MessageSignature" /\ isSequentialMultiSig
               THEN nextVerification(h[i - 1], auth, tx.fee, tx.nonce,
                                     encs[i], tx.fields[i].contents).sigHash
               ELSE h[i - 1]
    IN  h

-----------------------------------------------------------------------------
(* verifyOrigin: always with AuthType.Standard.                            *)

VerifiedKeys(tx) ==
    LET h == SigHashes(tx, "Standard", FieldEncodings(tx))
    IN  [i \in 1..Len(tx.fields) |->
           IF tx.fields[i].type = "PublicKey"
           THEN PublicKey(tx.fields[i].contents)
           ELSE nextVerification(h[i - 1], "Standard", tx.fee, tx.nonce,
                                 tx.fields[i].enc, tx.fields[i].contents).pubKey]

\* Mutation: one signature fewer will do.
OneFewerSignature(fields) == NumSigned(fields) + 1 >= NumSigs

RightNumberOfSignatures(fields) ==
    /\ isSequentialMultiSig    => NumSigned(fields) = NumSigs
    /\ isNonSequentialMultiSig => NumSigned(fields) >= NumSigs

\* Mutation: the recovered key is not compared with the address.
AnySingleSig(tx) == tx.sig # NoSig

verifySingleSig(tx) ==
    /\ tx.sig # NoSig
    /\ nextVerification(signBegin, "Standard", tx.fee, tx.nonce,
                        Signer[1].enc, tx.sig).pubKey = Signer[1]

verifyMultiSig(tx) ==
    /\ RightNumberOfSignatures(tx.fields)
    /\ HashMode \in Segwit => \A i \in DOMAIN tx.fields : tx.fields[i].enc = "Compressed"
    /\ VerifiedKeys(tx) = Signer

verifyOrigin(tx) == IF isSingleSig THEN verifySingleSig(tx) ELSE verifyMultiSig(tx)

\* The hash verifyOrigin returns, which is what a sponsor signs over.
originSigHash(tx) ==
    IF isSingleSig
    THEN nextVerification(signBegin, "Standard", tx.fee, tx.nonce,
                          Signer[1].enc, tx.sig).sigHash
    ELSE SigHashes(tx, "Standard", FieldEncodings(tx))[Len(tx.fields)]

-----------------------------------------------------------------------------
(* A transaction object, and what the calls on it do to it.                *)

\* createSpendingCondition inside makeUnsigned...; createSponsoredAuth adds a
\* placeholder sponsor.
NoSponsor == [key |-> Stranger, fee |-> 0, nonce |-> 0, sig |-> NoSig]
UnsignedTx == [fee |-> 0, nonce |-> 0, fields |-> <<>>, sig |-> NoSig, sponsor |-> NoSponsor]

\* signAndAppend on the origin's condition.
Signed(t, k, next) ==
    IF isSingleSig THEN [t EXCEPT !.sig = next.sig]
    ELSE [t EXCEPT !.fields = Append(@, SignatureField(k, next.sig))]

\* Mutation: the field is pushed by both appendOrigin and appendPubkey.
WithPubkeyTwice(t, k) == [t EXCEPT !.fields = @ \o <<PublicKeyField(k), PublicKeyField(k)>>]

\* tx.appendPubkey.
WithPubkey(t, k) == [t EXCEPT !.fields = Append(@, PublicKeyField(k))]

\* Mutation: the sponsor's fee goes to the origin's condition.
SponsorFeeToOrigin(t, fee, nonce) ==
    [t EXCEPT !.sponsor = [key |-> Sponsor, fee |-> fee, nonce |-> nonce, sig |-> NoSig],
              !.fee = fee]

\* setSponsor(condition).
SponsoredBy(t, fee, nonce) ==
    [t EXCEPT !.sponsor = [key |-> Sponsor, fee |-> fee, nonce |-> nonce, sig |-> NoSig]]

\* signAndAppend on the sponsor's condition.
SponsorSigned(t, next) == [t EXCEPT !.sponsor.sig = next.sig]

\* Mutation: a signed single-sig condition is refused too.
RefusesSingleSigned(t) == IF isSingleSig THEN t.sig = NoSig ELSE NumSigned(t.fields) < NumSigs

\* The constructor of TransactionSigner refuses a condition that already has its
\* signatures ...
Constructible(t) == isSingleSig \/ NumSigned(t.fields) < NumSigs

\* Mutation: the chain is not replayed.
NothingReplayed(t) == signBegin

\* ... and replays the chain of the signatures that are there.
ReplayedSigHash(t) ==
    IF isSingleSig THEN signBegin
    ELSE SigHashes(t, AuthType, AlwaysCompressed(t))[Len(t.fields)]

\* Mutation: off by one.
MayOversign(t) == isSequentialMultiSig => NumSigned(t.fields) <= NumSigs

\* The check of signOrigin, in the sequential modes only.
MayStillSign(t) == isSequentialMultiSig => NumSigned(t.fields) < NumSigs

-----------------------------------------------------------------------------
(* What a node accepts, and who has consented.                             *)

\* External: the node verifies the origin, then the sponsor over what the
\* origin's verification returns.
SponsorVerifies(t) ==
    /\ t.sponsor.key # Stranger /\ t.sponsor.sig # NoSig
    /\ nextVerification(originSigHash(t), "Sponsored", t.sponsor.fee, t.sponsor.nonce,
                        Encoding(Sponsor), t.sponsor.sig).pubKey = PublicKey(t.sponsor.key)

Accepted(t) == verifyOrigin(t) /\ (AuthType = "Sponsored" => SponsorVerifies(t))

\* The origin's signatures on t.
Signatures(t) ==
    IF isSingleSig THEN {t.sig} \ {NoSig}
    ELSE {t.fields[i].contents : i \in SigIndices(t.fields)}

\* The owners of the address with a signature on t over its fee and nonce.
Consenting(t) ==
    {k \in {PubKeys[i] : i \in 1..Len(PubKeys)} :
        \E g \in Signatures(t) : g.by = k /\ g.over.fee = t.fee /\ g.over.nonce = t.nonce}
=============================================================================
