------------------------------- MODULE MultiSig -------------------------------
(***************************************************************************)
(* Signing a transaction with packages/transactions: FunaiTransactionWire  *)
(* objects in memory, TransactionSigner objects that share them, and the   *)
(* public calls on both, in any order (transaction.ts, signer.ts).         *)
(*                                                                         *)
(* The domains of tx and signer are the objects that exist: several        *)
(* signers may hold the same transaction, and a call that clones puts its  *)
(* copy under a free name.                                                 *)
(***************************************************************************)
EXTENDS SpendingAuth

CONSTANTS
    Objs,       \* names for transaction objects
    Signers,    \* names for TransactionSigner objects
    Unsigned,   \* the object makeUnsigned... returned
    Fees,       \* fees a party may set
    Nonces,     \* nonces a party may set
    MaxFields,  \* bound: auth fields of a condition
    MaxUses     \* bound: signatures by one signer

ASSUME SigningAssumption ==
    /\ Unsigned \in Objs
    /\ Fees \subseteq Nat /\ 0 \in Fees
    /\ Nonces \subseteq Nat /\ 0 \in Nonces
    /\ MaxFields \in Nat /\ MaxUses \in Nat

VARIABLES
    tx,      \* the transaction objects
    signer   \* the TransactionSigner objects

vars == <<tx, signer>>

Live(o) == o \in DOMAIN tx
Held(o) == \E s \in DOMAIN signer : signer[s].transaction = o
Free(o) == ~Live(o)

Put(f, x, v) == [y \in DOMAIN f \cup {x} |-> IF y = x THEN v ELSE f[y]]
Without(f, x) == [y \in DOMAIN f \ {x} |-> f[y]]

Init ==
    /\ tx = [o \in {Unsigned} |-> UnsignedTx]
    /\ signer = [s \in {} |-> UnsignedTx]

-----------------------------------------------------------------------------
(* TransactionSigner.                                                      *)

\* verified is history: the origin createSponsorSigner verified for this signer.
SignerOn(o, hash, done) ==
    [transaction |-> o, sigHash |-> hash, originDone |-> done, uses |-> 0, verified |-> {}]

\* new TransactionSigner(transaction): keeps the reference.
NewSigner(s, o) ==
    /\ Live(o)
    /\ Constructible(tx[o])
    /\ signer' = Put(signer, s, SignerOn(o, ReplayedSigHash(tx[o]), FALSE))
    /\ UNCHANGED tx

\* signOrigin(privateKey): signs over the hash this signer holds.
signOrigin(s, k) ==
    /\ s \in DOMAIN signer
    /\ ~signer[s].originDone
    /\ LET o    == signer[s].transaction
           t    == tx[o]
           next == nextSignature(signer[s].sigHash, "Standard", t.fee, t.nonce, k)
       IN  /\ MayStillSign(t)
           /\ Len(t.fields) < MaxFields
           /\ tx' = [tx EXCEPT ![o] = Signed(t, k, next)]
           /\ signer[s].uses < MaxUses
           /\ signer' = [signer EXCEPT
                 ![s].sigHash = IF isSingleSig \/ isSequentialMultiSig THEN next.sigHash ELSE @,
                 ![s].uses    = @ + 1]

\* tx.appendPubkey(publicKey): throws on a single-sig condition.
appendPubkey(o, k) ==
    /\ Live(o)
    /\ ~isSingleSig
    /\ Len(tx[o].fields) < MaxFields
    /\ tx' = [tx EXCEPT ![o] = WithPubkey(@, k)]
    /\ UNCHANGED signer

appendOrigin(s, k) ==
    /\ s \in DOMAIN signer
    /\ ~signer[s].originDone
    /\ appendPubkey(signer[s].transaction, k)

\* resume(transaction): a clone of it, and the hash of an unsigned condition.
resume(s, o, clone) ==
    /\ s \in DOMAIN signer
    /\ Live(o) /\ Free(clone)
    /\ tx' = Put(tx, clone, tx[o])
    /\ signer' = [signer EXCEPT ![s].transaction = clone, ![s].sigHash = signBegin,
                                 ![s].verified = {}]

-----------------------------------------------------------------------------
(* The sponsor.                                                            *)

\* The origin's side of a transaction.
Origin(t) == [t EXCEPT !.sponsor = NoSponsor]

\* Mutation: the sponsor's signer keeps the hash its constructor computed.
KeepsConstructed(o, t) == [SignerOn(o, ReplayedSigHash(t), TRUE) EXCEPT !.verified = {Origin(t)}]

SponsorSignerOn(o, t) == [SignerOn(o, originSigHash(t), TRUE) EXCEPT !.verified = {Origin(t)}]

\* createSponsorSigner(transaction, condition): clones, sets the sponsor,
\* verifies the origin, constructs a signer on the clone.
createSponsorSigner(s, o, clone, fee, nonce) ==
    /\ AuthType = "Sponsored"
    /\ Live(o) /\ Free(clone)
    /\ verifyOrigin(tx[o])
    /\ Constructible(tx[o])
    /\ tx' = Put(tx, clone, SponsoredBy(tx[o], fee, nonce))
    /\ signer' = Put(signer, s, SponsorSignerOn(clone, tx[o]))

SponsorDone(x, next) ==
    [x EXCEPT !.sigHash = next.sigHash, !.originDone = TRUE, !.uses = @ + 1, !.verified = {}]

\* signSponsor: by the hash the signer holds, with whatever sponsor is set.
signSponsor(s) ==
    /\ AuthType = "Sponsored"
    /\ s \in DOMAIN signer /\ signer[s].uses < MaxUses
    /\ LET o    == signer[s].transaction
           next == nextSignature(signer[s].sigHash, "Sponsored",
                                 tx[o].sponsor.fee, tx[o].sponsor.nonce, Sponsor)
       IN  /\ tx' = [tx EXCEPT ![o] = SponsorSigned(@, next)]
           /\ signer' = [signer EXCEPT ![s] = SponsorDone(@, next)]

-----------------------------------------------------------------------------
(* The transaction object itself.                                          *)

setSponsor(o, fee, nonce) ==
    /\ AuthType = "Sponsored"
    /\ Live(o)
    /\ tx' = [tx EXCEPT ![o] = SponsoredBy(@, fee, nonce)]
    /\ UNCHANGED signer

\* setFee: the sponsor's fee when there is a sponsor, else the origin's.
setFee(o, fee) ==
    /\ Live(o)
    /\ tx' = IF AuthType = "Sponsored" THEN [tx EXCEPT ![o].sponsor.fee = fee]
                                       ELSE [tx EXCEPT ![o].fee = fee]
    /\ UNCHANGED signer

setNonce(o, nonce) ==
    /\ Live(o)
    /\ tx' = [tx EXCEPT ![o].nonce = nonce]
    /\ UNCHANGED signer

setSponsorNonce(o, nonce) ==
    /\ AuthType = "Sponsored"
    /\ Live(o)
    /\ tx' = [tx EXCEPT ![o].sponsor.nonce = nonce]
    /\ UNCHANGED signer

\* Another party deserializes what this one serialized.
Deserialize(o, copy) ==
    /\ Live(o) /\ Free(copy)
    /\ tx' = Put(tx, copy, tx[o])
    /\ UNCHANGED signer

\* The last reference to a signer, or to an object no signer holds, goes away.
DropSigner(s) ==
    /\ s \in DOMAIN signer
    /\ signer' = Without(signer, s)
    /\ UNCHANGED tx

DropTx(o) ==
    /\ Live(o) /\ ~Held(o)
    /\ DOMAIN tx # {o}
    /\ tx' = Without(tx, o)
    /\ UNCHANGED signer

-----------------------------------------------------------------------------
Next ==
    \/ \E s \in Signers, o \in Objs : NewSigner(s, o)
    \/ \E s \in Signers, k \in Keys : signOrigin(s, k)
    \/ \E s \in Signers, k \in Keys : appendOrigin(s, k)
    \/ \E o \in Objs, k \in Keys : appendPubkey(o, k)
    \/ \E s \in Signers, o, clone \in Objs : resume(s, o, clone)
    \/ \E s \in Signers, o, clone \in Objs, fee \in Fees, nonce \in Nonces :
          createSponsorSigner(s, o, clone, fee, nonce)
    \/ \E s \in Signers : signSponsor(s)
    \/ \E o \in Objs, fee \in Fees, nonce \in Nonces : setSponsor(o, fee, nonce)
    \/ \E o \in Objs, fee \in Fees : setFee(o, fee)
    \/ \E o \in Objs, nonce \in Nonces : setNonce(o, nonce)
    \/ \E o \in Objs, nonce \in Nonces : setSponsorNonce(o, nonce)
    \/ \E o, copy \in Objs : Deserialize(o, copy)
    \/ \E s \in Signers : DropSigner(s)
    \/ \E o \in Objs : DropTx(o)

Spec == Init /\ [][Next]_vars

-----------------------------------------------------------------------------
(* Properties.                                                             *)

\* Type correctness: what a transaction in memory and a signer look like.
TxOK(t) ==
    /\ t \in [fee: Fees, nonce: Nonces, fields: {t.fields}, sig: {t.sig}, sponsor: {t.sponsor}]
    /\ IsFields(t.fields) /\ Len(t.fields) <= MaxFields
    /\ t.sig # NoSig => t.sig.by \in Keys
    /\ t.sponsor \in [key: {Stranger, Sponsor}, fee: Fees, nonce: Nonces, sig: {t.sponsor.sig}]

SignerOK(s, objs) ==
    s \in [transaction: objs, sigHash: {s.sigHash}, originDone: BOOLEAN, uses: 0..MaxUses,
           verified: {s.verified}]

TypeOK ==
    /\ DOMAIN tx \subseteq Objs /\ tx = [o \in DOMAIN tx |-> tx[o]]
    /\ \A o \in DOMAIN tx : TxOK(tx[o])
    /\ DOMAIN signer \subseteq Signers /\ signer = [s \in DOMAIN signer |-> signer[s]]
    /\ \A s \in DOMAIN signer : SignerOK(signer[s], DOMAIN tx)

\* The legacy (sequential) modes never hold more signatures than required,
\* however many signers share the object (the two checks in signer.ts).
NotOversigned(t) == isSequentialMultiSig => NumSigned(t.fields) <= NumSigs
NoOversign == \A o \in DOMAIN tx : NotOversigned(tx[o])

\* A transaction verifyOrigin accepts was signed, with the fee and nonce it has,
\* by signaturesRequired different owners of its address (exactly that many in
\* the sequential modes).
VerifiedByQuorum ==
    \A o \in DOMAIN tx : verifyOrigin(tx[o]) =>
        Cardinality(Consenting(tx[o])) >= NumSigs

\* No single call edits a transaction the node accepts into a different one it
\* accepts: fee, nonce, fields and sponsor are all under the signatures.
EditsInvalidate ==
    [][\A o \in DOMAIN tx \cap DOMAIN tx' : tx'[o] # tx[o] =>
          ~(Accepted(tx[o]) /\ Accepted(tx'[o]))]_vars

\* The sponsor's signature holds, whatever is done between createSponsorSigner and
\* signSponsor to the sponsor's side of the clone (setSponsor, setFee, setSponsorNonce,
\* another sponsor signature): as long as the origin's side is what was verified, what
\* signSponsor leaves is a transaction the node accepts.
SponsorSignatureHolds ==
    [][\A s \in DOMAIN signer :
          (signSponsor(s) /\ Origin(tx[signer[s].transaction]) \in signer[s].verified) =>
              Accepted(tx'[signer[s].transaction])]_vars
=============================================================================
