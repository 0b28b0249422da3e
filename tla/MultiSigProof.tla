---------------------------- MODULE MultiSigProof ----------------------------
(***************************************************************************)
(* Theorems about MultiSig, for every set of keys, objects and signers,    *)
(* every address and every threshold.                                      *)
(***************************************************************************)
EXTENDS MultiSig, SpendingAuthProof

-----------------------------------------------------------------------------
(* What the calls on a transaction preserve.                               *)

\* What holds of every transaction object.
ObjectOK(t) == TxOK(t) /\ NotOversigned(t)

\* The object makeUnsigned... returns is well formed.
LEMMA UnsignedOK == ObjectOK(UnsignedTx)
  <1>1. IsFields(<<>>) /\ Len(<<>>) = 0
    BY DEF IsFields
  <1>2. TxOK(UnsignedTx)
    BY <1>1, SigningAssumption DEF TxOK, UnsignedTx, NoSponsor
  <1>3. SigIndices(<<>>) = {}
    BY DEF SigIndices
  <1>4. NumSigned(UnsignedTx.fields) = 0
    BY <1>3, FS_EmptySet DEF NumSigned, UnsignedTx
  <1> QED BY <1>2, <1>4, ModeAssumption DEF ObjectOK, NotOversigned

\* A call that keeps the fields keeps their number of signatures.
LEMMA SameFieldsOK ==
    ASSUME NEW t, ObjectOK(t), NEW u, TxOK(u), u.fields = t.fields
    PROVE  ObjectOK(u)
  BY DEF ObjectOK, NotOversigned

\* signOrigin keeps an object well formed, and within its signatures.
LEMMA SignedOK ==
    ASSUME NEW t, ObjectOK(t), MayStillSign(t), Len(t.fields) < MaxFields,
           NEW k \in Keys, NEW next, next.sig.by = k
    PROVE  ObjectOK(Signed(t, k, next))
  <1>1. CASE isSingleSig
    <2>1. TxOK(Signed(t, k, next)) /\ Signed(t, k, next).fields = t.fields
      BY <1>1 DEF ObjectOK, TxOK, Signed
    <2> QED BY <2>1, SameFieldsOK
  <1>2. CASE ~isSingleSig
    <2> DEFINE f == SignatureField(k, next.sig)
               u == Append(t.fields, f)
    <2>1. IsField(f) /\ f.type = "MessageSignature"
      BY SignatureIsField
    <2>2. IsFields(u) /\ Len(u) = Len(t.fields) + 1
      BY <2>1, AppendField DEF ObjectOK, TxOK
    <2>3. Len(u) <= MaxFields
      BY <2>2, SigningAssumption DEF ObjectOK, TxOK, IsFields
    <2>4. NumSigned(t.fields) \in Nat /\ NumSigned(u) = NumSigned(t.fields) + 1
      BY <2>1, AppendCounts DEF ObjectOK, TxOK
    <2>5. Signed(t, k, next) = [t EXCEPT !.fields = u]
      BY <1>2 DEF Signed
    <2>6. TxOK(Signed(t, k, next)) /\ Signed(t, k, next).fields = u
      <3> HIDE DEF u
      <3> QED BY <2>2, <2>3, <2>5 DEF ObjectOK, TxOK
    <2>7. NotOversigned(Signed(t, k, next))
      BY <2>4, <2>6, ModeAssumption DEF NotOversigned, MayStillSign
    <2> QED BY <2>6, <2>7 DEF ObjectOK
  <1> QED BY <1>1, <1>2

\* appendPubkey does, whatever the key.
LEMMA WithPubkeyOK ==
    ASSUME NEW t, ObjectOK(t), Len(t.fields) < MaxFields, NEW k \in Keys
    PROVE  ObjectOK(WithPubkey(t, k))
  <1> DEFINE f == PublicKeyField(k)
             u == Append(t.fields, f)
  <1>1. IsField(f) /\ f.type = "PublicKey"
    BY PublicKeyIsField
  <1>2. IsFields(u) /\ Len(u) = Len(t.fields) + 1 /\ NumSigned(u) = NumSigned(t.fields)
    BY <1>1, AppendField, AppendCounts DEF ObjectOK, TxOK
  <1>3. Len(u) <= MaxFields
    BY <1>2, SigningAssumption DEF ObjectOK, TxOK, IsFields
  <1>4. WithPubkey(t, k) = [t EXCEPT !.fields = u]
    BY DEF WithPubkey
  <1> HIDE DEF u
  <1> QED BY <1>2, <1>3, <1>4 DEF ObjectOK, TxOK, NotOversigned

\* setSponsor does.
LEMMA SponsoredOK ==
    ASSUME NEW t, ObjectOK(t), NEW fee \in Fees, NEW nonce \in Nonces
    PROVE  ObjectOK(SponsoredBy(t, fee, nonce))
  <1>1. TxOK(SponsoredBy(t, fee, nonce)) /\ SponsoredBy(t, fee, nonce).fields = t.fields
    BY DEF ObjectOK, TxOK, SponsoredBy
  <1> QED BY <1>1, SameFieldsOK

\* setFee, setNonce, setSponsorNonce, and the signature of signSponsor.
LEMMA EditOK ==
    ASSUME NEW t, ObjectOK(t), NEW fee \in Fees, NEW nonce \in Nonces, NEW next
    PROVE  /\ ObjectOK([t EXCEPT !.fee = fee])
           /\ ObjectOK([t EXCEPT !.sponsor.fee = fee])
           /\ ObjectOK([t EXCEPT !.nonce = nonce])
           /\ ObjectOK([t EXCEPT !.sponsor.nonce = nonce])
           /\ ObjectOK(SponsorSigned(t, next))
  <1>1. TxOK([t EXCEPT !.fee = fee]) /\ [t EXCEPT !.fee = fee].fields = t.fields
    BY DEF ObjectOK, TxOK
  <1>2. TxOK([t EXCEPT !.sponsor.fee = fee]) /\ [t EXCEPT !.sponsor.fee = fee].fields = t.fields
    BY DEF ObjectOK, TxOK
  <1>3. TxOK([t EXCEPT !.nonce = nonce]) /\ [t EXCEPT !.nonce = nonce].fields = t.fields
    BY DEF ObjectOK, TxOK
  <1>4. /\ TxOK([t EXCEPT !.sponsor.nonce = nonce])
        /\ [t EXCEPT !.sponsor.nonce = nonce].fields = t.fields
    BY DEF ObjectOK, TxOK
  <1>5. TxOK(SponsorSigned(t, next)) /\ SponsorSigned(t, next).fields = t.fields
    BY DEF ObjectOK, TxOK, SponsorSigned
  <1> QED BY <1>1, <1>2, <1>3, <1>4, <1>5, SameFieldsOK

-----------------------------------------------------------------------------
(* The invariant, over the objects and signers there are.                  *)

TxsOK(f) ==
    /\ DOMAIN f \subseteq Objs /\ f = [o \in DOMAIN f |-> f[o]]
    /\ \A o \in DOMAIN f : ObjectOK(f[o])

SignersOK(g, objs) ==
    /\ DOMAIN g \subseteq Signers /\ g = [s \in DOMAIN g |-> g[s]]
    /\ \A s \in DOMAIN g : SignerOK(g[s], objs)

Inv == TxsOK(tx) /\ SignersOK(signer, DOMAIN tx)

\* Changing one object keeps all of them well formed.
LEMMA ReplaceOK ==
    ASSUME NEW f, TxsOK(f), NEW o \in DOMAIN f, NEW u, ObjectOK(u)
    PROVE  TxsOK([f EXCEPT ![o] = u]) /\ DOMAIN [f EXCEPT ![o] = u] = DOMAIN f
  BY DEF TxsOK

\* Adding one does.
LEMMA PutOK ==
    ASSUME NEW f, TxsOK(f), NEW o \in Objs, NEW u, ObjectOK(u)
    PROVE  TxsOK(Put(f, o, u)) /\ DOMAIN Put(f, o, u) = DOMAIN f \cup {o}
  BY DEF TxsOK, Put

\* Adding a signer keeps every signer on an object that exists.
LEMMA PutSignerOK ==
    ASSUME NEW g, NEW objs, SignersOK(g, objs), NEW s \in Signers, NEW x, SignerOK(x, objs)
    PROVE  SignersOK(Put(g, s, x), objs)
  BY DEF SignersOK, Put

\* Changing one does.
LEMMA ReplaceSignerOK ==
    ASSUME NEW g, NEW objs, SignersOK(g, objs), NEW s \in DOMAIN g, NEW x, SignerOK(x, objs)
    PROVE  SignersOK([g EXCEPT ![s] = x], objs)
  BY DEF SignersOK

\* After a signature, and on another object.
LEMMA EditSignerOK ==
    ASSUME NEW objs, NEW x, SignerOK(x, objs), NEW hash, NEW next
    PROVE  /\ x.uses < MaxUses => SignerOK([x EXCEPT !.sigHash = hash, !.uses = @ + 1], objs)
           /\ x.uses < MaxUses =>
                SignerOK(SponsorDone(x, next), objs)
           /\ \A o \in objs :
                SignerOK([x EXCEPT !.transaction = o, !.sigHash = hash, !.verified = {}], objs)
  <1>1. x.uses < MaxUses => x.uses + 1 \in 0..MaxUses
    BY SigningAssumption DEF SignerOK
  <1>2. ASSUME x.uses < MaxUses
        PROVE  SignerOK([x EXCEPT !.sigHash = hash, !.uses = @ + 1], objs)
    BY <1>1, <1>2 DEF SignerOK
  <1>3. ASSUME x.uses < MaxUses
        PROVE  SignerOK(SponsorDone(x, next), objs)
    BY <1>1, <1>3 DEF SignerOK, SponsorDone
  <1>4. ASSUME NEW o \in objs
        PROVE  SignerOK([x EXCEPT !.transaction = o, !.sigHash = hash, !.verified = {}], objs)
    BY <1>4 DEF SignerOK
  <1> QED BY <1>2, <1>3, <1>4

\* A signer stays well formed when there are more objects.
LEMMA MoreObjectsOK ==
    ASSUME NEW g, NEW objs, SignersOK(g, objs), NEW more, objs \subseteq more
    PROVE  SignersOK(g, more)
  BY DEF SignersOK, SignerOK

\* A new signer on an object that exists is well formed.
LEMMA NewSignerOK ==
    ASSUME NEW objs, NEW o \in objs, NEW hash, NEW done \in BOOLEAN
    PROVE  SignerOK(SignerOn(o, hash, done), objs)
  BY SigningAssumption DEF SignerOK, SignerOn

LEMMA SponsorSignerOK ==
    ASSUME NEW objs, NEW o \in objs, NEW t
    PROVE  SignerOK(SponsorSignerOn(o, t), objs)
  <1>1. ASSUME NEW x, SignerOK(x, objs), NEW b
        PROVE  SignerOK([x EXCEPT !.verified = b], objs)
    BY <1>1 DEF SignerOK
  <1>2. SignerOK(SignerOn(o, originSigHash(t), TRUE), objs)
    BY NewSignerOK
  <1> QED BY <1>1, <1>2 DEF SponsorSignerOn

-----------------------------------------------------------------------------
(* Inv is inductive.                                                       *)

\* The signature a sponsor's signer makes next, and the step that stores it.
SponsorSignature(s) ==
    LET t == tx[signer[s].transaction]
    IN  nextSignature(signer[s].sigHash, "Sponsored", t.sponsor.fee, t.sponsor.nonce, Sponsor)

LEMMA SignSponsorStep ==
    ASSUME NEW s, signSponsor(s)
    PROVE  /\ AuthType = "Sponsored"
           /\ s \in DOMAIN signer /\ signer[s].uses < MaxUses
           /\ tx' = [tx EXCEPT ![signer[s].transaction] =
                       SponsorSigned(tx[signer[s].transaction], SponsorSignature(s))]
           /\ signer' = [signer EXCEPT ![s] = SponsorDone(signer[s], SponsorSignature(s))]
  BY Zenon DEF signSponsor, SponsorSignature

\* The invariant holds at the start ...
LEMMA InitInv == Init => Inv
  BY UnsignedOK, SigningAssumption DEF Init, Inv, TxsOK, SignersOK

\* ... and every call keeps it ...
LEMMA NextInv == Inv /\ [Next]_vars => Inv'
  <1> SUFFICES ASSUME Inv, [Next]_vars
               PROVE  TxsOK(tx') /\ SignersOK(signer', DOMAIN tx')
    BY DEF Inv
  <1> USE DEF Inv, Live, Free, Held
  <1>0. CASE UNCHANGED vars
    BY <1>0 DEF vars
  <1>1. ASSUME NEW s \in Signers, NEW o \in Objs, NewSigner(s, o)
        PROVE  TxsOK(tx') /\ SignersOK(signer', DOMAIN tx')
    <2>1. SignerOK(SignerOn(o, ReplayedSigHash(tx[o]), FALSE), DOMAIN tx)
      BY <1>1, NewSignerOK DEF NewSigner
    <2> QED BY <1>1, <2>1, PutSignerOK DEF NewSigner
  <1>2. ASSUME NEW s \in Signers, NEW k \in Keys, signOrigin(s, k)
        PROVE  TxsOK(tx') /\ SignersOK(signer', DOMAIN tx')
    <2> DEFINE o == signer[s].transaction
               next == nextSignature(signer[s].sigHash, "Standard", tx[o].fee, tx[o].nonce, k)
    <2>1. o \in DOMAIN tx /\ ObjectOK(tx[o])
      BY <1>2 DEF signOrigin, SignersOK, SignerOK, TxsOK
    <2>2. next.sig.by = k
      BY DEF nextSignature
    <2>3. ObjectOK(Signed(tx[o], k, next))
      <3> HIDE DEF next, o
      <3> QED BY <1>2, <2>1, <2>2, SignedOK DEF signOrigin, o
    <2>4. TxsOK(tx') /\ DOMAIN tx' = DOMAIN tx
      BY <1>2, <2>1, <2>3, ReplaceOK DEF signOrigin
    <2>5. SignersOK(signer', DOMAIN tx)
      <3> DEFINE h == IF isSingleSig \/ isSequentialMultiSig THEN next.sigHash
                      ELSE signer[s].sigHash
             x == [signer[s] EXCEPT !.sigHash = h, !.uses = @ + 1]
      <3>1. signer' = [signer EXCEPT ![s] = x]
        BY <1>2 DEF signOrigin
      <3>2. SignerOK(signer[s], DOMAIN tx) /\ signer[s].uses < MaxUses /\ s \in DOMAIN signer
        BY <1>2 DEF signOrigin, SignersOK
      <3> HIDE DEF h
      <3>3. SignerOK(x, DOMAIN tx)
        BY <3>2, EditSignerOK
      <3> HIDE DEF x
      <3> QED BY <3>1, <3>2, <3>3, ReplaceSignerOK
    <2> QED BY <2>4, <2>5
  <1>3. ASSUME NEW o \in Objs, NEW k \in Keys, appendPubkey(o, k)
        PROVE  TxsOK(tx') /\ SignersOK(signer', DOMAIN tx')
    <2>1. ObjectOK(WithPubkey(tx[o], k))
      BY <1>3, WithPubkeyOK DEF appendPubkey, TxsOK
    <2> QED BY <1>3, <2>1, ReplaceOK DEF appendPubkey
  <1>4. ASSUME NEW s \in Signers, NEW k \in Keys, appendOrigin(s, k)
        PROVE  TxsOK(tx') /\ SignersOK(signer', DOMAIN tx')
    <2>1. signer[s].transaction \in Objs
      BY <1>4 DEF appendOrigin, SignersOK, SignerOK, TxsOK
    <2> QED BY <1>3, <1>4, <2>1 DEF appendOrigin
  <1>5. ASSUME NEW s \in Signers, NEW o \in Objs, NEW clone \in Objs, resume(s, o, clone)
        PROVE  TxsOK(tx') /\ SignersOK(signer', DOMAIN tx')
    <2>1. ObjectOK(tx[o])
      BY <1>5 DEF resume, TxsOK
    <2>2. TxsOK(tx') /\ DOMAIN tx' = DOMAIN tx \cup {clone}
      BY <1>5, <2>1, PutOK DEF resume
    <2>3. SignersOK(signer, DOMAIN tx')
      BY <2>2, MoreObjectsOK
    <2> DEFINE x == [signer[s] EXCEPT !.transaction = clone, !.sigHash = signBegin,
                                      !.verified = {}]
    <2>4. signer' = [signer EXCEPT ![s] = x] /\ s \in DOMAIN signer
      BY <1>5 DEF resume
    <2>5. SignerOK(x, DOMAIN tx')
      BY <2>2, <2>3, <2>4, EditSignerOK DEF SignersOK
    <2> HIDE DEF x
    <2> QED BY <2>2, <2>3, <2>4, <2>5, ReplaceSignerOK
  <1>6. ASSUME NEW s \in Signers, NEW o \in Objs, NEW clone \in Objs,
               NEW fee \in Fees, NEW nonce \in Nonces,
               createSponsorSigner(s, o, clone, fee, nonce)
        PROVE  TxsOK(tx') /\ SignersOK(signer', DOMAIN tx')
    <2>1. ObjectOK(SponsoredBy(tx[o], fee, nonce))
      BY <1>6, SponsoredOK DEF createSponsorSigner, TxsOK
    <2>2. TxsOK(tx') /\ DOMAIN tx' = DOMAIN tx \cup {clone}
      BY <1>6, <2>1, PutOK DEF createSponsorSigner
    <2>3. SignersOK(signer, DOMAIN tx')
      BY <2>2, MoreObjectsOK
    <2>4. SignerOK(SponsorSignerOn(clone, tx[o]), DOMAIN tx')
      BY <2>2, SponsorSignerOK
    <2> QED BY <1>6, <2>2, <2>3, <2>4, PutSignerOK DEF createSponsorSigner
  <1>7. ASSUME NEW s \in Signers, signSponsor(s)
        PROVE  TxsOK(tx') /\ SignersOK(signer', DOMAIN tx')
    <2> DEFINE o == signer[s].transaction
               next == SponsorSignature(s)
               x == SponsorDone(signer[s], next)
    <2>1. /\ s \in DOMAIN signer /\ signer[s].uses < MaxUses
          /\ tx' = [tx EXCEPT ![o] = SponsorSigned(tx[o], next)]
          /\ signer' = [signer EXCEPT ![s] = x]
      BY <1>7, SignSponsorStep
    <2> HIDE DEF next
    <2>2. SignerOK(signer[s], DOMAIN tx)
      BY <2>1 DEF SignersOK
    <2>3. o \in DOMAIN tx
      BY <2>2 DEF SignerOK
    <2>4. ObjectOK(tx[o])
      BY <2>3 DEF TxsOK
    <2>5. ObjectOK(SponsorSigned(tx[o], next))
      BY <2>4, EditOK, SigningAssumption
    <2>6. SignerOK(x, DOMAIN tx)
      BY <2>1, <2>2, EditSignerOK
    <2> HIDE DEF x, o
    <2>7. TxsOK(tx') /\ DOMAIN tx' = DOMAIN tx
      BY <2>1, <2>3, <2>5, ReplaceOK
    <2>8. SignersOK(signer', DOMAIN tx)
      BY <2>1, <2>6, ReplaceSignerOK
    <2> QED BY <2>7, <2>8
  <1>8. ASSUME NEW o \in Objs, NEW fee \in Fees, NEW nonce \in Nonces, setSponsor(o, fee, nonce)
        PROVE  TxsOK(tx') /\ SignersOK(signer', DOMAIN tx')
    <2>1. ObjectOK(SponsoredBy(tx[o], fee, nonce))
      BY <1>8, SponsoredOK DEF setSponsor, TxsOK
    <2> QED BY <1>8, <2>1, ReplaceOK DEF setSponsor
  <1>9. ASSUME NEW o \in Objs, NEW fee \in Fees, setFee(o, fee)
        PROVE  TxsOK(tx') /\ SignersOK(signer', DOMAIN tx')
    <2>1. /\ ObjectOK([tx[o] EXCEPT !.fee = fee])
          /\ ObjectOK([tx[o] EXCEPT !.sponsor.fee = fee])
      BY <1>9, EditOK, SigningAssumption DEF setFee, TxsOK
    <2>2. \/ tx' = [tx EXCEPT ![o] = [tx[o] EXCEPT !.fee = fee]]
          \/ tx' = [tx EXCEPT ![o] = [tx[o] EXCEPT !.sponsor.fee = fee]]
      BY <1>9 DEF setFee
    <2> QED BY <1>9, <2>1, <2>2, ReplaceOK DEF setFee
  <1>10. ASSUME NEW o \in Objs, NEW nonce \in Nonces, setNonce(o, nonce)
         PROVE  TxsOK(tx') /\ SignersOK(signer', DOMAIN tx')
    <2>1. ObjectOK([tx[o] EXCEPT !.nonce = nonce])
      BY <1>10, EditOK, SigningAssumption DEF setNonce, TxsOK
    <2>2. tx' = [tx EXCEPT ![o] = [tx[o] EXCEPT !.nonce = nonce]]
      BY <1>10 DEF setNonce
    <2>3. o \in DOMAIN tx /\ signer' = signer
      BY <1>10 DEF setNonce
    <2>4. TxsOK(tx') /\ DOMAIN tx' = DOMAIN tx
      <3> DEFINE u == [tx[o] EXCEPT !.nonce = nonce]
      <3> HIDE DEF u
      <3> QED BY <2>1, <2>2, <2>3, ReplaceOK DEF u
    <2> QED BY <2>3, <2>4
  <1>11. ASSUME NEW o \in Objs, NEW nonce \in Nonces, setSponsorNonce(o, nonce)
         PROVE  TxsOK(tx') /\ SignersOK(signer', DOMAIN tx')
    <2>1. ObjectOK([tx[o] EXCEPT !.sponsor.nonce = nonce])
      BY <1>11, EditOK, SigningAssumption DEF setSponsorNonce, TxsOK
    <2>2. tx' = [tx EXCEPT ![o] = [tx[o] EXCEPT !.sponsor.nonce = nonce]]
      BY <1>11 DEF setSponsorNonce
    <2>3. o \in DOMAIN tx /\ signer' = signer
      BY <1>11 DEF setSponsorNonce
    <2>4. TxsOK(tx') /\ DOMAIN tx' = DOMAIN tx
      <3> HIDE DEF Inv
      <3> QED BY <2>1, <2>2, <2>3, ReplaceOK DEF Inv
    <2> QED BY <2>3, <2>4
  <1>12. ASSUME NEW o \in Objs, NEW copy \in Objs, Deserialize(o, copy)
         PROVE  TxsOK(tx') /\ SignersOK(signer', DOMAIN tx')
    <2>1. ObjectOK(tx[o])
      BY <1>12 DEF Deserialize, TxsOK
    <2>2. TxsOK(tx') /\ DOMAIN tx' = DOMAIN tx \cup {copy}
      BY <1>12, <2>1, PutOK DEF Deserialize
    <2> QED BY <1>12, <2>2, MoreObjectsOK DEF Deserialize
  <1>13. ASSUME NEW s \in Signers, DropSigner(s)
         PROVE  TxsOK(tx') /\ SignersOK(signer', DOMAIN tx')
    BY <1>13 DEF DropSigner, Without, SignersOK
  <1>14. ASSUME NEW o \in Objs, DropTx(o)
         PROVE  TxsOK(tx') /\ SignersOK(signer', DOMAIN tx')
    BY <1>14 DEF DropTx, Without, TxsOK, SignersOK, SignerOK
  <1> QED
    BY <1>0, <1>1, <1>2, <1>3, <1>4, <1>5, <1>6, <1>7, <1>8, <1>9, <1>10, <1>11, <1>12,
       <1>13, <1>14 DEF Next

\* ... so it holds throughout.
LEMMA Invariance == Spec => []Inv
  BY InitInv, NextInv, PTL DEF Spec

\* Every object in memory is a transaction and every signer is on one of them.
THEOREM TypeCorrect == Spec => []TypeOK
  <1>1. Inv => TypeOK
    BY DEF Inv, TxsOK, SignersOK, ObjectOK, TypeOK
  <1> QED BY <1>1, Invariance, PTL

\* The sequential modes never hold more signatures than the address requires,
\* whatever the order of calls and the number of signers on one object.
THEOREM OversignImpossible == Spec => []NoOversign
  <1>1. Inv => NoOversign
    BY DEF Inv, TxsOK, ObjectOK, NoOversign
  <1> QED BY <1>1, Invariance, PTL

-----------------------------------------------------------------------------
(* What verification implies.                                              *)

\* Whatever the order of calls, a transaction that verifies was signed, at its
\* own fee and nonce, by as many owners of the address as it requires.
THEOREM QuorumConsents == Spec => []VerifiedByQuorum
  <1>1. Inv => VerifiedByQuorum
    BY VerifiedHasQuorum DEF Inv, TxsOK, ObjectOK, TxOK, VerifiedByQuorum
  <1> QED BY <1>1, Invariance, PTL

-----------------------------------------------------------------------------
(* What no edit of an accepted transaction can keep.                       *)

\* A signature is a key and a hash and nothing else; so is the sponsor's.
WholeSig(g) == g # NoSig => g = [by |-> g.by, over |-> g.over]
Whole(t) == WholeSig(t.sig) /\ WholeSig(t.sponsor.sig)

\* What one call may make of a transaction.
Edited(t, u) ==
    \/ \E k, cur : k \in Keys /\ u = Signed(t, k, nextSignature(cur, "Standard", t.fee, t.nonce, k))
    \/ ~isSingleSig /\ \E k \in Keys : u = WithPubkey(t, k)
    \/ /\ AuthType = "Sponsored"
       /\ \/ \E cur : u = SponsorSigned(t,
                              nextSignature(cur, "Sponsored", t.sponsor.fee, t.sponsor.nonce,
                                            Sponsor))
          \/ \E fee, nonce : u = SponsoredBy(t, fee, nonce)
          \/ \E fee : u = [t EXCEPT !.sponsor.fee = fee]
          \/ \E nonce : u = [t EXCEPT !.sponsor.nonce = nonce]
    \/ \E fee : u = [t EXCEPT !.fee = fee]
    \/ \E nonce : u = [t EXCEPT !.nonce = nonce]

\* What signSponsor makes of it is one of those.
LEMMA SponsorSignatureEdits ==
    ASSUME AuthType = "Sponsored", NEW s, NEW t, t = tx[signer[s].transaction]
    PROVE  Edited(t, SponsorSigned(t, SponsorSignature(s)))
  BY Zenon DEF Edited, SponsorSignature

\* A recovered key that is an owner's is the signer's, over that very hash.
LEMMA RecoveredKeyOver ==
    ASSUME NEW cur, NEW auth, NEW fee, NEW nonce, NEW enc, NEW sig, NEW k \in Keys,
           nextVerification(cur, auth, fee, nonce, enc, sig).pubKey = PublicKey(k)
    PROVE  sig.by = k /\ sig.over = sigHashPreSign(cur, auth, fee, nonce)
  BY KeysAssumption DEF nextVerification, PublicKey

\* A multi-sig condition that verifies has a field for each key.
LEMMA VerifiedLength ==
    ASSUME NEW t, IsFields(t.fields), verifyMultiSig(t)
    PROVE  Len(t.fields) = Len(PubKeys)
  <1>1. VerifiedKeys(t) = Signer
    BY DEF verifyMultiSig
  <1>2. DOMAIN VerifiedKeys(t) = 1..Len(t.fields) /\ DOMAIN Signer = 1..Len(PubKeys)
    BY DEF VerifiedKeys, Signer
  <1>3. 1..Len(t.fields) = 1..Len(PubKeys)
    BY <1>1, <1>2
  <1> QED BY <1>3, KeysAssumption DEF IsFields

\* A single-sig condition that verifies was signed by its key, over what it says.
LEMMA VerifiedSingle ==
    ASSUME NEW t, isSingleSig, verifyOrigin(t)
    PROVE  /\ t.sig # NoSig
           /\ t.sig.by = PubKeys[1]
           /\ t.sig.over = sigHashPreSign(signBegin, "Standard", t.fee, t.nonce)
  <1>1. PubKeys[1] \in Keys /\ Signer[1] = PublicKey(PubKeys[1])
    BY KeysAssumption DEF Signer
  <1> QED BY <1>1, RecoveredKeyOver DEF verifyOrigin, verifySingleSig

\* A condition that verifies has a signature, so it says what fee and nonce were signed.
LEMMA FeeAndNonceSigned ==
    ASSUME NEW t, NEW u, IsFields(t.fields), verifyOrigin(t), verifyOrigin(u),
           u.fields = t.fields, u.sig = t.sig
    PROVE  u.fee = t.fee /\ u.nonce = t.nonce
  <1>1. CASE isSingleSig
    <2>1. sigHashPreSign(signBegin, "Standard", t.fee, t.nonce)
            = sigHashPreSign(signBegin, "Standard", u.fee, u.nonce)
      BY <1>1, VerifiedSingle
    <2> QED BY <2>1 DEF sigHashPreSign
  <1>2. CASE ~isSingleSig
    <2>1. verifyMultiSig(t) /\ verifyMultiSig(u)
      BY <1>2 DEF verifyOrigin
    <2>2. PICK i : i \in SigIndices(t.fields)
      <3> SUFFICES ASSUME SigIndices(t.fields) = {} PROVE FALSE
        OBVIOUS
      <3>1. NumSigned(t.fields) = 0
        BY FS_EmptySet DEF NumSigned
      <3> QED BY <1>2, <2>1, <3>1, ModeAssumption, KeysAssumption
              DEF verifyMultiSig, RightNumberOfSignatures, isSingleSig, isSequentialMultiSig,
                  isNonSequentialMultiSig
    <2>3. i \in SigIndices(u.fields) /\ IsFields(u.fields)
      BY <2>2
    <2>4. t.fields[i].contents.over.fee = t.fee /\ t.fields[i].contents.over.nonce = t.nonce
      BY <2>1, <2>2, VerifiedFieldSigned
    <2>5. u.fields[i].contents.over.fee = u.fee /\ u.fields[i].contents.over.nonce = u.nonce
      BY <2>1, <2>3, VerifiedFieldSigned
    <2> QED BY <2>4, <2>5
  <1> QED BY <1>1, <1>2

\* What the sponsor signs over is the origin's alone.
LEMMA OriginHash ==
    ASSUME NEW t, NEW u, u.fields = t.fields, u.sig = t.sig, u.fee = t.fee, u.nonce = t.nonce
    PROVE  originSigHash(u) = originSigHash(t)
  <1>1. FieldEncodings(u) = FieldEncodings(t)
    BY DEF FieldEncodings
  <1>2. SigHashes(u, "Standard", FieldEncodings(t)) = SigHashes(t, "Standard", FieldEncodings(t))
    BY DEF SigHashes
  <1> QED BY <1>1, <1>2 DEF originSigHash

\* The sponsor's signature is over its fee and nonce, and there is one such signature.
LEMMA SponsorSignatureCovers ==
    ASSUME NEW t, TxOK(t), SponsorVerifies(t)
    PROVE  /\ t.sponsor.key = Sponsor
           /\ t.sponsor.sig # NoSig
           /\ t.sponsor.sig.by = Sponsor
           /\ t.sponsor.sig.over = sigHashPreSign(originSigHash(t), "Sponsored",
                                                  t.sponsor.fee, t.sponsor.nonce)
  <1>1. t.sponsor.key = Sponsor /\ Sponsor \in Keys
    BY KeysAssumption DEF TxOK, SponsorVerifies
  <1> QED BY <1>1, RecoveredKeyOver DEF SponsorVerifies

LEMMA SponsorEditSigned ==
    ASSUME NEW t, NEW u, TxOK(t), TxOK(u), Whole(t), Whole(u), SponsorVerifies(t),
           SponsorVerifies(u), originSigHash(u) = originSigHash(t),
           \/ u.sponsor.sig = t.sponsor.sig
           \/ u.sponsor.fee = t.sponsor.fee /\ u.sponsor.nonce = t.sponsor.nonce
    PROVE  u.sponsor = t.sponsor
  <1>1. /\ u.sponsor.sig.by = t.sponsor.sig.by
        /\ t.sponsor.sig # NoSig /\ u.sponsor.sig # NoSig
        /\ u.sponsor.key = t.sponsor.key
    BY SponsorSignatureCovers
  <1>2. CASE u.sponsor.sig = t.sponsor.sig
    <2>1. sigHashPreSign(originSigHash(t), "Sponsored", t.sponsor.fee, t.sponsor.nonce)
            = sigHashPreSign(originSigHash(t), "Sponsored", u.sponsor.fee, u.sponsor.nonce)
      BY <1>2, SponsorSignatureCovers
    <2>2. u.sponsor.fee = t.sponsor.fee /\ u.sponsor.nonce = t.sponsor.nonce
      BY <2>1 DEF sigHashPreSign
    <2> QED BY <1>1, <1>2, <2>2 DEF TxOK
  <1>3. CASE u.sponsor.fee = t.sponsor.fee /\ u.sponsor.nonce = t.sponsor.nonce
    <2>1. u.sponsor.sig.over = t.sponsor.sig.over
      BY <1>3, SponsorSignatureCovers
    <2>2. u.sponsor.sig = t.sponsor.sig
      BY <1>1, <2>1 DEF Whole, WholeSig
    <2> QED BY <1>1, <1>3, <2>2 DEF TxOK
  <1> QED BY <1>2, <1>3
LEMMA SameTransaction ==
    ASSUME NEW t, NEW u, TxOK(t), TxOK(u), u.fee = t.fee, u.nonce = t.nonce,
           u.fields = t.fields, u.sig = t.sig, u.sponsor = t.sponsor
    PROVE  u = t
  BY DEF TxOK

\* An edit of an accepted transaction is not accepted, unless it changes nothing.
LEMMA EditLosesAcceptance ==
    ASSUME NEW t, NEW u, TxOK(t), TxOK(u), Whole(t), Whole(u), Edited(t, u),
           Accepted(t), Accepted(u)
    PROVE  u = t
  <1>0. verifyOrigin(t) /\ verifyOrigin(u) /\ IsFields(t.fields) /\ IsFields(u.fields)
    BY DEF Accepted, TxOK
  <1>1. ASSUME NEW k, NEW cur, k \in Keys,
               u = Signed(t, k, nextSignature(cur, "Standard", t.fee, t.nonce, k))
        PROVE  u = t
    <2> DEFINE next == nextSignature(cur, "Standard", t.fee, t.nonce, k)
    <2>1. CASE isSingleSig
      <3>1. /\ u.fee = t.fee /\ u.nonce = t.nonce /\ u.fields = t.fields
            /\ u.sponsor = t.sponsor
        BY <1>1, <2>1 DEF Signed, TxOK
      <3>2. u.sig.by = t.sig.by /\ u.sig.over = t.sig.over /\ t.sig # NoSig /\ u.sig # NoSig
        BY <1>0, <2>1, <3>1, VerifiedSingle
      <3>3. u.sig = t.sig
        BY <3>2 DEF Whole, WholeSig
      <3> QED BY <3>1, <3>3, SameTransaction
    <2>2. CASE ~isSingleSig
      <3>1. u.fields = Append(t.fields, SignatureField(k, next.sig))
        BY <1>1, <2>2 DEF Signed, TxOK
      <3>2. IsField(SignatureField(k, next.sig))
        BY <1>1, SignatureIsField DEF nextSignature
      <3>3. Len(u.fields) = Len(t.fields) + 1
        BY <1>0, <3>1, <3>2, AppendField
      <3> QED BY <1>0, <2>2, <3>3, VerifiedLength, KeysAssumption DEF verifyOrigin
    <2> QED BY <2>1, <2>2
  <1>2. ASSUME ~isSingleSig, NEW k \in Keys, u = WithPubkey(t, k)
        PROVE  u = t
    <2>1. u.fields = Append(t.fields, PublicKeyField(k)) /\ IsField(PublicKeyField(k))
      BY <1>2, PublicKeyIsField DEF WithPubkey, TxOK
    <2>2. Len(u.fields) = Len(t.fields) + 1
      BY <1>0, <2>1, AppendField
    <2> QED BY <1>0, <1>2, <2>2, VerifiedLength, KeysAssumption DEF verifyOrigin
  <1>3. ASSUME AuthType = "Sponsored", u.fields = t.fields, u.sig = t.sig, u.fee = t.fee,
               u.nonce = t.nonce,
               \/ u.sponsor.sig = t.sponsor.sig
               \/ u.sponsor.fee = t.sponsor.fee /\ u.sponsor.nonce = t.sponsor.nonce
        PROVE  u = t
    <2>1. SponsorVerifies(t) /\ SponsorVerifies(u)
      BY <1>3 DEF Accepted
    <2>2. originSigHash(u) = originSigHash(t)
      BY <1>3, OriginHash
    <2>3. u.sponsor = t.sponsor
      BY <1>3, <2>1, <2>2, SponsorEditSigned
    <2> QED BY <1>3, <2>3, SameTransaction
  <1>4. ASSUME AuthType = "Sponsored", NEW cur,
               u = SponsorSigned(t,
                       nextSignature(cur, "Sponsored", t.sponsor.fee, t.sponsor.nonce, Sponsor))
        PROVE  u = t
    <2>1. /\ u.fields = t.fields /\ u.sig = t.sig /\ u.fee = t.fee /\ u.nonce = t.nonce
          /\ u.sponsor.fee = t.sponsor.fee /\ u.sponsor.nonce = t.sponsor.nonce
      BY <1>4 DEF TxOK, SponsorSigned
    <2> QED BY <1>3, <1>4, <2>1
  <1>5. ASSUME AuthType = "Sponsored", NEW fee, NEW nonce, u = SponsoredBy(t, fee, nonce)
        PROVE  u = t
    <2>1. u.sponsor.sig = NoSig
      BY <1>5 DEF SponsoredBy, TxOK
    <2> QED BY <1>5, <2>1 DEF Accepted, SponsorVerifies
  <1>6. ASSUME AuthType = "Sponsored", NEW fee, u = [t EXCEPT !.sponsor.fee = fee]
        PROVE  u = t
    <2>1. /\ u.fields = t.fields /\ u.sig = t.sig /\ u.fee = t.fee /\ u.nonce = t.nonce
          /\ u.sponsor.sig = t.sponsor.sig
      BY <1>6 DEF TxOK
    <2> QED BY <1>3, <1>6, <2>1
  <1>7. ASSUME AuthType = "Sponsored", NEW nonce, u = [t EXCEPT !.sponsor.nonce = nonce]
        PROVE  u = t
    <2>1. /\ u.fields = t.fields /\ u.sig = t.sig /\ u.fee = t.fee /\ u.nonce = t.nonce
          /\ u.sponsor.sig = t.sponsor.sig
      BY <1>7 DEF TxOK
    <2> QED BY <1>3, <1>7, <2>1
  <1>8. ASSUME u.fields = t.fields, u.sig = t.sig, u.sponsor = t.sponsor
        PROVE  u = t
    BY <1>0, <1>8, FeeAndNonceSigned, SameTransaction
  <1>9. ASSUME NEW fee, u = [t EXCEPT !.fee = fee]
        PROVE  u = t
    <2>1. u.fields = t.fields /\ u.sig = t.sig /\ u.sponsor = t.sponsor
      BY <1>9 DEF TxOK
    <2> QED BY <1>8, <2>1
  <1>10. ASSUME NEW nonce, u = [t EXCEPT !.nonce = nonce]
         PROVE  u = t
    <2>1. u.fields = t.fields /\ u.sig = t.sig /\ u.sponsor = t.sponsor
      BY <1>10 DEF TxOK
    <2> QED BY <1>8, <2>1
  <1> QED BY <1>1, <1>2, <1>4, <1>5, <1>6, <1>7, <1>9, <1>10 DEF Edited

\* Edits keep signatures whole.
LEMMA EditedWhole ==
    ASSUME NEW t, TxOK(t), NEW u, Whole(t), Edited(t, u)
    PROVE  Whole(u)
  <1>1. ASSUME NEW cur, NEW auth, NEW fee, NEW nonce, NEW k
        PROVE  WholeSig(nextSignature(cur, auth, fee, nonce, k).sig)
    BY DEF WholeSig, nextSignature
  <1>2. WholeSig(NoSig)
    BY DEF WholeSig
  <1>3. ASSUME NEW g, WholeSig(g)
        PROVE  /\ Whole([t EXCEPT !.sig = g])
               /\ Whole([t EXCEPT !.sponsor.sig = g])
    BY <1>3 DEF Whole, TxOK
  <1>4. ASSUME NEW fields, NEW fee, NEW nonce
        PROVE  /\ Whole([t EXCEPT !.fields = fields])
               /\ Whole([t EXCEPT !.sponsor.fee = fee])
               /\ Whole([t EXCEPT !.sponsor.nonce = nonce])
               /\ Whole([t EXCEPT !.fee = fee])
               /\ Whole([t EXCEPT !.nonce = nonce])
               /\ Whole(SponsoredBy(t, fee, nonce))
    BY <1>2 DEF Whole, TxOK, SponsoredBy
  <1>5. ASSUME NEW k, NEW next, WholeSig(next.sig)
        PROVE  Whole(Signed(t, k, next)) /\ Whole(WithPubkey(t, k))
    BY <1>3, <1>4, <1>5 DEF Signed, WithPubkey
  <1>6. ASSUME NEW k, NEW cur,
               u = Signed(t, k, nextSignature(cur, "Standard", t.fee, t.nonce, k))
        PROVE  Whole(u)
    BY <1>1, <1>5, <1>6
  <1>7. ASSUME NEW cur,
               u = SponsorSigned(t,
                       nextSignature(cur, "Sponsored", t.sponsor.fee, t.sponsor.nonce, Sponsor))
        PROVE  Whole(u)
    BY <1>1, <1>3, <1>7 DEF SponsorSigned
  <1>8. ASSUME NEW k \in Keys, u = WithPubkey(t, k)
        PROVE  Whole(u)
    BY <1>4, <1>8 DEF WithPubkey
  <1>9. ASSUME NEW fee, NEW nonce,
               \/ u = SponsoredBy(t, fee, nonce)
               \/ u = [t EXCEPT !.sponsor.fee = fee]
               \/ u = [t EXCEPT !.sponsor.nonce = nonce]
               \/ u = [t EXCEPT !.fee = fee]
               \/ u = [t EXCEPT !.nonce = nonce]
        PROVE  Whole(u)
    BY <1>4, <1>9
  <1> QED BY <1>6, <1>7, <1>8, <1>9 DEF Edited
\* An object is after a step what it was, or what one call makes of it; a new object is a
\* copy of one there was, or what one call makes of it.
ComesFrom(p, o) == tx'[o] = tx[p] \/ Edited(tx[p], tx'[o])
StepEdits ==
    \A o \in DOMAIN tx' :
        /\ o \in DOMAIN tx => ComesFrom(o, o)
        /\ \E p \in DOMAIN tx : ComesFrom(p, o)

LEMMA ReplaceEdits ==
    ASSUME NEW o \in DOMAIN tx, NEW u, Edited(tx[o], u), tx' = [tx EXCEPT ![o] = u]
    PROVE  StepEdits
  BY DEF StepEdits, ComesFrom

LEMMA PutEdits ==
    ASSUME NEW o \in DOMAIN tx, NEW clone, clone \notin DOMAIN tx, NEW u,
           u = tx[o] \/ Edited(tx[o], u), tx' = Put(tx, clone, u)
    PROVE  StepEdits
  BY DEF StepEdits, ComesFrom, Put

LEMMA StepsEdit ==
    ASSUME Inv, [Next]_vars
    PROVE  StepEdits
  <1> USE DEF Live, Free, Held
  <1>0. CASE tx' = tx
    BY <1>0 DEF StepEdits, ComesFrom
  <1>2. ASSUME NEW s \in Signers, NEW k \in Keys, signOrigin(s, k)
        PROVE  StepEdits
    <2> DEFINE o == signer[s].transaction
               u == Signed(tx[o], k, nextSignature(signer[s].sigHash, "Standard",
                                                   tx[o].fee, tx[o].nonce, k))
    <2>1. o \in DOMAIN tx
      BY <1>2 DEF signOrigin, Inv, SignersOK, SignerOK
    <2>2. tx' = [tx EXCEPT ![o] = u]
      BY <1>2 DEF signOrigin
    <2>3. Edited(tx[o], u)
      BY DEF Edited
    <2> HIDE DEF u, o
    <2> QED BY <2>1, <2>2, <2>3, ReplaceEdits
  <1>3. ASSUME NEW o, NEW k \in Keys, appendPubkey(o, k)
        PROVE  StepEdits
    <2>1. /\ o \in DOMAIN tx /\ tx' = [tx EXCEPT ![o] = WithPubkey(tx[o], k)]
          /\ Edited(tx[o], WithPubkey(tx[o], k))
      BY <1>3 DEF appendPubkey, Edited
    <2> QED BY <2>1, ReplaceEdits
  <1>4. ASSUME NEW s \in Signers, NEW k \in Keys, appendOrigin(s, k)
        PROVE  StepEdits
    BY <1>3, <1>4 DEF appendOrigin
  <1>5. ASSUME NEW s, NEW o, NEW clone, resume(s, o, clone)
        PROVE  StepEdits
    BY <1>5, PutEdits DEF resume
  <1>6. ASSUME NEW s, NEW o, NEW clone, NEW fee, NEW nonce,
               createSponsorSigner(s, o, clone, fee, nonce)
        PROVE  StepEdits
    <2>1. Edited(tx[o], SponsoredBy(tx[o], fee, nonce))
      BY <1>6 DEF createSponsorSigner, Edited
    <2> QED BY <1>6, <2>1, PutEdits DEF createSponsorSigner
  <1>7. ASSUME NEW s \in Signers, signSponsor(s)
        PROVE  StepEdits
    <2> DEFINE o == signer[s].transaction
               next == SponsorSignature(s)
               u == SponsorSigned(tx[o], next)
    <2>1. /\ s \in DOMAIN signer /\ tx' = [tx EXCEPT ![o] = u]
          /\ AuthType = "Sponsored"
      BY <1>7, SignSponsorStep
    <2>2. SignerOK(signer[s], DOMAIN tx)
      BY <2>1 DEF Inv, SignersOK
    <2>3. o \in DOMAIN tx
      BY <2>2 DEF SignerOK
    <2>4. Edited(tx[o], u)
      BY <2>1, SponsorSignatureEdits
    <2> HIDE DEF u, o
    <2> QED BY <2>1, <2>3, <2>4, ReplaceEdits
  <1>8. ASSUME NEW o, NEW fee, NEW nonce, setSponsor(o, fee, nonce)
        PROVE  StepEdits
    <2>1. /\ o \in DOMAIN tx /\ tx' = [tx EXCEPT ![o] = SponsoredBy(tx[o], fee, nonce)]
          /\ Edited(tx[o], SponsoredBy(tx[o], fee, nonce))
      BY <1>8 DEF setSponsor, Edited
    <2> QED BY <2>1, ReplaceEdits
  <1>9. ASSUME NEW o, NEW fee, setFee(o, fee)
        PROVE  StepEdits
    <2>1. PICK u : /\ Edited(tx[o], u)
                   /\ tx' = [tx EXCEPT ![o] = u]
      <3>1. CASE AuthType = "Sponsored"
        BY <1>9, <3>1 DEF setFee, Edited
      <3>2. CASE AuthType # "Sponsored"
        BY <1>9, <3>2 DEF setFee, Edited
      <3> QED BY <3>1, <3>2
    <2>2. o \in DOMAIN tx
      BY <1>9 DEF setFee
    <2> QED BY <2>1, <2>2, ReplaceEdits
  <1>10. ASSUME NEW o, NEW nonce, setNonce(o, nonce)
         PROVE  StepEdits
    <2>1. PICK u : /\ Edited(tx[o], u)
                   /\ tx' = [tx EXCEPT ![o] = u]
      BY <1>10 DEF setNonce, Edited
    <2>2. o \in DOMAIN tx
      BY <1>10 DEF setNonce
    <2> QED BY <2>1, <2>2, ReplaceEdits
  <1>11. ASSUME NEW o, NEW nonce, setSponsorNonce(o, nonce)
         PROVE  StepEdits
    <2>1. PICK u : /\ Edited(tx[o], u)
                   /\ tx' = [tx EXCEPT ![o] = u]
      BY <1>11 DEF setSponsorNonce, Edited
    <2>2. o \in DOMAIN tx
      BY <1>11 DEF setSponsorNonce
    <2> QED BY <2>1, <2>2, ReplaceEdits
  <1>12. ASSUME NEW o, NEW copy, Deserialize(o, copy)
         PROVE  StepEdits
    BY <1>12, PutEdits DEF Deserialize
  <1>13. ASSUME NEW o, DropTx(o)
         PROVE  StepEdits
    BY <1>13 DEF DropTx, Without, StepEdits, ComesFrom
  <1> QED
    BY <1>0, <1>2, <1>3, <1>4, <1>5, <1>6, <1>7, <1>8, <1>9, <1>10, <1>11, <1>12, <1>13
       DEF Next, vars, NewSigner, DropSigner

AllWhole == \A o \in DOMAIN tx : Whole(tx[o])

LEMMA WholeInit == Init => AllWhole
  BY DEF Init, AllWhole, Whole, WholeSig, UnsignedTx, NoSponsor

LEMMA WholeNext == Inv /\ AllWhole /\ [Next]_vars => AllWhole'
  <1> SUFFICES ASSUME Inv, AllWhole, [Next]_vars, NEW o \in DOMAIN tx'
               PROVE  Whole(tx'[o])
    BY DEF AllWhole
  <1>1. PICK p \in DOMAIN tx : ComesFrom(p, o)
    BY StepsEdit DEF StepEdits
  <1>2. TxOK(tx[p]) /\ Whole(tx[p])
    BY DEF Inv, TxsOK, ObjectOK, AllWhole
  <1> QED BY <1>1, <1>2, EditedWhole DEF ComesFrom

LEMMA NextEdits ==
    Inv /\ Inv' /\ AllWhole /\ AllWhole' /\ [Next]_vars =>
        [\A o \in DOMAIN tx \cap DOMAIN tx' : tx'[o] # tx[o] =>
            ~(Accepted(tx[o]) /\ Accepted(tx'[o]))]_vars
  <1> SUFFICES ASSUME Inv, Inv', AllWhole, AllWhole', [Next]_vars,
                      NEW o \in DOMAIN tx \cap DOMAIN tx', tx'[o] # tx[o],
                      Accepted(tx[o]), Accepted(tx'[o])
               PROVE  FALSE
    OBVIOUS
  <1>1. Edited(tx[o], tx'[o])
    BY StepsEdit DEF StepEdits, ComesFrom
  <1>2. TxOK(tx[o]) /\ TxOK(tx'[o])
    BY DEF Inv, TxsOK, ObjectOK
  <1>3. Whole(tx[o]) /\ Whole(tx'[o])
    BY DEF AllWhole
  <1> QED BY <1>1, <1>2, <1>3, EditLosesAcceptance

\* No call edits a transaction the node accepts into another one it accepts: the fee, the
\* nonce, the fields and the sponsor are all under the signatures.
THEOREM EditsAreSeen == Spec => EditsInvalidate
  <1>1. Spec => []AllWhole
    BY Invariance, WholeInit, WholeNext, PTL DEF Spec
  <1> QED BY <1>1, Invariance, NextEdits, PTL DEF Spec, EditsInvalidate

-----------------------------------------------------------------------------
(* What a sponsor's signer holds until it signs.                           *)

\* The hash of the origin it verified, for a transaction that has the sponsor.
HoldsVerified(s) ==
    \A x \in signer[s].verified :
        /\ AuthType = "Sponsored" /\ signer[s].originDone
        /\ verifyOrigin(x) /\ signer[s].sigHash = originSigHash(x)
        /\ tx[signer[s].transaction].sponsor.key = Sponsor
SponsorSigners == \A s \in DOMAIN signer : HoldsVerified(s)

\* Verification looks at the origin's side alone.
LEMMA SameOrigin ==
    ASSUME NEW t, NEW u, u.fields = t.fields, u.sig = t.sig, u.fee = t.fee, u.nonce = t.nonce
    PROVE  (verifyOrigin(u) <=> verifyOrigin(t)) /\ originSigHash(u) = originSigHash(t)
  <1>1. FieldEncodings(u) = FieldEncodings(t)
    BY DEF FieldEncodings
  <1>2. SigHashes(u, "Standard", FieldEncodings(t)) = SigHashes(t, "Standard", FieldEncodings(t))
    BY DEF SigHashes
  <1>3. VerifiedKeys(u) = VerifiedKeys(t)
    BY <1>1, <1>2 DEF VerifiedKeys
  <1>4. verifyOrigin(u) <=> verifyOrigin(t)
    BY <1>3 DEF verifyOrigin, verifySingleSig, verifyMultiSig
  <1> QED BY <1>4, OriginHash

LEMMA OriginVerification ==
    ASSUME NEW t, TxOK(t)
    PROVE  (verifyOrigin(Origin(t)) <=> verifyOrigin(t)) /\ originSigHash(Origin(t)) = originSigHash(t)
  <1>1. /\ Origin(t).fields = t.fields /\ Origin(t).sig = t.sig
        /\ Origin(t).fee = t.fee /\ Origin(t).nonce = t.nonce
    BY DEF Origin, TxOK
  <1> QED BY <1>1, SameOrigin

\* The sponsor stays the sponsor.
LEMMA EditKeepsSponsor ==
    ASSUME NEW t, TxOK(t), NEW u, Edited(t, u), t.sponsor.key = Sponsor
    PROVE  u.sponsor.key = Sponsor
  <1>1. ASSUME NEW k, NEW next
        PROVE  /\ Signed(t, k, next).sponsor.key = Sponsor
               /\ WithPubkey(t, k).sponsor.key = Sponsor
               /\ SponsorSigned(t, next).sponsor.key = Sponsor
    BY DEF Signed, WithPubkey, SponsorSigned, TxOK
  <1>2. ASSUME NEW k, NEW cur,
               u = Signed(t, k, nextSignature(cur, "Standard", t.fee, t.nonce, k))
        PROVE  u.sponsor.key = Sponsor
    BY <1>1, <1>2
  <1>3. ASSUME NEW cur, u = SponsorSigned(t,
                   nextSignature(cur, "Sponsored", t.sponsor.fee, t.sponsor.nonce, Sponsor))
        PROVE  u.sponsor.key = Sponsor
    BY <1>1, <1>3
  <1>4. ASSUME NEW k, u = WithPubkey(t, k)
        PROVE  u.sponsor.key = Sponsor
    BY <1>1, <1>4
  <1> DEFINE P == u.sponsor.key = Sponsor
  <1>5. (\E k, cur : k \in Keys /\ u = Signed(t, k, nextSignature(cur, "Standard", t.fee, t.nonce, k)))
          => P
    BY <1>2
  <1>6. (\E cur : u = SponsorSigned(t,
            nextSignature(cur, "Sponsored", t.sponsor.fee, t.sponsor.nonce, Sponsor))) => P
    BY <1>3
  <1>7. (\E k \in Keys : u = WithPubkey(t, k)) => P
    BY <1>4
  <1>8. (\E fee, nonce : u = SponsoredBy(t, fee, nonce)) => P
    BY DEF SponsoredBy, TxOK
  <1>9. (\E fee : u = [t EXCEPT !.sponsor.fee = fee]) => P
    BY DEF TxOK
  <1>10. (\E nonce : u = [t EXCEPT !.sponsor.nonce = nonce]) => P
    BY DEF TxOK
  <1>11. (\E fee : u = [t EXCEPT !.fee = fee]) => P
    BY DEF TxOK
  <1>12. (\E nonce : u = [t EXCEPT !.nonce = nonce]) => P
    BY DEF TxOK
  <1> HIDE DEF P
  <1>13. P
    BY Zenon, <1>5, <1>6, <1>7, <1>8, <1>9, <1>10, <1>11, <1>12 DEF Edited
  <1> QED BY <1>13 DEF P

LEMMA SponsorSignersInit == Init => SponsorSigners
  BY DEF Init, SponsorSigners

LEMMA SponsorSignersNext == Inv /\ SponsorSigners /\ [Next]_vars => SponsorSigners'
  <1> SUFFICES ASSUME Inv, SponsorSigners, [Next]_vars
               PROVE  SponsorSigners'
    OBVIOUS
  <1> DEFINE Same(s) == s \in DOMAIN signer /\ signer'[s] = signer[s]
             NoneVerified(s) == signer'[s].verified = {}
  <1>1. ASSUME NEW o \in DOMAIN tx, o \in DOMAIN tx', tx[o].sponsor.key = Sponsor
        PROVE  tx'[o].sponsor.key = Sponsor
    <2>1. tx'[o] = tx[o] \/ Edited(tx[o], tx'[o])
      BY <1>1, StepsEdit DEF StepEdits, ComesFrom
    <2>2. TxOK(tx[o])
      BY <1>1 DEF Inv, TxsOK, ObjectOK
    <2> QED BY <1>1, <2>1, <2>2, EditKeepsSponsor
  <1>2. ASSUME NEW s, Same(s), s \in DOMAIN signer'
        PROVE  HoldsVerified(s)'
    <2>1. Inv'
      BY NextInv
    <2> DEFINE o == signer[s].transaction
    <2>2. SignerOK(signer[s], DOMAIN tx) /\ SignerOK(signer'[s], DOMAIN tx')
      BY <1>2, <2>1 DEF Inv, SignersOK
    <2>3. o \in DOMAIN tx /\ o \in DOMAIN tx'
      BY <1>2, <2>2 DEF SignerOK
    <2>4. HoldsVerified(s)
      BY <1>2 DEF SponsorSigners
    <2> HIDE DEF o
    <2>5. tx[o].sponsor.key = Sponsor => tx'[o].sponsor.key = Sponsor
      BY <1>1, <2>3
    <2> QED BY <1>2, <2>4, <2>5 DEF HoldsVerified, o
  <1>3. ASSUME NEW s, NoneVerified(s)
        PROVE  HoldsVerified(s)'
    BY <1>3 DEF HoldsVerified
  <1>4. SUFFICES \A s \in DOMAIN signer' : Same(s) \/ NoneVerified(s) \/ HoldsVerified(s)'
    BY <1>2, <1>3 DEF SponsorSigners
  <1>5. ASSUME NEW r, NEW x, signer' = Put(signer, r, x), NEW s \in DOMAIN signer', s # r
        PROVE  Same(s)
    BY <1>5 DEF Put
  <1>6. ASSUME NEW r, NEW x, signer' = [signer EXCEPT ![r] = x], NEW s \in DOMAIN signer', s # r
        PROVE  Same(s)
    BY <1>6
  <1>7. CASE UNCHANGED signer
    BY <1>7
  <1>8. ASSUME NEW r, NEW o, NewSigner(r, o)
        PROVE  \A s \in DOMAIN signer' : Same(s) \/ NoneVerified(s)
    <2> DEFINE x == SignerOn(o, ReplayedSigHash(tx[o]), FALSE)
    <2>1. signer' = Put(signer, r, x) /\ x.verified = {}
      BY <1>8 DEF NewSigner, SignerOn
    <2> HIDE DEF x
    <2>2. signer'[r] = x
      BY <2>1 DEF Put
    <2> QED BY <1>5, <2>1, <2>2
  <1>9. ASSUME NEW r, NEW k, signOrigin(r, k)
        PROVE  \A s \in DOMAIN signer' : Same(s) \/ NoneVerified(s)
    <2>1. PICK h : /\ signer' = [signer EXCEPT ![r] = [signer[r] EXCEPT !.sigHash = h, !.uses = @ + 1]]
                   /\ r \in DOMAIN signer /\ ~signer[r].originDone
      BY <1>9 DEF signOrigin
    <2>2. signer[r].verified = {}
      BY <2>1 DEF SponsorSigners, HoldsVerified
    <2>3. SignerOK(signer[r], DOMAIN tx)
      BY <2>1 DEF Inv, SignersOK
    <2>4. signer'[r].verified = {}
      BY <2>1, <2>2, <2>3 DEF SignerOK
    <2> QED BY <1>6, <2>1, <2>4
  <1>10. ASSUME NEW r, NEW o, NEW clone, resume(r, o, clone)
         PROVE  \A s \in DOMAIN signer' : Same(s) \/ NoneVerified(s)
    <2> DEFINE x == [signer[r] EXCEPT !.transaction = clone, !.sigHash = signBegin,
                                      !.verified = {}]
    <2>1. signer' = [signer EXCEPT ![r] = x] /\ r \in DOMAIN signer
      BY <1>10 DEF resume
    <2>2. SignerOK(signer[r], DOMAIN tx)
      BY <2>1 DEF Inv, SignersOK
    <2>3. x.verified = {}
      BY <2>2 DEF SignerOK
    <2> HIDE DEF x
    <2> QED BY <1>6, <2>1, <2>3
  <1>11. ASSUME NEW r, NEW o, NEW clone, NEW fee, NEW nonce,
                createSponsorSigner(r, o, clone, fee, nonce)
         PROVE  \A s \in DOMAIN signer' : Same(s) \/ HoldsVerified(s)'
    <2> DEFINE x == SponsorSignerOn(clone, tx[o])
               t == tx[o]
    <2>1. /\ signer' = Put(signer, r, x) /\ AuthType = "Sponsored" /\ o \in DOMAIN tx
          /\ verifyOrigin(t) /\ tx' = Put(tx, clone, SponsoredBy(t, fee, nonce))
      BY <1>11 DEF createSponsorSigner, Live
    <2>2. /\ x.verified = {Origin(t)} /\ x.originDone /\ x.transaction = clone
          /\ x.sigHash = originSigHash(t)
      BY DEF SponsorSignerOn, SignerOn
    <2>3. TxOK(t)
      BY <2>1 DEF Inv, TxsOK, ObjectOK
    <2>4. SponsoredBy(t, fee, nonce).sponsor.key = Sponsor
      BY <2>3 DEF SponsoredBy, TxOK
    <2>5. verifyOrigin(Origin(t)) /\ originSigHash(Origin(t)) = originSigHash(t)
      BY <2>1, <2>3, OriginVerification
    <2> HIDE DEF x, t
    <2>6. signer'[r] = x /\ tx'[clone] = SponsoredBy(t, fee, nonce)
      BY <2>1 DEF Put
    <2>7. HoldsVerified(r)'
      BY <2>1, <2>2, <2>4, <2>5, <2>6 DEF HoldsVerified
    <2> QED BY <1>5, <2>1, <2>7
  <1>12. ASSUME NEW r, signSponsor(r)
         PROVE  \A s \in DOMAIN signer' : Same(s) \/ NoneVerified(s)
    <2> DEFINE x == SponsorDone(signer[r], SponsorSignature(r))
    <2>1. signer' = [signer EXCEPT ![r] = x] /\ r \in DOMAIN signer
      BY <1>12, SignSponsorStep
    <2>2. SignerOK(signer[r], DOMAIN tx)
      BY <2>1 DEF Inv, SignersOK
    <2>3. x.verified = {}
      BY <2>2 DEF SignerOK, SponsorDone
    <2> HIDE DEF x
    <2> QED BY <1>6, <2>1, <2>3
  <1>13. ASSUME NEW r, DropSigner(r)
         PROVE  \A s \in DOMAIN signer' : Same(s)
    BY <1>13 DEF DropSigner, Without
  <1> QED
    BY <1>7, <1>8, <1>9, <1>10, <1>11, <1>12, <1>13
       DEF Next, vars, appendPubkey, appendOrigin, setSponsor, setFee, setNonce,
           setSponsorNonce, Deserialize, DropTx

\* Whatever is done to the sponsor's side of the clone between createSponsorSigner and
\* signSponsor, the signature is over the origin that was verified and over the fee and the
\* nonce the clone has then, so the node accepts it.  The hypothesis: no signature of the
\* sponsor's is the empty one.
THEOREM SponsorSignaturesHold ==
    ASSUME \A h : [by |-> Sponsor, over |-> h] # NoSig
    PROVE  Spec => SponsorSignatureHolds
  <1>1. Spec => []SponsorSigners
    BY Invariance, SponsorSignersInit, SponsorSignersNext, PTL DEF Spec
  <1>2. ASSUME Inv, SponsorSigners, NEW s \in DOMAIN signer, signSponsor(s),
               Origin(tx[signer[s].transaction]) \in signer[s].verified
        PROVE  Accepted(tx'[signer[s].transaction])
    <2> DEFINE o == signer[s].transaction
               t == tx[o]
               next == SponsorSignature(s)
               u == SponsorSigned(t, next)
    <2>1. AuthType = "Sponsored" /\ tx' = [tx EXCEPT ![o] = u]
      BY <1>2, SignSponsorStep
    <2>2. o \in DOMAIN tx /\ TxOK(t)
      BY <1>2 DEF Inv, SignersOK, SignerOK, TxsOK, ObjectOK
    <2>3. /\ verifyOrigin(Origin(t)) /\ signer[s].sigHash = originSigHash(Origin(t))
          /\ t.sponsor.key = Sponsor
      BY <1>2 DEF SponsorSigners, HoldsVerified
    <2>4. verifyOrigin(t) /\ signer[s].sigHash = originSigHash(t)
      BY <2>2, <2>3, OriginVerification
    <2>5. /\ u.fields = t.fields /\ u.sig = t.sig /\ u.fee = t.fee /\ u.nonce = t.nonce
          /\ u.sponsor.key = Sponsor /\ u.sponsor.fee = t.sponsor.fee
          /\ u.sponsor.nonce = t.sponsor.nonce /\ u.sponsor.sig = next.sig
      BY <2>2, <2>3 DEF SponsorSigned, TxOK
    <2>6. next.sig = [by |-> Sponsor,
                      over |-> sigHashPreSign(originSigHash(t), "Sponsored",
                                              t.sponsor.fee, t.sponsor.nonce)]
      BY <2>4 DEF SponsorSignature, nextSignature
    <2> HIDE DEF u, next, t
    <2>7. verifyOrigin(u) /\ originSigHash(u) = originSigHash(t)
      BY <2>4, <2>5, SameOrigin
    <2>8. u.sponsor.sig # NoSig /\ u.sponsor.key # Stranger
      BY <2>5, <2>6, KeysAssumption
    <2>9. SponsorVerifies(u)
      BY <2>5, <2>6, <2>7, <2>8 DEF SponsorVerifies, nextVerification, PublicKey
    <2> QED BY <2>1, <2>2, <2>7, <2>9 DEF Accepted, o
  <1>3. Inv /\ SponsorSigners =>
          [\A s \in DOMAIN signer :
              (signSponsor(s) /\ Origin(tx[signer[s].transaction]) \in signer[s].verified) =>
                  Accepted(tx'[signer[s].transaction])]_vars
    BY <1>2
  <1> QED BY <1>1, <1>3, Invariance, PTL DEF SponsorSignatureHolds

=============================================================================
