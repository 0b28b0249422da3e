--------------------------- MODULE CosignRoundProof ---------------------------
(***************************************************************************)
(* Theorems about CosignRound, for every address, mode and set of fees:    *)
(* what the rounds of cosigners can make, that they implement Approval,    *)
(* and which of them can succeed.                                          *)
(***************************************************************************)
EXTENDS CosignRound, SpendingAuthProof

-----------------------------------------------------------------------------
(* The inductive invariant.                                                *)

\* The chain a new TransactionSigner replays.
Replay(t) == SigHashes(t, AuthType, AlwaysCompressed(t))

\* The i-th owner's signature on t, over the hash cur.
OwnersSig(i, t, cur) ==
    [by |-> PubKeys[i], over |-> sigHashPreSign(cur, "Standard", t.fee, t.nonce)]

\* Field i is the i-th owner's: its key, or its signature over what was replayed.
TurnsOK(t) ==
    \A i \in 1..Len(t.fields) :
        t.fields[i] \in {PublicKeyField(PubKeys[i]),
                         SignatureField(PubKeys[i], OwnersSig(i, t, Replay(t)[i - 1]))}

RoundTx(t) ==
    /\ t \in [fee: Fees, nonce: {0}, fields: {t.fields}, sig: {t.sig}, sponsor: {t.sponsor}]
    /\ IsFields(t.fields) /\ Len(t.fields) <= Len(PubKeys)
    /\ NumSigned(t.fields) <= NumSigs
    /\ isSingleSig  => t.fields = <<>> /\ t.sig \in {NoSig, OwnersSig(1, t, signBegin)}
    /\ ~isSingleSig => TurnsOK(t) /\ t.sponsor = NoSponsor

Inv ==
    /\ \A t \in handed : RoundTx(t)
    /\ confirmed = Pending \/ (confirmed \in handed /\ Accepted(confirmed))

-----------------------------------------------------------------------------
(* What each turn makes.                                                   *)

\* The transaction makeUnsigned... makes.
LEMMA UnsignedRound ==
    ASSUME NEW fee \in Fees
    PROVE  /\ RoundTx([UnsignedTx EXCEPT !.fee = fee])
           /\ Signatures([UnsignedTx EXCEPT !.fee = fee]) = {}
  <1> DEFINE t == [UnsignedTx EXCEPT !.fee = fee]
  <1>1. /\ t \in [fee: Fees, nonce: {0}, fields: {t.fields}, sig: {t.sig}, sponsor: {t.sponsor}]
        /\ t.fields = <<>> /\ t.sig = NoSig /\ t.sponsor = NoSponsor
    BY DEF UnsignedTx
  <1> HIDE DEF t
  <1>2. IsFields(<<>>) /\ Len(<<>>) = 0 /\ SigIndices(<<>>) = {}
    BY DEF IsFields, SigIndices
  <1>3. NumSigned(<<>>) = 0
    BY <1>2, FS_EmptySet DEF NumSigned
  <1>4. Len(PubKeys) \in Nat /\ NumSigs \in Nat
    BY KeysAssumption, ModeAssumption
  <1>5. RoundTx(t)
    BY <1>1, <1>2, <1>3, <1>4 DEF RoundTx, TurnsOK
  <1>6. Signatures(t) = {}
    BY <1>1, <1>2 DEF Signatures
  <1> QED BY <1>5, <1>6 DEF t

\* What signAndAppend and appendPubkey do to a multi-sig condition.
With(t, f) == [t EXCEPT !.fields = Append(@, f)]

\* u is t with the field f more, which leaves the others, and the chain over them, as
\* they were.
Extends(t, u, f) ==
    /\ u.fields = Append(t.fields, f) /\ IsFields(u.fields) /\ Len(t.fields) \in Nat
    /\ Len(u.fields) = Len(t.fields) + 1 /\ u.fields[Len(t.fields) + 1] = f
    /\ \A i \in 1..Len(t.fields) : u.fields[i] = t.fields[i]
    /\ u \in [fee: Fees, nonce: {0}, fields: {u.fields}, sig: {t.sig}, sponsor: {t.sponsor}]
    /\ u.fee = t.fee /\ u.nonce = t.nonce
    /\ \A i \in 0..Len(t.fields) : Replay(u)[i] = Replay(t)[i]

\* A transaction with one field more replays the same chain as far as it goes.
LEMMA ReplayKept ==
    ASSUME NEW t, NEW u, Len(t.fields) \in Nat, Len(u.fields) = Len(t.fields) + 1,
           t.fee = u.fee, t.nonce = u.nonce,
           \A i \in 1..Len(t.fields) : u.fields[i] = t.fields[i]
    PROVE  \A i \in 0..Len(t.fields) : Replay(t)[i] = Replay(u)[i]
  <1> DEFINE d == AlwaysCompressed(t)
             e == AlwaysCompressed(u)
  <1>1. Alike(t, u, d, e, Len(t.fields))
    BY DEF AlwaysCompressed, Alike
  <1>2. Len(u.fields) \in Nat /\ Len(t.fields) <= Len(u.fields)
    OBVIOUS
  <1> HIDE DEF d, e
  <1>3. \A i \in 0..Len(t.fields) : SigHashes(t, AuthType, d)[i] = SigHashes(u, AuthType, e)[i]
    BY <1>1, <1>2, PrefixReplayed
  <1> QED BY <1>3 DEF Replay, d, e

\* Appending a field does that.
LEMMA FieldJoins ==
    ASSUME NEW t, RoundTx(t), NEW f, IsField(f), NEW u, u = With(t, f)
    PROVE  Extends(t, u, f)
  <1>1. /\ u.fields = Append(t.fields, f) /\ u.fee = t.fee /\ u.nonce = t.nonce
        /\ u \in [fee: Fees, nonce: {0}, fields: {u.fields}, sig: {t.sig}, sponsor: {t.sponsor}]
    BY DEF RoundTx, With
  <1>2. /\ IsFields(u.fields) /\ Len(u.fields) = Len(t.fields) + 1
        /\ u.fields[Len(t.fields) + 1] = f /\ Len(t.fields) \in Nat /\ Len(u.fields) \in Nat
        /\ \A i \in 1..Len(t.fields) : u.fields[i] = t.fields[i]
    <2>1. IsFields(t.fields) /\ Len(t.fields) \in Nat
      BY DEF RoundTx, IsFields
    <2> QED BY <1>1, <2>1, AppendField
  <1>3. \A i \in 0..Len(t.fields) : Replay(t)[i] = Replay(u)[i]
    BY <1>1, <1>2, ReplayKept
  <1> QED BY <1>1, <1>2, <1>3 DEF Extends

\* A turn in a multi-sig round: the owner's field is the last one.
LEMMA TurnTaken ==
    ASSUME NEW t, RoundTx(t), ~isSingleSig, NEW i \in Owners, Len(t.fields) = i - 1,
           NEW f, IsField(f), NEW u, u = With(t, f),
           f \in {PublicKeyField(PubKeys[i]),
                  SignatureField(PubKeys[i], OwnersSig(i, t, Replay(t)[i - 1]))},
           NumSigned(u.fields) <= NumSigs
    PROVE  RoundTx(u)
  <1>1. /\ IsFields(u.fields) /\ Len(t.fields) \in Nat /\ Len(PubKeys) \in Nat
        /\ Len(u.fields) = i /\ u.fields[i] = f
        /\ \A j \in 1..Len(t.fields) : u.fields[j] = t.fields[j]
        /\ u \in [fee: Fees, nonce: {0}, fields: {u.fields}, sig: {t.sig}, sponsor: {t.sponsor}]
        /\ u.fee = t.fee /\ u.nonce = t.nonce
        /\ \A j \in 0..Len(t.fields) : Replay(u)[j] = Replay(t)[j]
    <2>1. Len(PubKeys) \in Nat /\ i \in Nat
      BY KeysAssumption DEF Owners
    <2>2. Extends(t, u, f)
      BY FieldJoins
    <2>3. Len(u.fields) = i /\ u.fields[i] = f
      BY <2>1, <2>2 DEF Extends
    <2> QED BY <2>1, <2>2, <2>3 DEF Extends
  <1>2. \A j \in 0..Len(t.fields), k \in Owners :
           OwnersSig(k, u, Replay(u)[j]) = OwnersSig(k, t, Replay(t)[j])
    BY <1>1 DEF OwnersSig
  <1>3. ASSUME NEW j \in 1..Len(u.fields)
        PROVE  u.fields[j] \in {PublicKeyField(PubKeys[j]),
                                SignatureField(PubKeys[j], OwnersSig(j, u, Replay(u)[j - 1]))}
    <2>1. j \in Owners /\ j - 1 \in 0..Len(t.fields)
      BY <1>1 DEF Owners
    <2>2. OwnersSig(j, u, Replay(u)[j - 1]) = OwnersSig(j, t, Replay(t)[j - 1])
      BY <1>2, <2>1
    <2>3. CASE j = i
      BY <1>1, <2>2, <2>3
    <2>4. CASE j # i
      <3>1. j \in 1..Len(t.fields) /\ u.fields[j] = t.fields[j]
        BY <1>1, <2>4
      <3> QED BY <2>2, <3>1 DEF RoundTx, TurnsOK
    <2> QED BY <2>3, <2>4
  <1>4. TurnsOK(u)
    BY <1>3 DEF TurnsOK
  <1>5. u.sponsor = NoSponsor /\ u.sig = t.sig
    BY <1>1 DEF RoundTx
  <1> QED BY <1>1, <1>4, <1>5 DEF RoundTx, Owners

\* The owners' keys are keys, and what they file are fields.
LEMMA OwnersFields ==
    ASSUME NEW i \in Owners, NEW t, NEW cur
    PROVE  /\ PubKeys[i] \in Keys
           /\ IsField(PublicKeyField(PubKeys[i]))
           /\ IsField(SignatureField(PubKeys[i], OwnersSig(i, t, cur)))
           /\ PublicKeyField(PubKeys[i]).type = "PublicKey"
           /\ SignatureField(PubKeys[i], OwnersSig(i, t, cur)).type = "MessageSignature"
  <1>1. PubKeys[i] \in Keys
    BY KeysAssumption DEF Owners
  <1>2. OwnersSig(i, t, cur).by = PubKeys[i]
    BY DEF OwnersSig
  <1> QED BY <1>1, <1>2, PublicKeyIsField, SignatureIsField

\* The signatures of a multi-sig transaction with a field more.
LEMMA SignaturesJoin ==
    ASSUME NEW t, RoundTx(t), ~isSingleSig, NEW f, IsField(f),
           NEW u, u = With(t, f)
    PROVE  /\ f.type = "MessageSignature" => Signatures(u) = Signatures(t) \cup {f.contents}
           /\ f.type = "PublicKey" => Signatures(u) = Signatures(t)
  <1>1. u.fields = Append(t.fields, f) /\ IsFields(t.fields)
    BY FieldJoins DEF RoundTx, Extends
  <1>2. Signatures(t) = SignaturesIn(t.fields) /\ Signatures(u) = SignaturesIn(u.fields)
    BY DEF Signatures, SignaturesIn
  <1> QED BY <1>1, <1>2, AppendSigns

-----------------------------------------------------------------------------
(* What each turn hands on: u, of t.                                       *)

\* u has what t has.
AddsNothing(t, u) == RoundTx(u) /\ Signatures(u) = Signatures(t)

\* u may have the i-th owner's signature on t's fee more.
AddsSignature(t, u, i) ==
    /\ RoundTx(u)
    /\ \E g : /\ g.by = PubKeys[i] /\ g.over.fee = t.fee
              /\ Signatures(u) \subseteq Signatures(t) \cup {g}

\* signOrigin in a TransactionSigner of the owner's own.
LEMMA SignTurnMakes ==
    ASSUME NEW t, RoundTx(t), NEW i \in Owners, Turn(t, i), Constructible(t), NEW u,
           u = Signed(t, PubKeys[i],
                      nextSignature(ReplayedSigHash(t), "Standard", t.fee, t.nonce, PubKeys[i]))
    PROVE  AddsSignature(t, u, i)
  <1> DEFINE g == OwnersSig(i, t, ReplayedSigHash(t))
             f == SignatureField(PubKeys[i], g)
  <1>1. nextSignature(ReplayedSigHash(t), "Standard", t.fee, t.nonce, PubKeys[i]).sig = g
    BY DEF nextSignature, OwnersSig
  <1>2. g.by = PubKeys[i] /\ g.over.fee = t.fee
    BY DEF OwnersSig, sigHashPreSign
  <1>3. CASE isSingleSig
    <2>1. i = 1 /\ ReplayedSigHash(t) = signBegin
      <3>1. i \in 1..1
        BY <1>3, ModeAssumption DEF Owners
      <3> QED BY <1>3, <3>1 DEF ReplayedSigHash
    <2>2. /\ u.fields = <<>> /\ u.sig = g /\ u.fee = t.fee /\ u.nonce = t.nonce
          /\ u \in [fee: Fees, nonce: {0}, fields: {u.fields}, sig: {u.sig},
                    sponsor: {u.sponsor}]
      BY <1>1, <1>3 DEF Signed, RoundTx
    <2>3. u.sig = OwnersSig(1, u, signBegin)
      BY <2>1, <2>2 DEF OwnersSig
    <2>4. RoundTx(u)
      BY <1>3, <2>2, <2>3 DEF RoundTx
    <2>5. Signatures(u) \subseteq Signatures(t) \cup {g}
      BY <1>3, <2>2 DEF Signatures
    <2> QED BY <1>2, <2>4, <2>5 DEF AddsSignature
  <1>4. CASE ~isSingleSig
    <2>1. /\ IsField(f) /\ f.type = "MessageSignature" /\ f.contents = g
      BY OwnersFields DEF SignatureField
    <2>2. u = With(t, f)
      BY <1>1, <1>4 DEF Signed, With
    <2>3. Len(t.fields) = i - 1 /\ ReplayedSigHash(t) = Replay(t)[i - 1]
      BY <1>4 DEF Turn, ReplayedSigHash, Replay
    <2>4. f = SignatureField(PubKeys[i], OwnersSig(i, t, Replay(t)[i - 1]))
      BY <2>3
    <2> HIDE DEF f, g
    <2>5. NumSigned(u.fields) <= NumSigs
      <3>1. u.fields = Append(t.fields, f) /\ IsFields(t.fields)
        BY <2>1, <2>2, FieldJoins DEF Extends, RoundTx
      <3>2. NumSigned(t.fields) \in Nat /\ NumSigned(u.fields) = NumSigned(t.fields) + 1
        BY <2>1, <3>1, AppendCounts
      <3>3. NumSigned(t.fields) < NumSigs /\ NumSigs \in Nat
        BY <1>4, KeysAssumption, ModeAssumption DEF Constructible
      <3> QED BY <3>2, <3>3
    <2>6. RoundTx(u)
      BY <1>4, <2>1, <2>2, <2>3, <2>4, <2>5, TurnTaken
    <2>7. Signatures(u) = Signatures(t) \cup {g}
      BY <1>4, <2>1, <2>2, SignaturesJoin
    <2> QED BY <1>2, <2>6, <2>7 DEF AddsSignature
  <1> QED BY <1>3, <1>4

\* appendPubkey.
LEMMA AppendTurnMakes ==
    ASSUME NEW t, RoundTx(t), NEW i \in Owners, Turn(t, i), ~isSingleSig, NEW u,
           u = WithPubkey(t, PubKeys[i])
    PROVE  AddsNothing(t, u)
  <1> DEFINE f == PublicKeyField(PubKeys[i])
  <1>1. IsField(f) /\ f.type = "PublicKey"
    BY OwnersFields
  <1>2. u = With(t, f) /\ Len(t.fields) = i - 1
    BY DEF WithPubkey, With, Turn
  <1> HIDE DEF f
  <1>3. NumSigned(u.fields) <= NumSigs
    <2>1. /\ u.fields = Append(t.fields, f) /\ IsFields(t.fields)
          /\ NumSigned(t.fields) <= NumSigs
      BY <1>1, <1>2, FieldJoins DEF Extends, RoundTx
    <2> QED BY <1>1, <2>1, AppendCounts
  <1>4. RoundTx(u)
    BY <1>1, <1>2, <1>3, TurnTaken DEF f
  <1>5. Signatures(u) = Signatures(t)
    BY <1>1, <1>2, SignaturesJoin
  <1> QED BY <1>4, <1>5 DEF AddsNothing

\* A multi-sig transaction that verifies has its signatures, and no signer can be
\* constructed for it any more: not the sponsor's either.
LEMMA VerifiedIsFull ==
    ASSUME NEW t, IsFields(t.fields), ~isSingleSig, verifyOrigin(t)
    PROVE  ~Constructible(t)
  <1>1. NumSigned(t.fields) \in Nat /\ NumSigs \in Nat
    <2>1. IsField(PublicKeyField(Sponsor))
      BY KeysAssumption, PublicKeyIsField
    <2> QED BY <2>1, AppendCounts, KeysAssumption, ModeAssumption
  <1>2. isSequentialMultiSig \/ isNonSequentialMultiSig
    BY ModeAssumption DEF isSingleSig, isSequentialMultiSig, isNonSequentialMultiSig
  <1>3. RightNumberOfSignatures(t.fields)
    BY DEF verifyOrigin, verifyMultiSig
  <1>4. NumSigs <= NumSigned(t.fields)
    BY <1>1, <1>2, <1>3 DEF RightNumberOfSignatures
  <1> QED BY <1>1, <1>4 DEF Constructible

\* signSponsor.
LEMMA SponsorTurnMakes ==
    ASSUME NEW t, RoundTx(t), verifyOrigin(t), Constructible(t), NEW fee, NEW next, NEW u,
           u = SponsorSigned(SponsoredBy(t, fee, 0), next)
    PROVE  isSingleSig /\ AddsNothing(t, u)
  <1>1. isSingleSig
    BY VerifiedIsFull DEF RoundTx
  <1>2. /\ u.fields = t.fields /\ u.sig = t.sig /\ u.fee = t.fee /\ u.nonce = t.nonce
        /\ u \in [fee: Fees, nonce: {0}, fields: {u.fields}, sig: {u.sig}, sponsor: {u.sponsor}]
    BY DEF SponsoredBy, SponsorSigned, RoundTx
  <1>3. OwnersSig(1, u, signBegin) = OwnersSig(1, t, signBegin)
    BY <1>2 DEF OwnersSig
  <1>4. RoundTx(u)
    BY <1>1, <1>2, <1>3 DEF RoundTx
  <1>5. Signatures(u) = Signatures(t)
    BY <1>1, <1>2 DEF Signatures
  <1> QED BY <1>1, <1>4, <1>5 DEF AddsNothing

-----------------------------------------------------------------------------
(* The invariant is one.                                                   *)

LEMMA InitInv == Init => Inv
  BY DEF Init, Inv

LEMMA NextInv == Inv /\ [Next]_vars => Inv'
  <1> SUFFICES ASSUME Inv, [Next]_vars PROVE Inv'
    OBVIOUS
  <1> USE DEF Inv
  <1>0. ASSUME NEW u, RoundTx(u), handed' = handed \cup {u}, confirmed' = confirmed
        PROVE  Inv'
    BY <1>0
  <1>1. ASSUME NEW fee \in Fees, MakeUnsigned(fee) PROVE Inv'
    BY <1>0, <1>1, UnsignedRound DEF MakeUnsigned
  <1>2. ASSUME NEW i \in Owners, SignTurn(i) PROVE Inv'
    <2>1. PICK t, u :
            /\ t \in handed /\ Turn(t, i) /\ Constructible(t)
            /\ u = Signed(t, PubKeys[i], nextSignature(ReplayedSigHash(t), "Standard", t.fee,
                                                       t.nonce, PubKeys[i]))
            /\ handed' = handed \cup {u} /\ confirmed' = confirmed
      BY <1>2 DEF SignTurn
    <2>2. RoundTx(u)
      BY <2>1, SignTurnMakes DEF AddsSignature
    <2> QED BY <1>0, <2>1, <2>2
  <1>3. ASSUME NEW i \in Owners, AppendTurn(i) PROVE Inv'
    <2>1. PICK t, u :
            /\ t \in handed /\ Turn(t, i) /\ ~isSingleSig /\ u = WithPubkey(t, PubKeys[i])
            /\ handed' = handed \cup {u} /\ confirmed' = confirmed
      BY <1>3 DEF AppendTurn
    <2>2. RoundTx(u)
      BY <2>1, AppendTurnMakes DEF AddsNothing
    <2> QED BY <1>0, <2>1, <2>2
  <1>4. ASSUME NEW fee \in Fees, SponsorTurn(fee) PROVE Inv'
    <2>1. PICK t, next, u :
            /\ t \in handed /\ verifyOrigin(t) /\ Constructible(t)
            /\ u = SponsorSigned(SponsoredBy(t, fee, 0), next)
            /\ handed' = handed \cup {u} /\ confirmed' = confirmed
      BY <1>4 DEF SponsorTurn
    <2>2. RoundTx(u)
      BY <2>1, SponsorTurnMakes DEF AddsNothing
    <2> QED BY <1>0, <2>1, <2>2
  <1>5. CASE Broadcast
    BY <1>5 DEF Broadcast
  <1>6. CASE UNCHANGED vars
    BY <1>6 DEF vars
  <1> QED BY <1>1, <1>2, <1>3, <1>4, <1>5, <1>6 DEF Next

LEMMA Invariance == Spec => []Inv
  BY InitInv, NextInv, PTL DEF Spec

-----------------------------------------------------------------------------
(* What holds of every round.                                              *)

\* Every transaction handed on has one of the fees it was made with and fields of
\* one owner each, and the one confirmed was handed on.
THEOREM RoundsTypeCorrect == Spec => []TypeOK
  <1>1. ASSUME NEW t, RoundTx(t)
        PROVE  /\ t.fee \in Fees /\ Len(t.fields) \in 0..Len(PubKeys)
               /\ \A i \in 1..Len(t.fields) : t.fields[i].type \in {"MessageSignature", "PublicKey"}
    <2>1. Len(PubKeys) \in Nat
      BY KeysAssumption
    <2> QED BY <1>1, <2>1 DEF RoundTx, IsFields, IsField
  <1>2. Inv => TypeOK
    BY <1>1 DEF Inv, TypeOK
  <1> QED BY <1>2, Invariance, PTL

-----------------------------------------------------------------------------
(* Which rounds verify.                                                    *)

\* What the owners signed is over the hashes verifyOrigin walks to.
LEMMA WalkedVerifies ==
    ASSUME NEW t, RoundTx(t), ~isSingleSig, Complete(t), NEW h,
           h = SigHashes(t, "Standard", FieldEncodings(t)),
           \A i \in 1..Len(t.fields) : Replay(t)[i - 1] = h[i - 1]
    PROVE  verifyOrigin(t)
  <1>1. Len(t.fields) = Len(PubKeys) /\ RightNumberOfSignatures(t.fields)
    BY DEF Complete
  <1>2. ASSUME NEW i \in 1..Len(t.fields)
        PROVE  VerifiedKeys(t)[i] = PublicKey(PubKeys[i])
    <2>1. CASE t.fields[i] = PublicKeyField(PubKeys[i])
      BY <2>1 DEF VerifiedKeys, PublicKeyField
    <2>2. CASE t.fields[i] = SignatureField(PubKeys[i], OwnersSig(i, t, Replay(t)[i - 1]))
      <3>1. /\ t.fields[i].type # "PublicKey" /\ t.fields[i].enc = Encoding(PubKeys[i])
            /\ t.fields[i].contents = OwnersSig(i, t, h[i - 1])
        BY <2>2 DEF SignatureField
      <3>2. VerifiedKeys(t)[i] = nextVerification(h[i - 1], "Standard", t.fee, t.nonce,
                                    Encoding(PubKeys[i]), OwnersSig(i, t, h[i - 1])).pubKey
        BY <3>1 DEF VerifiedKeys
      <3> QED BY <3>2 DEF nextVerification, OwnersSig, PublicKey
    <2> QED BY <2>1, <2>2 DEF RoundTx, TurnsOK
  <1>3. VerifiedKeys(t) = Signer
    <2>1. VerifiedKeys(t) = [i \in 1..Len(t.fields) |-> VerifiedKeys(t)[i]]
      BY DEF VerifiedKeys
    <2> QED BY <1>1, <1>2, <2>1 DEF Signer
  <1>4. HashMode \in Segwit => \A i \in DOMAIN t.fields : t.fields[i].enc = "Compressed"
    <2>1. DOMAIN t.fields = 1..Len(PubKeys)
      BY <1>1 DEF RoundTx, IsFields
    <2>2. \A i \in 1..Len(PubKeys) : t.fields[i].enc = Encoding(PubKeys[i])
      BY <1>1 DEF RoundTx, TurnsOK, PublicKeyField, SignatureField
    <2> QED BY <2>1, <2>2, ModeAssumption DEF Encoding
  <1> QED BY <1>1, <1>3, <1>4 DEF verifyOrigin, verifyMultiSig

\* The rounds whose owners replay what verifyOrigin walks.
ReplaysAsVerified ==
    isSequentialMultiSig =>
        AuthType = "Standard" /\ \A i \in Owners : PubKeys[i] \notin Uncompressed

\* Outside the sequential modes nothing is chained, and in them the owners replay
\* the chain of a standard transaction whose keys are all compressed.
LEMMA ReplaysTheWalk ==
    ASSUME ReplaysAsVerified, NEW t, RoundTx(t), ~isSingleSig
    PROVE  \A i \in 1..Len(t.fields) :
              Replay(t)[i - 1] = SigHashes(t, "Standard", FieldEncodings(t))[i - 1]
  <1> DEFINE n == Len(t.fields)
             d == AlwaysCompressed(t)
             e == FieldEncodings(t)
             g == SigHashes(t, AuthType, d)
             h == SigHashes(t, "Standard", e)
  <1>0. n \in Nat /\ Len(PubKeys) \in Nat /\ n <= Len(PubKeys) /\ Replay(t) = g
    BY KeysAssumption DEF RoundTx, IsFields, Replay
  <1>1. IsChain(g, t, AuthType, d, n) /\ IsChain(h, t, "Standard", e, n)
    BY <1>0, SigHashesIsChain
  <1>2. CASE ~isSequentialMultiSig
    <2> HIDE DEF n, d, e, g, h
    <2>1. \A i \in 0..n : g[i] = signBegin
      BY <1>0, <1>1, <1>2, ChainStays
    <2>2. \A i \in 0..n : h[i] = signBegin
      BY <1>0, <1>1, <1>2, ChainStays
    <2>3. \A i \in 1..n : g[i - 1] = h[i - 1]
      BY <1>0, <2>1, <2>2
    <2> QED BY <1>0, <2>3 DEF n, h, e
  <1>3. CASE isSequentialMultiSig
    <2>1. AuthType = "Standard"
      BY <1>3 DEF ReplaysAsVerified
    <2>2. \A i \in 1..n : d[i] = e[i]
      <3> TAKE i \in 1..n
      <3>1. i \in Owners
        BY <1>0 DEF Owners
      <3>2. t.fields[i].enc = Encoding(PubKeys[i])
        BY DEF RoundTx, TurnsOK, PublicKeyField, SignatureField
      <3>3. t.fields[i].enc = "Compressed"
        BY <1>3, <3>1, <3>2 DEF ReplaysAsVerified, Encoding
      <3> QED BY <3>3 DEF AlwaysCompressed, FieldEncodings
    <2> HIDE DEF d, e
    <2>3. Len(t.fields) \in Nat /\ Len(t.fields) <= Len(t.fields) /\ Alike(t, t, d, e, n)
      BY <1>0, <2>2 DEF Alike
    <2>4. \A i \in 0..n : g[i] = h[i]
      <3>1. \A i \in 0..Len(t.fields) : SigHashes(t, AuthType, d)[i] = SigHashes(t, AuthType, e)[i]
        BY <2>3, PrefixReplayed
      <3> QED BY <2>1, <3>1
    <2> HIDE DEF n, g, h
    <2>5. \A i \in 1..n : g[i - 1] = h[i - 1]
      BY <1>0, <2>4
    <2> QED BY <1>0, <2>5 DEF n, h, e
  <1> QED BY <1>2, <1>3

\* A round that collects its signatures verifies if its mode is not sequential; and
\* in a sequential mode too, for a standard transaction of an address whose keys are
\* all compressed: the hash the constructor of each new TransactionSigner
\* reconstructs is then the one verifyOrigin walks to.
THEOREM StandardRoundsVerify == ReplaysAsVerified => (Spec => []CompleteRoundVerifies)
  <1> SUFFICES ASSUME ReplaysAsVerified PROVE Spec => []CompleteRoundVerifies
    OBVIOUS
  <1>1. ASSUME NEW t, RoundTx(t), Complete(t) PROVE verifyOrigin(t)
    <2>1. CASE isSingleSig
      <3>1. Signer[1] = PublicKey(PubKeys[1])
        BY KeysAssumption, ModeAssumption, <2>1 DEF Signer
      <3>2. t.sig # NoSig /\ t.sig = OwnersSig(1, t, signBegin)
        BY <1>1, <2>1 DEF RoundTx, Complete
      <3>3. nextVerification(signBegin, "Standard", t.fee, t.nonce, Signer[1].enc, t.sig).pubKey
              = Signer[1]
        BY <3>1, <3>2 DEF nextVerification, OwnersSig, PublicKey
      <3> QED BY <2>1, <3>2, <3>3 DEF verifyOrigin, verifySingleSig
    <2>2. CASE ~isSingleSig
      BY <1>1, <2>2, ReplaysTheWalk, WalkedVerifies
    <2> QED BY <2>1, <2>2
  <1>2. Inv => CompleteRoundVerifies
    BY <1>1 DEF Inv, CompleteRoundVerifies
  <1> QED BY <1>2, Invariance, PTL

\* The constructor replays with the transaction's own auth type and verifyOrigin
\* walks with the standard one: no sponsored round of a sequential mode that requires
\* two signatures verifies, whatever its owners do.
THEOREM SponsoredSequentialNeverVerifies ==
    isSequentialMultiSig /\ AuthType = "Sponsored" /\ NumSigs >= 2 =>
        (Spec => [](\A t \in handed : ~verifyOrigin(t)))
  <1> SUFFICES ASSUME isSequentialMultiSig, AuthType = "Sponsored", NumSigs >= 2
               PROVE  Spec => [](\A t \in handed : ~verifyOrigin(t))
    OBVIOUS
  <1>1. ASSUME NEW t, RoundTx(t), verifyOrigin(t) PROVE FALSE
    <2> DEFINE n == Len(t.fields)
               I == SigIndices(t.fields)
               g == Replay(t)
               h == SigHashes(t, "Standard", FieldEncodings(t))
    <2>1. /\ ~isSingleSig /\ verifyMultiSig(t) /\ NumSigned(t.fields) = NumSigs
          /\ n \in Nat /\ IsFields(t.fields) /\ NumSigs \in Nat
      BY <1>1, KeysAssumption, ModeAssumption
         DEF RoundTx, IsFields, verifyOrigin, verifyMultiSig, RightNumberOfSignatures,
             isSingleSig, isSequentialMultiSig, Sequential
    <2>2. PICK p \in I, q \in I : p < q
      <3>1. I \subseteq 1..n
        BY <2>1 DEF SigIndices, IsFields
      <3>2. \A p \in I : I # {p}
        <4>1. Cardinality(I) >= 2 /\ Cardinality(I) # 1
          BY <2>1 DEF NumSigned
        <4> HIDE DEF I
        <4> SUFFICES ASSUME NEW p \in I, I = {p} PROVE FALSE
          OBVIOUS
        <4>2. Cardinality({p}) = 1
          BY FS_Singleton
        <4> QED BY <4>1, <4>2
      <3>3. I # {}
        BY <2>1, FS_EmptySet DEF NumSigned
      <3> HIDE DEF I
      <3>4. PICK p \in I, q \in I : p # q
        BY <3>2, <3>3
      <3>5. p < q \/ q < p
        BY <2>1, <3>1, <3>4
      <3> QED BY <3>4, <3>5
    <2>3. /\ p \in 1..n /\ q \in 1..n /\ q - 1 \in p..n
          /\ t.fields[p].type = "MessageSignature" /\ t.fields[q].type = "MessageSignature"
      BY <2>1, <2>2 DEF SigIndices, IsFields
    <2>4. g[q - 1] # h[q - 1]
      <3>1. /\ IsChain(g, t, "Sponsored", AlwaysCompressed(t), n)
            /\ IsChain(h, t, "Standard", FieldEncodings(t), n)
        BY <2>1, SigHashesIsChain DEF Replay
      <3> HIDE DEF g, h, n
      <3>2. isSequentialMultiSig /\ "Sponsored" # "Standard"
        BY <2>1
      <3>3. \A k \in p..n : g[k] # h[k]
        BY <2>1, <2>3, <3>1, <3>2, ChainsDiffer
      <3> QED BY <2>3, <3>3
    <2>5. t.fields[q].contents.over.prev = h[q - 1]
      <3>1. Signer[q] = PublicKey(PubKeys[q]) /\ PubKeys[q] \in Keys
        BY <1>1, <2>2, <2>1, VerifiedFieldSigned, KeysAssumption DEF Signer
      <3>2. VerifiedKeys(t)[q] = nextVerification(h[q - 1], "Standard", t.fee, t.nonce,
                                    t.fields[q].enc, t.fields[q].contents).pubKey
        BY <2>3 DEF VerifiedKeys
      <3>3. VerifiedKeys(t)[q] = PublicKey(PubKeys[q])
        BY <2>1, <3>1 DEF verifyMultiSig
      <3> HIDE DEF h
      <3> QED BY <3>1, <3>2, <3>3, RecoveredKeySigned
    <2>6. t.fields[q].contents.over.prev = g[q - 1]
      <3>1. t.fields[q] = SignatureField(PubKeys[q], OwnersSig(q, t, g[q - 1]))
        BY <1>1, <2>1, <2>3 DEF RoundTx, TurnsOK, PublicKeyField
      <3> QED BY <3>1 DEF SignatureField, OwnersSig, sigHashPreSign
    <2> QED BY <2>4, <2>5, <2>6
  <1>2. Inv => \A t \in handed : ~verifyOrigin(t)
    BY <1>1 DEF Inv
  <1> QED BY <1>2, Invariance, PTL

\* Nor is any sponsored multi-sig round ever paid, in any mode: a transaction whose
\* origin verifies has its signatures, and the constructor of the sponsor's
\* TransactionSigner refuses it.
THEOREM SponsoredMultiSigNeverPaid ==
    ~isSingleSig /\ AuthType = "Sponsored" => (Spec => [](confirmed = Pending))
  <1> SUFFICES ASSUME ~isSingleSig, AuthType = "Sponsored"
               PROVE  Spec => [](confirmed = Pending)
    OBVIOUS
  <1>1. ASSUME NEW t, RoundTx(t) PROVE ~Accepted(t)
    <2>1. t.sponsor.key = Stranger
      BY <1>1 DEF RoundTx, NoSponsor
    <2> QED BY <2>1 DEF Accepted, SponsorVerifies
  <1>2. Inv => confirmed = Pending
    BY <1>1 DEF Inv
  <1> QED BY <1>2, Invariance, PTL

\* When a sponsor can sign what verifies, in every mode: always, if the origin is
\* single-sig, and otherwise exactly as long as no transaction verifies. So the first
\* multi-sig round that collects its signatures is one that createSponsorSigner, which
\* requires that the origin verifies and then runs the constructor, refuses.
THEOREM OnlySingleSigIsSponsorable ==
    Spec => [](VerifiedIsSponsorable <=>
                  \/ AuthType # "Sponsored" \/ isSingleSig
                  \/ \A t \in handed : ~verifyOrigin(t))
  <1>1. ASSUME Inv, ~isSingleSig PROVE \A t \in handed : verifyOrigin(t) => ~Constructible(t)
    <2> SUFFICES ASSUME NEW t \in handed, verifyOrigin(t) PROVE ~Constructible(t)
      OBVIOUS
    <2>1. IsFields(t.fields)
      BY <1>1 DEF Inv, RoundTx
    <2> QED BY <1>1, <2>1, VerifiedIsFull
  <1>2. isSingleSig => \A t \in handed : Constructible(t)
    BY DEF Constructible
  <1>3. Inv => (VerifiedIsSponsorable <=>
                   \/ AuthType # "Sponsored" \/ isSingleSig
                   \/ \A t \in handed : ~verifyOrigin(t))
    BY <1>1, <1>2 DEF VerifiedIsSponsorable
  <1> QED BY <1>3, Invariance, PTL

-----------------------------------------------------------------------------
(* The refinement.                                                         *)

\* A transaction handed on brings its signatures as approvals.
LEMMA HandedApproves ==
    ASSUME NEW u, handed' = handed \cup {u}
    PROVE  Approvals' = Approvals \cup {<<g.by, g.over.fee>> : g \in Signatures(u)}
  <1>1. \A x : x \in Approvals <=> \E t \in handed : \E g \in Signatures(t) : x = <<g.by, g.over.fee>>
    BY DEF Approvals
  <1>2. \A x : x \in Approvals' <=>
             \E t \in handed \cup {u} : \E g \in Signatures(t) : x = <<g.by, g.over.fee>>
    BY DEF Approvals
  <1>3. \A x : x \in Approvals' <=>
             x \in Approvals \/ \E g \in Signatures(u) : x = <<g.by, g.over.fee>>
    BY ONLY <1>1, <1>2
  <1> QED BY ONLY <1>3

\* Those of a copy are there already.
LEMMA CopyApproves ==
    ASSUME NEW t \in handed
    PROVE  {<<g.by, g.over.fee>> : g \in Signatures(t)} \subseteq Approvals
  BY DEF Approvals

\* A transaction that verifies has the approval of a quorum.
LEMMA VerifiedIsApproved ==
    ASSUME NEW t \in handed, RoundTx(t), verifyOrigin(t)
    PROVE  Cardinality({m \in Members : <<m, t.fee>> \in Approvals}) >= NumSigs
  <1> DEFINE M == {m \in Members : <<m, t.fee>> \in Approvals}
             C == Consenting(t)
  <1>1. C \subseteq M
    <2>1. ASSUME NEW k \in C PROVE k \in M
      <3>1. PICK g \in Signatures(t) : g.by = k /\ g.over.fee = t.fee
        BY DEF Consenting
      <3>2. <<k, t.fee>> \in Approvals
        BY <3>1, CopyApproves
      <3>3. k \in Members
        BY DEF Consenting, Members, Owners
      <3> QED BY <3>2, <3>3
    <2> QED BY <2>1
  <1>2. IsFiniteSet(M)
    <2> DEFINE p == [i \in Owners |-> PubKeys[i]]
    <2>1. p \in Surjection(Owners, Members)
      BY DEF Surjection, Members
    <2>2. IsFiniteSet(Owners)
      BY KeysAssumption, FS_Interval DEF Owners
    <2>3. IsFiniteSet(Members)
      <3> HIDE DEF p
      <3> QED BY <2>1, <2>2, FS_Surjection
    <2> QED BY <2>3, FS_Subset
  <1>3. Cardinality(C) <= Cardinality(M) /\ Cardinality(C) \in Nat /\ Cardinality(M) \in Nat
    <2> HIDE DEF C, M
    <2>1. IsFiniteSet(C)
      BY <1>1, <1>2, FS_Subset
    <2> QED BY <1>1, <1>2, <2>1, FS_Subset, FS_CardinalityType
  <1>4. Cardinality(C) >= NumSigs
    BY VerifiedHasQuorum DEF RoundTx
  <1>5. NumSigs \in Nat
    BY KeysAssumption, ModeAssumption
  <1> HIDE DEF C, M
  <1>6. Cardinality(M) >= NumSigs
    BY <1>3, <1>4, <1>5
  <1> QED BY <1>6 DEF M

Paid == IF confirmed = Pending THEN Pending ELSE confirmed.fee

\* A transaction handed on with one owner's signature more is that owner's approval,
\* or one that was given before.
LEMMA SignatureApproves ==
    ASSUME NEW t \in handed, t.fee \in Fees, NEW i \in Owners, NEW u, AddsSignature(t, u, i),
           handed' = handed \cup {u}, confirmed' = confirmed
    PROVE  [Approved!Next]_<<Approvals, Paid>>
  <1>1. Paid' = Paid
    BY DEF Paid
  <1>2. PICK g : /\ g.by = PubKeys[i] /\ g.over.fee = t.fee
                 /\ Signatures(u) \subseteq Signatures(t) \cup {g}
    BY DEF AddsSignature
  <1> DEFINE a == <<PubKeys[i], t.fee>>
  <1>3. Approvals' = Approvals \cup {<<s.by, s.over.fee>> : s \in Signatures(u)}
    BY HandedApproves
  <1>4. {<<s.by, s.over.fee>> : s \in Signatures(u)} \subseteq Approvals \cup {a}
    <2>1. ASSUME NEW s \in Signatures(u) PROVE <<s.by, s.over.fee>> \in Approvals \cup {a}
      <3>1. CASE s \in Signatures(t)
        BY <3>1, CopyApproves
      <3>2. CASE s = g
        BY <1>2, <3>2
      <3> QED BY <1>2, <3>1, <3>2
    <2> QED BY <2>1
  <1>5. Approvals' = Approvals \/ Approvals' = Approvals \cup {a}
    <2> HIDE DEF a
    <2> QED BY <1>3, <1>4
  <1>6. CASE Approvals' = Approvals
    BY <1>1, <1>6
  <1>7. CASE Approvals' = Approvals \cup {a}
    <2>1. PubKeys[i] \in Members
      BY DEF Members
    <2>2. Approved!Approve(PubKeys[i], t.fee)
      BY <1>1, <1>7 DEF Approved!Approve, Paid
    <2> QED BY <2>1, <2>2 DEF Approved!Next
  <1> QED BY <1>5, <1>6, <1>7

\* One with the signatures it had is no approval.
LEMMA NothingApproves ==
    ASSUME NEW u, {<<s.by, s.over.fee>> : s \in Signatures(u)} \subseteq Approvals,
           handed' = handed \cup {u}, confirmed' = confirmed
    PROVE  UNCHANGED <<Approvals, Paid>>
  <1>1. Approvals' = Approvals
    BY HandedApproves
  <1> QED BY <1>1 DEF Paid

\* Approval counts with the library's Cardinality.
LEMMA SameCardinality == \A S : Approved!Cardinality(S) = Cardinality(S)
  BY DEF Cardinality, Approved!Cardinality

\* What the owners of an address do with a transaction is Approval: a round in which
\* copies are lost, taken up twice or overtaken by one at another fee never has a
\* payment confirmed at a fee that a quorum has not signed.
THEOREM RoundsImplementApproval == Spec => QuorumApproves
  <1>1. Init => Approved!Init
    <2>1. Init => Approvals = {}
      BY DEF Init, Approvals
    <2> QED BY <2>1 DEF Init, Approved!Init
  <1>2. Inv /\ [Next]_vars => [Approved!Next]_<<Approvals, Paid>>
    <2> SUFFICES ASSUME Inv, [Next]_vars PROVE [Approved!Next]_<<Approvals, Paid>>
      OBVIOUS
    <2>0. \A t \in handed : RoundTx(t) /\ t.fee \in Fees
      BY DEF Inv, RoundTx
    <2>1. ASSUME NEW fee \in Fees, MakeUnsigned(fee) PROVE UNCHANGED <<Approvals, Paid>>
      <3>1. {<<s.by, s.over.fee>> : s \in Signatures([UnsignedTx EXCEPT !.fee = fee])} = {}
        BY UnsignedRound
      <3> QED BY <2>1, <3>1, NothingApproves DEF MakeUnsigned
    <2>2. ASSUME NEW i \in Owners, SignTurn(i) PROVE [Approved!Next]_<<Approvals, Paid>>
      <3>1. PICK t, u :
              /\ t \in handed /\ Turn(t, i) /\ Constructible(t)
              /\ u = Signed(t, PubKeys[i], nextSignature(ReplayedSigHash(t), "Standard", t.fee,
                                                         t.nonce, PubKeys[i]))
              /\ handed' = handed \cup {u} /\ confirmed' = confirmed
        BY <2>2 DEF SignTurn
      <3>2. AddsSignature(t, u, i)
        BY <2>0, <3>1, SignTurnMakes
      <3> QED BY <2>0, <3>1, <3>2, SignatureApproves
    <2>3. ASSUME NEW i \in Owners, AppendTurn(i) PROVE UNCHANGED <<Approvals, Paid>>
      <3>1. PICK t, u :
              /\ t \in handed /\ Turn(t, i) /\ ~isSingleSig /\ u = WithPubkey(t, PubKeys[i])
              /\ handed' = handed \cup {u} /\ confirmed' = confirmed
        BY <2>3 DEF AppendTurn
      <3>2. Signatures(u) = Signatures(t)
        BY <2>0, <3>1, AppendTurnMakes DEF AddsNothing
      <3> QED BY <3>1, <3>2, CopyApproves, NothingApproves
    <2>4. ASSUME NEW fee \in Fees, SponsorTurn(fee) PROVE UNCHANGED <<Approvals, Paid>>
      <3>1. PICK t, next, u :
              /\ t \in handed /\ verifyOrigin(t) /\ Constructible(t)
              /\ u = SponsorSigned(SponsoredBy(t, fee, 0), next)
              /\ handed' = handed \cup {u} /\ confirmed' = confirmed
        BY <2>4 DEF SponsorTurn
      <3>2. Signatures(u) = Signatures(t)
        <4>1. RoundTx(t)
          BY <2>0, <3>1
        <4> QED BY <3>1, <4>1, SponsorTurnMakes DEF AddsNothing
      <3> QED BY <3>1, <3>2, CopyApproves, NothingApproves
    <2>5. CASE Broadcast
      <3>1. PICK t \in handed : confirmed = Pending /\ verifyOrigin(t) /\ confirmed' = t
        BY <2>5 DEF Broadcast, Accepted
      <3>2. handed' = handed /\ Approvals' = Approvals
        BY <2>5 DEF Broadcast, Approvals
      <3>3. CASE t = Pending
        BY <3>1, <3>2, <3>3 DEF Paid
      <3>4. CASE t # Pending
        <4>1. Approved!Pay(t.fee)
          <5>1. Cardinality({m \in Members : <<m, t.fee>> \in Approvals}) >= NumSigs
            BY <2>0, <3>1, VerifiedIsApproved
          <5>2. Approved!Cardinality({m \in Members : <<m, t.fee>> \in Approvals}) >= NumSigs
            BY <5>1, SameCardinality
          <5> QED BY <3>1, <3>2, <3>4, <5>2 DEF Approved!Pay
        <4> QED BY <2>0, <4>1 DEF Approved!Next
      <3> QED BY <3>3, <3>4
    <2>6. CASE UNCHANGED vars
      BY <2>6 DEF vars, Approvals, Paid
    <2> QED BY <2>1, <2>2, <2>3, <2>4, <2>5, <2>6 DEF Next
  <1>3. Init /\ []Inv /\ [][Next]_vars => Approved!Init /\ [][Approved!Next]_<<Approvals, Paid>>
    BY <1>1, <1>2, PTL
  <1> QED BY <1>3, Invariance, PTL DEF Spec, QuorumApproves, Approved!Spec, Paid
=============================================================================
