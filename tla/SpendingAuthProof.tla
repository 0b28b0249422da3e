-------------------------- MODULE SpendingAuthProof --------------------------
(***************************************************************************)
(* Lemmas about the operators of SpendingAuth, for every address: what it  *)
(* means that a transaction verifies, and what the chain of hashes is.     *)
(***************************************************************************)
EXTENDS SpendingAuth, TLAPS, FiniteSetTheorems, WellFoundedInduction

-----------------------------------------------------------------------------
(* Sequences of auth fields.                                               *)

\* Appending a field keeps a sequence of fields one.
LEMMA AppendField ==
    ASSUME NEW s, IsFields(s), NEW f, IsField(f)
    PROVE  /\ IsFields(Append(s, f))
           /\ Len(Append(s, f)) = Len(s) + 1
           /\ \A i \in 1..Len(s) : Append(s, f)[i] = s[i]
           /\ Append(s, f)[Len(s) + 1] = f
  <1> DEFINE S == {s[i] : i \in 1..Len(s)} \cup {f}
             a == Append(s, f)
  <1>1. s \in Seq(S)
    <2>1. s \in [1..Len(s) -> S] /\ Len(s) \in Nat
      BY DEF IsFields
    <2> QED BY <2>1
  <1>2. /\ a \in Seq(S) /\ Len(a) = Len(s) + 1
        /\ \A i \in 1..Len(s) : a[i] = s[i]
        /\ a[Len(s) + 1] = f
    <2> HIDE DEF S
    <2> QED BY <1>1, f \in S DEF S
  <1> HIDE DEF a
  <1>3. a \in [1..Len(a) -> {a[i] : i \in 1..Len(a)}]
    <2>1. a \in [1..Len(a) -> S]
      BY <1>2
    <2> QED BY <2>1
  <1>4. \A i \in 1..Len(a) : IsField(a[i])
    <2> TAKE i \in 1..Len(a)
    <2>1. i \in 1..Len(s) \/ i = Len(s) + 1
      BY <1>2 DEF IsFields
    <2>2. CASE i \in 1..Len(s)
      BY <1>2, <2>2 DEF IsFields
    <2>3. CASE i = Len(s) + 1
      BY <1>2, <2>3
    <2> QED BY <2>1, <2>2, <2>3
  <1>5. IsFields(a)
    BY <1>2, <1>3, <1>4 DEF IsFields
  <1> QED BY <1>2, <1>5 DEF a

\* A signature field counts, a public key does not.
LEMMA AppendCounts ==
    ASSUME NEW s, IsFields(s), NEW f, IsField(f)
    PROVE  /\ NumSigned(s) \in Nat
           /\ f.type = "MessageSignature" => NumSigned(Append(s, f)) = NumSigned(s) + 1
           /\ f.type = "PublicKey" => NumSigned(Append(s, f)) = NumSigned(s)
  <1> DEFINE a == Append(s, f)
  <1>1. DOMAIN s = 1..Len(s) /\ DOMAIN a = 1..(Len(s) + 1) /\ Len(s) \in Nat
    BY AppendField DEF IsFields
  <1>2. IsFiniteSet(SigIndices(s))
    <2>1. IsFiniteSet(1..Len(s))
      BY <1>1, FS_Interval
    <2> QED BY <1>1, <2>1, FS_Subset DEF SigIndices
  <1>3. NumSigned(s) \in Nat
    BY <1>2, FS_CardinalityType DEF NumSigned
  <1>4. CASE f.type = "MessageSignature"
    <2>1. SigIndices(a) = SigIndices(s) \cup {Len(s) + 1}
      BY <1>1, <1>4, AppendField DEF SigIndices
    <2>2. Len(s) + 1 \notin SigIndices(s)
      BY <1>1 DEF SigIndices
    <2> QED BY <1>2, <1>3, <1>4, <2>1, <2>2, FS_AddElement DEF NumSigned
  <1>5. CASE f.type = "PublicKey"
    <2>1. SigIndices(a) = SigIndices(s)
      BY <1>1, <1>5, AppendField DEF SigIndices
    <2> QED BY <1>3, <1>5, <2>1 DEF NumSigned
  <1> QED BY <1>4, <1>5 DEF IsField

\* The signatures among the fields.
SignaturesIn(s) == {s[i].contents : i \in SigIndices(s)}

\* A signature field adds its signature, a public key none.
LEMMA AppendSigns ==
    ASSUME NEW s, IsFields(s), NEW f, IsField(f)
    PROVE  /\ f.type = "MessageSignature" =>
                 SignaturesIn(Append(s, f)) = SignaturesIn(s) \cup {f.contents}
           /\ f.type = "PublicKey" => SignaturesIn(Append(s, f)) = SignaturesIn(s)
  <1> DEFINE a == Append(s, f)
             n == Len(s) + 1
  <1>1. /\ DOMAIN s = 1..Len(s) /\ DOMAIN a = 1..n /\ Len(s) \in Nat
        /\ a[n] = f /\ \A i \in 1..Len(s) : a[i] = s[i]
    BY AppendField DEF IsFields
  <1> HIDE DEF a
  <1>2. \A i \in SigIndices(s) : a[i] = s[i]
    BY <1>1 DEF SigIndices
  <1>3. CASE f.type = "MessageSignature"
    <2>1. SigIndices(a) = SigIndices(s) \cup {n}
      BY <1>1, <1>3 DEF SigIndices
    <2> HIDE DEF n
    <2>2. SignaturesIn(a) = SignaturesIn(s) \cup {f.contents}
      BY <1>1, <1>2, <2>1 DEF SignaturesIn
    <2> QED BY <1>3, <2>2 DEF a
  <1>4. CASE f.type = "PublicKey"
    <2>1. SigIndices(a) = SigIndices(s)
      BY <1>1, <1>4 DEF SigIndices
    <2>2. SignaturesIn(a) = SignaturesIn(s)
      BY <1>2, <2>1 DEF SignaturesIn
    <2> QED BY <1>4, <2>2 DEF a
  <1> QED BY <1>3, <1>4 DEF IsField

\* A signature field is an auth field.
LEMMA SignatureIsField ==
    ASSUME NEW k \in Keys, NEW sig, sig.by = k
    PROVE  IsField(SignatureField(k, sig)) /\ SignatureField(k, sig).type = "MessageSignature"
  BY DEF IsField, SignatureField, Encoding

\* So is a public key.
LEMMA PublicKeyIsField ==
    ASSUME NEW k \in Keys
    PROVE  IsField(PublicKeyField(k)) /\ PublicKeyField(k).type = "PublicKey"
  BY DEF IsField, PublicKeyField, Encoding

-----------------------------------------------------------------------------
(* What verification implies, of any transaction of the right shape.       *)

\* A recovered key that is one of the address's made the signature, over the
\* fee and the nonce of the transaction.
LEMMA RecoveredKeySigned ==
    ASSUME NEW cur, NEW auth, NEW fee, NEW nonce, NEW enc, NEW sig, NEW k \in Keys,
           nextVerification(cur, auth, fee, nonce, enc, sig).pubKey = PublicKey(k)
    PROVE  /\ sig.by = k /\ sig.over.prev = cur
           /\ sig.over.fee = fee /\ sig.over.nonce = nonce
  BY KeysAssumption DEF nextVerification, sigHashPreSign, PublicKey

\* So a signature field of a transaction that verifies is its owner's.
LEMMA VerifiedFieldSigned ==
    ASSUME NEW t, IsFields(t.fields), verifyMultiSig(t), NEW i \in SigIndices(t.fields)
    PROVE  /\ i \in 1..Len(PubKeys)
           /\ t.fields[i].contents.by = PubKeys[i]
           /\ t.fields[i].contents.over.fee = t.fee
           /\ t.fields[i].contents.over.nonce = t.nonce
  <1> DEFINE h == SigHashes(t, "Standard", FieldEncodings(t))
             sig == t.fields[i].contents
  <1>1. DOMAIN t.fields = 1..Len(t.fields) /\ i \in 1..Len(t.fields)
    BY DEF IsFields, SigIndices
  <1>2. VerifiedKeys(t) = Signer /\ DOMAIN VerifiedKeys(t) = 1..Len(t.fields)
    BY DEF verifyMultiSig, VerifiedKeys
  <1>3. DOMAIN Signer = 1..Len(PubKeys)
    BY DEF Signer
  <1>4. i \in 1..Len(PubKeys)
    BY <1>1, <1>2, <1>3
  <1>5. PubKeys[i] \in Keys
    BY <1>4, KeysAssumption
  <1>6. Signer[i] = PublicKey(PubKeys[i])
    BY <1>4 DEF Signer
  <1>7. VerifiedKeys(t)[i] =
          nextVerification(h[i - 1], "Standard", t.fee, t.nonce, t.fields[i].enc, sig).pubKey
    <2>1. t.fields[i].type # "PublicKey"
      BY DEF SigIndices
    <2> QED BY <1>1, <2>1 DEF VerifiedKeys
  <1> HIDE DEF h
  <1>8. nextVerification(h[i - 1], "Standard", t.fee, t.nonce, t.fields[i].enc, sig).pubKey
          = PublicKey(PubKeys[i])
    BY <1>2, <1>6, <1>7
  <1> QED BY <1>4, <1>5, <1>8, RecoveredKeySigned

\* There are as many of them as the address requires.
LEMMA VerifiedHasQuorum ==
    ASSUME NEW t, IsFields(t.fields), verifyOrigin(t)
    PROVE  Cardinality(Consenting(t)) >= NumSigs
  <1> DEFINE C == Consenting(t)
  <1>0. IsFiniteSet(1..Len(PubKeys)) /\ Len(PubKeys) \in Nat
    BY KeysAssumption, FS_Interval
  <1>1. IsFiniteSet(C)
    <2> DEFINE P == {PubKeys[i] : i \in 1..Len(PubKeys)}
               g == [i \in 1..Len(PubKeys) |-> PubKeys[i]]
    <2>1. g \in Surjection(1..Len(PubKeys), P)
      BY DEF Surjection
    <2>2. IsFiniteSet(P)
      <3> HIDE DEF g, P
      <3> QED BY <1>0, <2>1, FS_Surjection
    <2> QED BY <2>2, FS_Subset DEF Consenting
  <1>2. NumSigs \in Nat
    BY <1>0, ModeAssumption
  <1>3. CASE isSingleSig
    <2>1. NumSigs = 1 /\ 1 \in 1..Len(PubKeys)
      <3>1. Len(PubKeys) = 1 /\ NumSigs \in 1..Len(PubKeys)
        BY <1>3, ModeAssumption
      <3> QED BY <3>1
    <2>2. Signer[1] = PublicKey(PubKeys[1]) /\ PubKeys[1] \in Keys
      BY <2>1, KeysAssumption DEF Signer
    <2>3. /\ t.sig # NoSig
          /\ t.sig.by = PubKeys[1] /\ t.sig.over.fee = t.fee /\ t.sig.over.nonce = t.nonce
      BY <1>3, <2>2, RecoveredKeySigned DEF verifyOrigin, verifySingleSig
    <2>4. t.sig \in Signatures(t)
      BY <1>3, <2>3 DEF Signatures
    <2>5. PubKeys[1] \in C
      BY <2>1, <2>3, <2>4 DEF Consenting
    <2>6. Cardinality({PubKeys[1]}) = 1 /\ {PubKeys[1]} \subseteq C
      BY <2>5, FS_Singleton
    <2> QED BY <1>1, <2>1, <2>6, FS_Subset, FS_CardinalityType
  <1>4. CASE ~isSingleSig
    <2> DEFINE I == SigIndices(t.fields)
               f == [i \in I |-> PubKeys[i]]
    <2>1. verifyMultiSig(t) /\ IsFields(t.fields)
      BY <1>4 DEF verifyOrigin
    <2>2. I \subseteq 1..Len(PubKeys)
      BY <2>1, VerifiedFieldSigned
    <2>3. IsFiniteSet(I) /\ Cardinality(I) \in Nat
      BY <1>0, <2>2, FS_Subset, FS_CardinalityType
    <2>4. NumSigs <= Cardinality(I)
      BY <1>2, <1>4, <2>1, <2>3, ModeAssumption
         DEF verifyMultiSig, RightNumberOfSignatures, NumSigned, isSingleSig,
             isSequentialMultiSig, isNonSequentialMultiSig
    <2>5. \A i \in I : PubKeys[i] \in C
      <3> TAKE i \in I
      <3>1. t.fields[i].contents \in Signatures(t)
        BY <1>4 DEF Signatures
      <3> QED BY <2>1, <3>1, VerifiedFieldSigned DEF Consenting
    <2>6. f \in Injection(I, C)
      <3>1. f \in [I -> C]
        BY <2>5
      <3>2. \A i, j \in I : f[i] = f[j] => i = j
        BY <2>2, KeysAssumption
      <3> QED BY <3>1, <3>2 DEF Injection, IsInjective
    <2>7. Cardinality(I) <= Cardinality(C)
      <3> HIDE DEF f, I, C
      <3> QED BY <1>1, <2>3, <2>6, FS_Injection
    <2> QED BY <1>1, <1>2, <2>3, <2>4, <2>7, FS_CardinalityType
  <1> QED BY <1>3, <1>4

-----------------------------------------------------------------------------
(* The chain of hashes.                                                    *)

\* Induction, over a set of numbers instead of a predicate.
LEMMA SetInduction ==
    ASSUME NEW S, 0 \in S, \A n \in Nat : n \in S => n + 1 \in S
    PROVE  Nat \subseteq S
  <1> DEFINE T == Nat \ S
             R == OpToRel(<, Nat)
  <1> SUFFICES ASSUME T # {} PROVE FALSE
    OBVIOUS
  <1>1. IsWellFoundedOn(R, Nat)
    BY NatLessThanWellFounded
  <1>2. PICK x \in T : \A y \in T : <<y, x>> \notin R
    <2> HIDE DEF R
    <2> QED BY <1>1, WFMin
  <1>3. \A y \in T : ~(y < x)
    BY <1>2 DEF OpToRel
  <1> HIDE DEF R
  <1>4. x \in Nat /\ x \notin S /\ x # 0 /\ x - 1 \in Nat
    OBVIOUS
  <1>5. x - 1 \in S
    BY <1>3, <1>4
  <1> QED BY <1>4, <1>5

\* What one field does to the hash.
Link(tx, auth, encs, i, prev) ==
    IF tx.fields[i].type = "MessageSignature" /\ isSequentialMultiSig
    THEN nextVerification(prev, auth, tx.fee, tx.nonce, encs[i], tx.fields[i].contents).sigHash
    ELSE prev

IsChain(h, tx, auth, encs, n) ==
    h = [i \in 0..n |-> IF i = 0 THEN signBegin ELSE Link(tx, auth, encs, i, h[i - 1])]

\* There is a chain of any length.
LEMMA ChainExists ==
    ASSUME NEW tx, NEW auth, NEW encs
    PROVE  \A n \in Nat : \E h : IsChain(h, tx, auth, encs, n)
  <1> DEFINE S == {n \in Nat : \E h : IsChain(h, tx, auth, encs, n)}
  <1>1. 0 \in S
    <2>1. IsChain([i \in 0..0 |-> signBegin], tx, auth, encs, 0)
      BY DEF IsChain
    <2> QED BY <2>1
  <1>2. ASSUME NEW n \in Nat, n \in S PROVE n + 1 \in S
    <2>1. PICK h : IsChain(h, tx, auth, encs, n)
      BY <1>2
    <2> DEFINE g == [i \in 0..n + 1 |->
                        IF i = 0 THEN signBegin ELSE Link(tx, auth, encs, i, h[i - 1])]
    <2>2. \A i \in 0..n : g[i] = h[i]
      BY <2>1 DEF IsChain
    <2>3. \A i \in 0..n + 1 : i # 0 => i - 1 \in 0..n
      OBVIOUS
    <2>4. IsChain(g, tx, auth, encs, n + 1)
      BY <2>2, <2>3, Zenon DEF IsChain
    <2> QED BY <2>4
  <1> HIDE DEF S
  <1>3. Nat \subseteq S
    BY <1>1, <1>2, SetInduction
  <1> QED BY <1>3 DEF S

\* SigHashes is the chain over the fields.
LEMMA SigHashesIsChain ==
    ASSUME NEW tx, Len(tx.fields) \in Nat, NEW auth, NEW encs
    PROVE  IsChain(SigHashes(tx, auth, encs), tx, auth, encs, Len(tx.fields))
  <1>1. \E h : IsChain(h, tx, auth, encs, Len(tx.fields))
    BY ChainExists
  <1> QED BY <1>1, Zenon DEF SigHashes, IsChain, Link

\* What a chain is at its start and at each field.
LEMMA ChainLinks ==
    ASSUME NEW h, NEW tx, NEW auth, NEW encs, NEW n \in Nat, IsChain(h, tx, auth, encs, n)
    PROVE  /\ h[0] = signBegin
           /\ \A i \in 1..n : h[i] = Link(tx, auth, encs, i, h[i - 1])
  BY DEF IsChain

\* Two transactions of one fee and nonce whose first n fields, and the encodings they
\* are read with, are the same.
Alike(t, u, d, e, n) ==
    /\ t.fee = u.fee /\ t.nonce = u.nonce
    /\ \A i \in 1..n : t.fields[i] = u.fields[i] /\ d[i] = e[i]

\* Two chains agree as far as the fields do.
LEMMA ChainsAgree ==
    ASSUME NEW t, NEW u, NEW auth, NEW d, NEW e, NEW g, NEW h, NEW n \in Nat, NEW m \in Nat,
           IsChain(g, t, auth, d, n), IsChain(h, u, auth, e, m), n <= m, Alike(t, u, d, e, n)
    PROVE  \A i \in 0..n : g[i] = h[i]
  <1> DEFINE S == {i \in Nat : i <= n => g[i] = h[i]}
  <1>1. 0 \in S
    BY ChainLinks
  <1>2. ASSUME NEW i \in Nat, i \in S PROVE i + 1 \in S
    <2>1. CASE i + 1 <= n
      <3>1. g[i] = h[i] /\ i + 1 \in 1..n /\ i + 1 \in 1..m
        BY <1>2, <2>1
      <3>2. /\ g[i + 1] = Link(t, auth, d, i + 1, g[i])
            /\ h[i + 1] = Link(u, auth, e, i + 1, h[i])
        <4>1. (i + 1) - 1 = i
          OBVIOUS
        <4>2. g[i + 1] = Link(t, auth, d, i + 1, g[(i + 1) - 1])
          BY <3>1, ChainLinks
        <4>3. h[i + 1] = Link(u, auth, e, i + 1, h[(i + 1) - 1])
          BY <3>1, ChainLinks
        <4> QED BY <4>1, <4>2, <4>3
      <3>3. Link(t, auth, d, i + 1, g[i]) = Link(u, auth, e, i + 1, g[i])
        BY <3>1 DEF Link, Alike
      <3> QED BY <3>1, <3>2, <3>3
    <2> QED BY <2>1
  <1> HIDE DEF S
  <1>3. Nat \subseteq S
    BY <1>1, <1>2, SetInduction
  <1> QED BY <1>3 DEF S

\* So what was replayed stays what it was when fields are appended.
LEMMA PrefixReplayed ==
    ASSUME NEW t, NEW u, Len(t.fields) \in Nat, Len(u.fields) \in Nat,
           Len(t.fields) <= Len(u.fields), NEW auth, NEW d, NEW e,
           Alike(t, u, d, e, Len(t.fields))
    PROVE  \A i \in 0..Len(t.fields) : SigHashes(t, auth, d)[i] = SigHashes(u, auth, e)[i]
  <1> DEFINE n == Len(t.fields)
             m == Len(u.fields)
             g == SigHashes(t, auth, d)
             h == SigHashes(u, auth, e)
  <1>1. IsChain(g, t, auth, d, n) /\ IsChain(h, u, auth, e, m)
    BY SigHashesIsChain
  <1> HIDE DEF n, m, g, h
  <1>2. n \in Nat /\ m \in Nat /\ n <= m
    BY DEF n, m
  <1>3. Alike(t, u, d, e, n)
    BY DEF n
  <1>4. \A i \in 0..n : g[i] = h[i]
    BY <1>1, <1>2, <1>3, ChainsAgree
  <1> QED BY <1>4 DEF n, g, h

\* In the modes that are not sequential a chain never moves.
LEMMA ChainStays ==
    ASSUME NEW t, NEW auth, NEW encs, NEW h, NEW n \in Nat, IsChain(h, t, auth, encs, n),
           ~isSequentialMultiSig
    PROVE  \A i \in 0..n : h[i] = signBegin
  <1> DEFINE S == {i \in Nat : i <= n => h[i] = signBegin}
  <1>1. 0 \in S
    BY ChainLinks
  <1>2. ASSUME NEW i \in Nat, i \in S PROVE i + 1 \in S
    <2>1. CASE i + 1 <= n
      <3>1. h[i] = signBegin /\ i + 1 \in 1..n /\ (i + 1) - 1 = i
        BY <1>2, <2>1
      <3>2. h[i + 1] = Link(t, auth, encs, i + 1, h[i])
        BY <3>1, ChainLinks
      <3> QED BY <3>1, <3>2 DEF Link
    <2> QED BY <2>1
  <1> HIDE DEF S
  <1>3. Nat \subseteq S
    BY <1>1, <1>2, SetInduction
  <1> QED BY <1>3 DEF S

\* In the sequential modes, chains of different auth types differ from the first
\* signature on.
LEMMA ChainsDiffer ==
    ASSUME NEW t, NEW a, NEW b, a # b, NEW d, NEW e, NEW g, NEW h, NEW n \in Nat,
           IsChain(g, t, a, d, n), IsChain(h, t, b, e, n), isSequentialMultiSig,
           NEW p \in 1..n, t.fields[p].type = "MessageSignature"
    PROVE  \A i \in p..n : g[i] # h[i]
  <1> DEFINE S == {i \in Nat : p <= i /\ i <= n => g[i] # h[i]}
  <1>1. ASSUME NEW i \in 1..n, t.fields[i].type = "MessageSignature" PROVE g[i] # h[i]
    <2>1. g[i].pre.auth = a /\ h[i].pre.auth = b
      <3>1. /\ g[i] = Link(t, a, d, i, g[i - 1])
            /\ h[i] = Link(t, b, e, i, h[i - 1])
        BY ChainLinks
      <3> QED BY <1>1, <3>1 DEF Link, nextVerification, sigHashPostSign, sigHashPreSign
    <2> QED BY <2>1
  <1>2. 0 \in S
    OBVIOUS
  <1>3. ASSUME NEW i \in Nat, i \in S PROVE i + 1 \in S
    <2>1. CASE p <= i + 1 /\ i + 1 <= n /\ t.fields[i + 1].type = "MessageSignature"
      BY <1>1, <2>1
    <2>2. CASE p <= i + 1 /\ i + 1 <= n /\ t.fields[i + 1].type # "MessageSignature"
      <3>1. p <= i /\ i <= n /\ i + 1 \in 1..n /\ (i + 1) - 1 = i
        <4>1. i + 1 # p
          BY <2>2
        <4> QED BY <2>2, <4>1
      <3>2. /\ g[i + 1] = Link(t, a, d, i + 1, g[i])
            /\ h[i + 1] = Link(t, b, e, i + 1, h[i])
        BY <3>1, ChainLinks
      <3>3. g[i + 1] = g[i] /\ h[i + 1] = h[i]
        BY <2>2, <3>2 DEF Link
      <3> QED BY <1>3, <3>1, <3>3
    <2> QED BY <2>1, <2>2
  <1> HIDE DEF S
  <1>4. Nat \subseteq S
    BY <1>2, <1>3, SetInduction
  <1> QED BY <1>4 DEF S
=============================================================================
