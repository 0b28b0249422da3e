------------------------------ MODULE CosignRound ------------------------------
(***************************************************************************)
(* How the README of packages/transactions has cosigners use the library:  *)
(* an unsigned transaction is serialized and handed from one owner of the  *)
(* address to the next; each deserializes it, makes a TransactionSigner of *)
(* its own, signs or adds its public key, and hands it on; whoever has the *)
(* complete transaction gives it to a sponsor, if it is sponsored, and     *)
(* broadcasts it.                                                          *)
(*                                                                         *)
(* A serialized transaction stays around: it can be lost (nobody takes it  *)
(* up), taken up twice, or overtaken by one made later at another fee.     *)
(***************************************************************************)
EXTENDS SpendingAuth

CONSTANTS
    Willing,    \* owners who sign in the end, whatever they decline before
    Reluctant,  \* owners who may decline to sign
    Fees,       \* fees the transaction is made with
    Pending     \* no transaction has been confirmed

ASSUME RoundAssumption ==
    /\ Willing \subseteq Keys /\ Reluctant \subseteq Keys
    /\ Fees \subseteq Nat /\ Pending \notin Fees

VARIABLES
    handed,    \* the serialized transactions that were handed on
    confirmed  \* the transaction a node accepted, or Pending

vars == <<handed, confirmed>>

Owners == 1..Len(PubKeys)

Init == handed = {} /\ confirmed = Pending

\* makeUnsigned...: with the fee in the origin's condition.
MakeUnsigned(fee) ==
    /\ handed' = handed \cup {[UnsignedTx EXCEPT !.fee = fee]}
    /\ UNCHANGED confirmed

-----------------------------------------------------------------------------
(* The i-th owner's turn.                                                  *)

Turn(t, i) == Len(t.fields) = i - 1 /\ t.sponsor = NoSponsor

\* new TransactionSigner(deserialized), then signOrigin with the owner's key.
SignTurn(i) ==
    \E t \in handed :
        /\ Turn(t, i)
        /\ Constructible(t)
        /\ LET next == nextSignature(ReplayedSigHash(t), "Standard", t.fee, t.nonce, PubKeys[i])
           IN  handed' = handed \cup {Signed(t, PubKeys[i], next)}
        /\ UNCHANGED confirmed

\* The owner's key goes in without a signature: the owner declines this copy, or
\* its signatures are complete and no signer can be constructed any more.
AppendTurn(i) ==
    \E t \in handed :
        /\ Turn(t, i) /\ ~isSingleSig
        /\ Constructible(t) => PubKeys[i] \in Reluctant
        /\ handed' = handed \cup {WithPubkey(t, PubKeys[i])}
        /\ UNCHANGED confirmed

\* sponsorTransaction: createSponsorSigner verifies the origin and constructs a
\* TransactionSigner, then signSponsor.
SponsorTurn(fee) ==
    \E t \in handed :
        /\ AuthType = "Sponsored"
        /\ verifyOrigin(t)
        /\ Constructible(t)
        /\ LET s    == SponsoredBy(t, fee, 0)
               next == nextSignature(originSigHash(t), "Sponsored", fee, 0, Sponsor)
           IN  handed' = handed \cup {SponsorSigned(s, next)}
        /\ UNCHANGED confirmed

\* External: the node accepts one transaction of the account at a nonce.
Broadcast ==
    \E t \in handed :
        /\ confirmed = Pending
        /\ Accepted(t)
        /\ confirmed' = t
        /\ UNCHANGED handed

Next ==
    \/ \E fee \in Fees : MakeUnsigned(fee)
    \/ \E i \in Owners : SignTurn(i)
    \/ \E i \in Owners : AppendTurn(i)
    \/ \E fee \in Fees : SponsorTurn(fee)
    \/ Broadcast

\* Every owner can be had to append its key and the willing ones to sign, and
\* somebody starts, sponsors and broadcasts.
Fairness ==
    /\ WF_vars(\E fee \in Fees : MakeUnsigned(fee))
    /\ \A i \in Owners : /\ WF_vars(AppendTurn(i))
                         /\ PubKeys[i] \in Willing => WF_vars(SignTurn(i))
    /\ WF_vars(\E fee \in Fees : SponsorTurn(fee))
    /\ WF_vars(Broadcast)

Spec == Init /\ [][Next]_vars
FairSpec == Spec /\ Fairness

-----------------------------------------------------------------------------
(* Properties.                                                             *)

TypeOK ==
    /\ \A t \in handed :
          /\ t.fee \in Fees
          /\ Len(t.fields) \in 0..Len(PubKeys)
          /\ \A i \in 1..Len(t.fields) : t.fields[i].type \in {"MessageSignature", "PublicKey"}
    /\ confirmed = Pending \/ confirmed \in handed

Complete(t) ==
    IF isSingleSig THEN t.sig # NoSig
    ELSE Len(t.fields) = Len(PubKeys) /\ RightNumberOfSignatures(t.fields)

\* A transaction that went to every owner in turn, and collected the signatures
\* it requires, verifies: the hash each new TransactionSigner reconstructs is
\* the one verifyOrigin walks to.
CompleteRoundVerifies == \A t \in handed : Complete(t) => verifyOrigin(t)

\* A sponsor can sign every sponsored transaction whose origin verifies.
VerifiedIsSponsorable ==
    AuthType = "Sponsored" => \A t \in handed : verifyOrigin(t) => Constructible(t)

\* The signatures at large are the approvals, the fee they are over the payment
\* approved: a round is an implementation of Approval.
Members == {PubKeys[i] : i \in Owners}
Approvals == {<<g.by, g.over.fee>> : g \in UNION {Signatures(t) : t \in handed}}

Approved == INSTANCE Approval WITH
    Members  <- Members,
    Quorum   <- NumSigs,
    approved <- Approvals,
    paid     <- IF confirmed = Pending THEN Pending ELSE confirmed.fee

QuorumApproves == Approved!Spec

\* When enough owners are willing, a transaction is confirmed in the end.
EventuallyConfirmed == <>(confirmed # Pending)
=============================================================================
