------------------------------- MODULE Approval -------------------------------
(***************************************************************************)
(* What multi-signature authorization promises, with no transaction in     *)
(* sight: the members of an account approve a payment at a fee, approvals  *)
(* are not taken back, and one payment goes through, at a fee a quorum has *)
(* approved.                                                               *)
(***************************************************************************)
EXTENDS Naturals, FiniteSets

CONSTANTS Members, Quorum, Fees, Pending

VARIABLES
    approved,  \* who approved which fee
    paid       \* the fee of the payment that went through, or Pending

Init == approved = {} /\ paid = Pending

Approve(m, fee) ==
    /\ approved' = approved \cup {<<m, fee>>}
    /\ UNCHANGED paid

Pay(fee) ==
    /\ paid = Pending
    /\ Cardinality({m \in Members : <<m, fee>> \in approved}) >= Quorum
    /\ paid' = fee
    /\ UNCHANGED approved

Next == \E fee \in Fees : Pay(fee) \/ \E m \in Members : Approve(m, fee)

Spec == Init /\ [][Next]_<<approved, paid>>
=============================================================================
