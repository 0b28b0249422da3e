------------------------------ MODULE MCMultiSig ------------------------------
(***************************************************************************)
(* Instances of MultiSig: the orders of public keys the .cfg files choose. *)
(***************************************************************************)
EXTENDS MultiSig, TLC

CONSTANTS k1, k2, k3

OneKey    == <<k1>>
ThreeKeys == <<k1, k2, k3>>

\* Signers are names: no action tells one from another.
AnySigner == Permutations(Signers)
=============================================================================
