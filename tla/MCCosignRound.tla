---------------------------- MODULE MCCosignRound ----------------------------
(***************************************************************************)
(* Instances of CosignRound: the orders of public keys the .cfg files      *)
(* choose.                                                                 *)
(***************************************************************************)
EXTENDS CosignRound

CONSTANTS k1, k2, k3, sp

OneKey    == <<k1>>
ThreeKeys == <<k1, k2, k3>>
=============================================================================
