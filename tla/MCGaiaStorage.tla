---------------------------- MODULE MCGaiaStorage ----------------------------
(***************************************************************************)
(* Instances of GaiaStorage: the calls each configuration makes.           *)
(***************************************************************************)
EXTENDS GaiaStorage, TLC

CONSTANTS s1, s2

Op(kind) == [kind |-> kind, signed |-> FALSE, force |-> FALSE, other |-> FALSE]
Signed(kind) == [Op(kind) EXCEPT !.signed = TRUE]
Forced(op) == [op EXCEPT !.force = TRUE]
ReadOther == [Op("get") EXCEPT !.other = TRUE]

\* Devices are names: no action tells one from another.
AnyDevice == Permutations(Sessions)

PlainOps  == {Op("put"), Op("get"), Op("delete")}
SignedOps == {Signed("put"), Signed("get"), Signed("delete")}
MixedOps  == {Signed("put"), Signed("get"), Signed("delete"), Forced(Op("put")), ReadOther}
PutOnly   == {Op("put")}
BothOps   == PlainOps \cup SignedOps

\* A behaviour's calls are all unsigned, with a fault or a renewal, or all signed: of these,
\* which make two requests each, it has three, or two and a fault, and no renewal.
OneKind ==
    \/ /\ \A c \in Calls : ~call[c].op.signed
       /\ faults + epoch <= 2
    \/ /\ \A c \in Calls : call[c].op.signed
       /\ epoch = 1 /\ Len(call) + faults <= 3
=============================================================================
