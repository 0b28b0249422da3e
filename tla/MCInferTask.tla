----------------------------- MODULE MCInferTask -----------------------------
(***************************************************************************)
(* Instances of InferTask: the options of the calls.                       *)
(***************************************************************************)
EXTENDS InferTask

CONSTANTS a, b, d

\* An application that leaves fee and nonce to the builder; one, like the example of the
\* command line, whose nonce is zero; one that leaves the nonce to the client.
FillsIn   == [via |-> "built", fee |-> FALSE, nonce |-> NoNonce]
NonceZero == [via |-> "encrypted", fee |-> TRUE, nonce |-> 0]
NoneNamed == [via |-> "plain", fee |-> TRUE, nonce |-> NoNonce]

OneOfEach == [c \in Calls |-> IF c = a THEN FillsIn ELSE IF c = b THEN NonceZero ELSE NoneNamed]
=============================================================================
