--------------------------- MODULE StackingContracts ---------------------------
(***************************************************************************)
(* The contracts the stacking client calls, and whether its calls fit them.*)
(***************************************************************************)
EXTENDS Stacking, ContractInterface

(***************************************************************************)
(* The contracts (external), in the types of contract-abi.ts: pox and pox-3*)
(* as the repository's tests have them; of pox-4 the functions of pox-3,   *)
(* followed by the signer in the types the option docs give it             *)
(* (stacking/src/index.ts:191-197).                                        *)
(***************************************************************************)
Uint == <<"uint128">>
Principal == <<"principal">>
Buffer(length) == <<"buffer", length>>
Reward(length) == <<"tuple", <<[name |-> "hashbytes", type |-> Buffer(length)],
                               [name |-> "version", type |-> Buffer(1)]>>>>
Function(name, args) == [name |-> name, args |-> args]

SignerTypes(contract) ==
    IF contract = "pox-4" THEN <<<<"optional", Buffer(65)>>, Buffer(33), Uint, Uint>> ELSE <<>>

Interface(contract) ==
    LET reward == Reward(IF contract = "pox" THEN 20 ELSE 32)
        Signed(types) == types \o SignerTypes(contract)
    IN <<Function("stack-stx", Signed(<<Uint, reward, Uint, Uint>>)),
         Function("delegate-stx", <<Uint, Principal, <<"optional", Uint>>, <<"optional", reward>>>>),
         Function("delegate-stack-stx", <<Principal, Uint, reward, Uint, Uint>>),
         Function("stack-aggregation-commit", Signed(<<reward, Uint>>)),
         Function("revoke-delegate-stx", <<>>),
         Function("can-stack-stx", <<reward, Uint, Uint, Uint>>),
         Function("get-stacker-info", <<Principal>>)>>
       \o (IF contract = "pox" THEN <<>> ELSE
       <<Function("stack-extend", Signed(<<Uint, reward>>)),
         Function("stack-increase", Signed(<<Uint>>)),
         Function("delegate-stack-extend", <<Principal, reward, Uint>>),
         Function("delegate-stack-increase", <<Principal, reward, Uint>>),
         Function("stack-aggregation-commit-indexed", Signed(<<reward, Uint>>)),
         Function("stack-aggregation-increase", Signed(<<reward, Uint, Uint>>)),
         Function("get-delegation-info", <<Principal>>)>>)

(***************************************************************************)
(* Properties                                                              *)
(***************************************************************************)
Extending(p, o) == {stackExtend(p, o), stackIncrease(p, o), delegateStackIncrease(p, o)}
Signing(p, o) == {stack(p, o), stackExtend(p, o), stackIncrease(p, o),
                  stackAggregationCommit(p, o), stackAggregationCommitIndexed(p, o),
                  stackAggregationIncrease(p, o)}
Delegating(p, o) == {delegateStx(p, o), delegateStackStx(p, o), delegateStackExtend(p, o),
                     delegateStackIncrease(p, o), revokeDelegateStx(p)}
Reading(p, o) == {canStack(p, o), getStatus(p, o), getDelegationStatus(p, o)}

Offered(call) ==
    \E i \in DOMAIN Interface(call.contract) :
        Interface(call.contract)[i].name = call.functionName
Fits(call) ==
    validateContractCall(call.functionName, call.functionArgs, Interface(call.contract)) = "valid"

\* What an operation needs: an active contract, an address it can pay, and the signer, all
\* of it, in pox-4 and only there.
Payable(p, o) ==
    /\ \E i \in DOMAIN p.contracts : p.contracts[i].activation <= p.height
    /\ o.poxAddress # <<>> /\ decodeBtcAddress(o.poxAddress[1]) # Thrown
    /\ p.contract = "pox" => o.poxAddress[1].form = "base58"
SignerGiven(o) ==
    /\ o.signerKey # <<>> /\ o.signerSignature # <<>>
    /\ o.maxAmount # <<>> /\ o.authId # <<>>
NoSignerGiven(o) == o.signerKey \o o.signerSignature \o o.maxAmount \o o.authId = <<>>
SignerFor(p, o) == IF p.contract = "pox-4" THEN SignerGiven(o) ELSE NoSignerGiven(o)

\* The calls that fit are those of functions the contract has, except canStack in pox,
\* which does not look at the kind of address, and with a maximum amount above zero.
ToFit(p, o) ==
    (IF o.maxAmount = <<0>> THEN {} ELSE Signing(p, o))
    \cup Delegating(p, o)
    \cup (Reading(p, o) \ IF p.contract = "pox" THEN {canStack(p, o)} ELSE {})

\* What the contract is asked to verify is what the operations send along.
VerifiesWhatIsSent(p, o) ==
    LET asked == verifySignerKeySignature(p, o).functionArgs
    IN \A call \in Signing(p, o) \ {Refused} :
          SubSeq(call.functionArgs, Len(call.functionArgs) - 3, Len(call.functionArgs)) =
              <<asked[5], asked[6], asked[8], asked[9]>>

\* The calls the client builds fit the contract of their period, whatever the options; an
\* operation whose options are complete is not refused, not even in the block in which the
\* contract changes; and the signer of one contract is refused by the others.
CallsFitTheContract(p, o) ==
    /\ \A call \in ToFit(p, o) : call = Refused \/ ~Offered(call) \/ Fits(call)
    /\ Payable(p, o) => Refused \notin Delegating(p, o) \cup Reading(p, o)
    /\ Payable(p, o) /\ SignerFor(p, o) => Refused \notin Signing(p, o)
    /\ p.contract # "pox-4" /\ ~NoSignerGiven(o) => Signing(p, o) = {Refused}
    /\ Payable(p, o) /\ p.contract = "pox-4" /\ SignerGiven(o) /\ o.maxAmount # <<0>> =>
          VerifiesWhatIsSent(p, o)

\* As the options have it (stacking/src/index.ts:193), pox-4 requires the signature.
SignatureIsRequired(p, o) ==
    p.contract = "pox-4" /\ o.signerSignature = <<>> => Signing(p, o) = {Refused}

\* As the options have it (stacking/src/index.ts:191-197), what is required for pox-4 is
\* part of the call that goes out.
SignerGoesAlong(p, o) ==
    p.contract = "pox-4" /\ Payable(p, o) /\ SignerGiven(o) =>
        \A call \in Signing(p, o) : Fits(call)

\* As the check of the period has it (stacking/src/utils.ts:357-358), nothing is extended
\* or increased before pox-2.
ExtendsInPoxTwo(p, o) == p.contract = "pox" => Extending(p, o) = {Refused}
================================================================================
