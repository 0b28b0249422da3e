-------------------------------- MODULE MCWire --------------------------------
(***************************************************************************)
(* Inputs for TransactionWire: transactions with every kind of condition,  *)
(* payload and post-condition, at the edges of the field widths.           *)
(***************************************************************************)
EXTENDS TransactionWire

Account  == [version |-> 22, hash160 |-> <<7>>]
Standard == CV("address", Account)
Contract == CV("contract", Account @@ [name |-> <<97>>])
Sig      == <<4, 9>>

Single(mode, encoding, fee) ==
    [hashMode |-> mode, signer |-> <<5>>, nonce |-> 1, fee |-> fee,
     keyEncoding |-> encoding, signature |-> Sig]
Field(holds, encoding) ==
    [holds |-> holds, pubKeyEncoding |-> encoding,
     data |-> IF holds = "key" THEN PublicKey(<<3>>, encoding) ELSE Sig]
Multi(mode, fields) ==
    [hashMode |-> mode, signer |-> <<5>>, nonce |-> 1, fee |-> 2, fields |-> fields,
     signaturesRequired |-> 258]
FieldLists == {<<>>} \cup {<<Field(h, e)>> : h \in {"key", "signature"}, e \in {0, 1}}
    \cup {<<Field("key", e), Field("signature", 0)>> : e \in {0, 1}}
Conditions == {Single(m, e, f) : m \in SingleSigModes, e \in {0, 1}, f \in {2, 65536}}
    \cup {Multi(m, fields) : m \in {1, 3, 5, 7}, fields \in FieldLists}
Own(condition) == [authType |-> 4, spendingCondition |-> condition]
Auths == {Own(c) : c \in Conditions}
    \cup {[authType |-> 5, spendingCondition |-> Single(0, 0, 2),
           sponsorSpendingCondition |-> c] : c \in Conditions}

Transfer(recipient, amount, memo) ==
    [payloadType |-> 0, recipient |-> recipient, amount |-> amount, memo |-> memo]
ContractCall(args) ==
    [payloadType |-> 2, contractAddress |-> Account, contractName |-> <<97>>,
     functionName |-> <<98>>, functionArgs |-> args]
Inferences == {createInferPayload(Standard, amount, input, <<>>, node, <<97>>, output) :
                   amount \in {1, 65536}, input \in {<<>>, <<97>>},
                   node \in {Thrown, Standard}, output \in {<<>>, <<98>>}}
Payloads == Inferences
    \cup {Transfer(r, n, m) : r \in {Standard, Contract}, n \in {0, 1, 65535, 65536},
              m \in {<<>>, <<97>>, <<233>>, <<97, 0>>}}
    \cup {[payloadType |-> 1, contractName |-> <<97>>, codeBody |-> c] : c \in {<<>>, <<40, 41>>}}
    \cup {ContractCall(args) : args \in {<<>>, <<CV("none", <<>>)>>,
              <<CV("int", -1), CV("buffer", <<0, 1>>)>>}}
    \cup {[payloadType |-> 3],
          [payloadType |-> 4, coinbaseBytes |-> <<0, 1>>],
          [payloadType |-> 5, coinbaseBytes |-> <<0, 1>>, recipient |-> Contract],
          [payloadType |-> 10, modelName |-> <<97>>, modelParams |-> <<>>]}
    \cup {[payloadType |-> 6, contractName |-> <<97>>, codeBody |-> <<40>>,
           clarityVersion |-> v] : v \in {1, 3}}
    \cup {[payloadType |-> 7, tenureHash |-> <<1>>, previousTenureHash |-> <<2>>,
           burnViewHash |-> <<3>>, previousTenureEnd |-> <<4, 5>>,
           previousTenureBlocks |-> 257, cause |-> c, publicKeyHash |-> <<6>>] : c \in {0, 1}}
    \cup {[payloadType |-> 8, coinbaseBytes |-> <<0, 1>>, recipient |-> r,
           vrfProof |-> <<7, 7, 7>>] : r \in {CV("none", <<>>), CV("some", Standard)}}

Principals == {[prefix |-> 1], [prefix |-> 2, address |-> Account],
               [prefix |-> 3, address |-> Account, contractName |-> <<97>>]}
Asset == [address |-> Account, contractName |-> <<97>>, assetName |-> <<98>>]
PostConditions ==
    {[conditionType |-> 0, principal |-> p, conditionCode |-> 1, amount |-> n] :
        p \in Principals, n \in {0, 65535, 65536}}
    \cup {[conditionType |-> 1, principal |-> p, asset |-> Asset, conditionCode |-> 5,
           amount |-> 258] : p \in Principals}
    \cup {[conditionType |-> 2, principal |-> p, asset |-> Asset,
           assetName |-> CV("uint", 1), conditionCode |-> 16] : p \in Principals}

Transaction(auth, postConditions, payload) ==
    [transactionVersion |-> 128, chainId |-> 256, auth |-> auth, anchorMode |-> 3,
     postConditionMode |-> 2, postConditions |-> postConditions, payload |-> payload]
Simple == Own(Single(0, 0, 2))
Transactions ==
    {Transaction(auth, <<>>, Transfer(Standard, 3, <<97>>)) : auth \in Auths}
    \cup {Transaction(Simple, <<>>, p) : p \in Payloads}
    \cup {Transaction(Simple, cs, ContractCall(<<CV("int", -1)>>)) :
              cs \in {<<c>> : c \in PostConditions}
                 \cup (PostConditions \X PostConditions)}
InferTransactions == {Transaction(Simple, <<>>, p) : p \in Inferences}

Faithful(tx, rest) ==
    /\ WireFaithful(tx, rest)
    /\ tx \in InferTransactions => \A other \in InferTransactions : OneTxid(tx, other)
================================================================================
