--------------------------------- MODULE Bns ---------------------------------
(***************************************************************************)
(* Calls of the naming contract (@funai/bns): names are split, salted and  *)
(* hashed, and what one call commits to a later one has to open.           *)
(*                                                                         *)
(* Text is a sequence of code points. A hash stands for its preimage, so   *)
(* two are equal when they are of the same text.                           *)
(***************************************************************************)
EXTENDS ClarityValues

Dot == 46

\* Where a part ends, the start and the end of the text included, and the k-th of these.
PartEnds(text) == {0, Len(text) + 1} \cup {i \in 1..Len(text) : text[i] = Dot}
EndAt(text, k) ==
    CHOOSE i \in PartEnds(text) : Cardinality({j \in PartEnds(text) : j < i}) = k

\* The parts between the dots.
SplitAtDots(text) ==
    [k \in 1..(Cardinality(PartEnds(text)) - 1) |->
        SubSeq(text, EndAt(text, k - 1) + 1, EndAt(text, k) - 1)]

\* A missing namespace is undefined, which as bytes is nothing.
decodeFQN(fqn) ==
    LET parts == SplitAtDots(fqn)
    IN IF Len(parts) > 2
       THEN [subdomain |-> parts[1], name |-> parts[2], namespace |-> parts[3]]
       ELSE [subdomain |-> <<>>, name |-> parts[1],
             namespace |-> IF Len(parts) = 2 THEN parts[2] ELSE <<>>]

hash160(text) == <<"hash160", text>>
getZonefileHash(zonefile) == hash160(utf8ToBytes(zonefile))
bufferCVFromString(text) == CV("buffer", utf8ToBytes(text))
\* A hash as a value: 20 bytes, told apart by what was hashed.
HashCV(hash) == CV("hash", hash)
some(cv) == CV("some", cv)
none == CV("none", <<>>)

BnsCall(functionName, functionArgs, postConditions) ==
    [functionName |-> functionName, functionArgs |-> functionArgs,
     postConditions |-> postConditions]

\* Of a name with a subdomain every call throws. An empty subdomain is none.
Declined == BnsCall("none", <<>>, {})
OfName(fqn, Build(_, _)) ==
    LET d == decodeFQN(fqn)
    IN IF d.subdomain # <<>> THEN Declined
       ELSE Build(bufferCVFromString(d.namespace), bufferCVFromString(d.name))

Burns(stx, owner) == [type |-> "stx", address |-> owner, condition |-> "eq", amount |-> stx]
Names(address, condition, namespace, name) ==
    [type |-> "nft", address |-> address, condition |-> condition,
     name |-> name, namespace |-> namespace]

canRegisterName(fqn) ==
    OfName(fqn, LAMBDA namespace, name :
        BnsCall("can-name-be-registered", <<namespace, name>>, {}))

getNamespacePrice(namespace) ==
    BnsCall("get-namespace-price", <<bufferCVFromString(namespace)>>, {})

getNamePrice(fqn) ==
    OfName(fqn, LAMBDA namespace, name : BnsCall("get-name-price", <<namespace, name>>, {}))

buildPreorderNamespaceTx(namespace, salt, stxToBurn, owner) ==
    BnsCall("namespace-preorder",
            <<HashCV(hash160(utf8ToBytes(namespace \o salt))), UInt(stxToBurn)>>,
            {Burns(stxToBurn, owner)})

\* base, coefficient, b1 to b16, nonAlphaDiscount, noVowelDiscount.
buildRevealNamespaceTx(namespace, salt, priceFunction, lifetime, importer) ==
    BnsCall("namespace-reveal",
            <<bufferCVFromString(namespace), bufferCVFromString(salt)>>
            \o [i \in 1..20 |-> UInt(priceFunction[i])] \o <<UInt(lifetime), importer>>, {})

buildImportNameTx(namespace, name, beneficiary, zonefile) ==
    BnsCall("name-import",
            <<bufferCVFromString(namespace), bufferCVFromString(name), beneficiary,
              HashCV(getZonefileHash(zonefile))>>, {})

buildReadyNamespaceTx(namespace) ==
    BnsCall("namespace-ready", <<bufferCVFromString(namespace)>>, {})

\* Mutation: the salt comes first in what is hashed.
PreorderSaltFirst(fqn, salt, stxToBurn, owner) ==
    IF decodeFQN(fqn).subdomain # <<>> THEN Declined
    ELSE BnsCall("name-preorder",
                 <<HashCV(hash160(utf8ToBytes(salt \o fqn))), UInt(stxToBurn)>>,
                 {Burns(stxToBurn, owner)})

buildPreorderNameTx(fqn, salt, stxToBurn, owner) ==
    IF decodeFQN(fqn).subdomain # <<>> THEN Declined
    ELSE BnsCall("name-preorder",
                 <<HashCV(hash160(utf8ToBytes(fqn \o salt))), UInt(stxToBurn)>>,
                 {Burns(stxToBurn, owner)})

buildRegisterNameTx(fqn, salt, zonefile) ==
    OfName(fqn, LAMBDA namespace, name :
        BnsCall("name-register",
                <<namespace, name, bufferCVFromString(salt), HashCV(getZonefileHash(zonefile))>>,
                {}))

buildUpdateNameTx(fqn, zonefile) ==
    OfName(fqn, LAMBDA namespace, name :
        BnsCall("name-update", <<namespace, name, HashCV(getZonefileHash(zonefile))>>, {}))

\* An empty zone file is none given.
OptionalHash(zonefile) ==
    IF zonefile = <<>> THEN none ELSE some(HashCV(getZonefileHash(zonefile)))

buildTransferNameTx(fqn, owner, newOwner, zonefile) ==
    OfName(fqn, LAMBDA namespace, name :
        BnsCall("name-transfer", <<namespace, name, newOwner, OptionalHash(zonefile)>>,
                {Names(owner, "sent", namespace, name),
                 Names(newOwner, "not-sent", namespace, name)}))

buildRevokeNameTx(fqn) ==
    OfName(fqn, LAMBDA namespace, name : BnsCall("name-revoke", <<namespace, name>>, {}))

buildRenewNameTx(fqn, stxToBurn, owner, newOwner, zonefile) ==
    OfName(fqn, LAMBDA namespace, name :
        BnsCall("name-renewal",
                <<namespace, name, UInt(stxToBurn),
                  IF newOwner = <<>> THEN none ELSE some(newOwner[1]),
                  OptionalHash(zonefile)>>,
                {Burns(stxToBurn, owner)}))

(***************************************************************************)
(* The contract (external): what it hashes to compare with a preorder.     *)
(***************************************************************************)
NamePreimage(register) ==
    Value(register.functionArgs[2]) \o <<Dot>> \o Value(register.functionArgs[1])
        \o Value(register.functionArgs[3])
NamespacePreimage(reveal) == Value(reveal.functionArgs[1]) \o Value(reveal.functionArgs[2])

(***************************************************************************)
(* Properties                                                              *)
(***************************************************************************)
\* The part after the dot is there, and before it there is no empty subdomain: names that
\* are not are neither refused nor registered as they are spelt.
Misspelt(fqn) == Len(SplitAtDots(fqn)) # 2

\* What is registered is what was preordered: the preorder's hash is of what the contract
\* puts together from the register call, both are refused for a subdomain, and so is every
\* other call about the name. The exception: names with one part or with an empty first one.
PreorderIsOpened(fqn, salt) ==
    LET preorder == buildPreorderNameTx(fqn, salt, 1, 1)
        register == buildRegisterNameTx(fqn, salt, <<>>)
        opened   == preorder.functionArgs[1] = HashCV(hash160(NamePreimage(register)))
    IN /\ preorder = Declined <=> register = Declined
       /\ Misspelt(fqn) => register = Declined \/ ~opened
       /\ ~Misspelt(fqn) => opened
       /\ \A call \in {canRegisterName(fqn), getNamePrice(fqn), buildUpdateNameTx(fqn, salt),
                       buildTransferNameTx(fqn, 1, 2, salt), buildRevokeNameTx(fqn),
                       buildRenewNameTx(fqn, 1, 1, <<>>, salt)} :
             IF register = Declined THEN call = Declined
             ELSE SubSeq(call.functionArgs, 1, 2) = SubSeq(register.functionArgs, 1, 2)

\* What is revealed of a namespace is what was preordered.
NamespacePreorderIsOpened(namespace, salt) ==
    LET preorder == buildPreorderNamespaceTx(namespace, salt, 1, 1)
        reveal   == buildRevealNamespaceTx(namespace, salt, [i \in 1..20 |-> i], 1, 1)
    IN preorder.functionArgs[1] = HashCV(hash160(NamespacePreimage(reveal)))

================================================================================
