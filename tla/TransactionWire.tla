---------------------------- MODULE TransactionWire ----------------------------
(***************************************************************************)
(* The binary form of a transaction: wire/serialization.ts, wire/create.ts,*)
(* serializeBytes and deserializeTransaction of transaction.ts, the        *)
(* spending conditions and authorizations of authorization.ts.             *)
(*                                                                         *)
(* Writers and readers are separate code, so each has its own layout: the  *)
(* fields in the order in which that code writes or reads them, each with  *)
(* its kind. A record in the model has the names of the code's properties. *)
(***************************************************************************)
EXTENDS Clarity

CONSTANTS
    AmountBytes,      \* of an amount, a fee and a nonce: 8
    MemoBytes,        \* MEMO_MAX_LENGTH_BYTES: 34
    SignatureBytes,   \* RECOVERABLE_ECDSA_SIG_LENGTH_BYTES: 65
    KeyHalfBytes,     \* of one coordinate of a public key: 32
    CoinbaseBytes,    \* COINBASE_BYTES_LENGTH: 32
    VrfBytes,         \* VRF_PROOF_BYTES_LENGTH: 80
    DigestBytes,      \* of a block's hash: 32
    MaxString,        \* MAX_STRING_LENGTH_BYTES: 128
    MaxCode           \* of a contract's code: 100000

TransactionVersions == {0, 128}
AuthTypes           == {4, 5}                     \* Standard, Sponsored
SingleSigModes      == {0, 2}                     \* P2PKH, P2WPKH
HashModes           == SingleSigModes \cup {1, 3, 5, 7}
SegwitModes         == {2, 3, 7}                  \* P2WPKH, P2WSH, P2WSHNonSequential
PubKeyEncodings     == {0, 1}                     \* Compressed, Uncompressed
AnchorModes         == {1, 2, 3}
PostConditionModes  == {1, 2}
PayloadTypes        == 0..10
ClarityVersions     == {1, 2, 3}
TenureChangeCauses  == {0, 1}
PostConditionTypes  == {0, 1, 2}                  \* STX, Fungible, NonFungible
PrincipalIds        == {1, 2, 3}                  \* Origin, Standard, Contract
FungibleCodes       == 1..5
NonFungibleCodes    == {16, 17}

Compressed   == 0
Uncompressed == 1

\* The second coordinate of a key is a function of the first one; here it is the same.
PublicKey(half, encoding) ==
    IF encoding = Compressed THEN <<2>> \o half ELSE <<4>> \o half \o half

publicKeyIsCompressed(key) == key[1] # 4
compressPublicKey(key)     == <<2>> \o SubSeq(key, 2, 1 + KeyHalfBytes)
uncompressPublicKey(key)   == PublicKey(Tail(key), Uncompressed)

exceedsMaxLengthBytes(text, max) == Len(utf8ToBytes(text)) > max

(***************************************************************************)
(* What each payload, post-condition, authorization and spending condition *)
(* writes, in order: serializePayloadBytes, serializePostConditionWireBytes,*)
(* serializePrincipalBytes, serializeAuthorizationBytes, the two           *)
(* serialize...SpendingConditionBytes and serializeBytes.                  *)
(***************************************************************************)
Byte == <<"byte">>          Amount == <<"amount">>     CVKind == <<"cv">>
AddressKind == <<"address">>  Text == <<"lpstring">>   Code == <<"code">>
Memo == <<"memo">>          Signature == <<"signature">>
Enum(values) == <<"enum", values>>
Raw(length)  == <<"raw", length>>

serializePayload(p) ==
    CASE p.payloadType = 0 -> << <<"recipient", CVKind>>, <<"amount", Amount>>, <<"memo", Memo>> >>
      [] p.payloadType = 1 -> << <<"contractName", Text>>, <<"codeBody", Code>> >>
      [] p.payloadType = 2 -> << <<"contractAddress", AddressKind>>, <<"contractName", Text>>,
                                 <<"functionName", Text>>, <<"functionArgs", <<"args">>>> >>
      [] p.payloadType = 3 -> <<>>
      [] p.payloadType = 4 -> << <<"coinbaseBytes", Raw(CoinbaseBytes)>> >>
      [] p.payloadType = 5 -> << <<"coinbaseBytes", Raw(CoinbaseBytes)>>, <<"recipient", CVKind>> >>
      [] p.payloadType = 6 -> << <<"clarityVersion", Byte>>, <<"contractName", Text>>,
                                 <<"codeBody", Code>> >>
      [] p.payloadType = 7 -> << <<"tenureHash", Raw(HashBytes)>>,
                                 <<"previousTenureHash", Raw(HashBytes)>>,
                                 <<"burnViewHash", Raw(HashBytes)>>,
                                 <<"previousTenureEnd", Raw(DigestBytes)>>,
                                 <<"previousTenureBlocks", <<"uint32">>>>, <<"cause", Byte>>,
                                 <<"publicKeyHash", Raw(HashBytes)>> >>
      [] p.payloadType = 8 -> << <<"coinbaseBytes", Raw(CoinbaseBytes)>>, <<"recipient", CVKind>>,
                                 <<"vrfProof", Raw(VrfBytes)>> >>
      [] p.payloadType = 9 -> << <<"inferUserAddress", CVKind>>, <<"amount", Amount>>,
                                 <<"userInput", Text>>, <<"context", Text>>,
                                 <<"nodePrincipal", CVKind>>, <<"modelName", Text>>,
                                 <<"outputHash", Text>> >>
      [] p.payloadType = 10 -> << <<"modelName", Text>>, <<"modelParams", Text>> >>

serializePostConditionWire(c) ==
    << <<"principal", <<"principal">>>> >>
    \o (IF c.conditionType \in {1, 2} THEN << <<"asset", <<"asset">>>> >> ELSE <<>>)
    \o (IF c.conditionType = 2 THEN << <<"assetName", CVKind>> >> ELSE <<>>)
    \o << <<"conditionCode", Byte>> >>
    \o (IF c.conditionType \in {0, 1} THEN << <<"amount", Amount>> >> ELSE <<>>)

serializePrincipal(p) ==
    CASE p.prefix = 1 -> <<>>
      [] p.prefix = 2 -> << <<"address", AddressKind>> >>
      [] p.prefix = 3 -> << <<"address", AddressKind>>, <<"contractName", Text>> >>

serializeAsset == << <<"address", AddressKind>>, <<"contractName", Text>>, <<"assetName", Text>> >>

serializeSpendingCondition(c) ==
    << <<"signer", Raw(HashBytes)>>, <<"nonce", Amount>>, <<"fee", Amount>> >>
    \o (IF c.hashMode \in SingleSigModes
        THEN << <<"keyEncoding", Byte>>, <<"signature", Signature>> >>
        ELSE << <<"fields", <<"list", "authField">>>>, <<"signaturesRequired", <<"uint16">>>> >>)

serializeAuthorization(a) ==
    << <<"spendingCondition", <<"condition">>>> >>
    \o (IF a.authType = 5 THEN << <<"sponsorSpendingCondition", <<"condition">>>> >> ELSE <<>>)

serializeTransaction ==
    << <<"chainId", <<"uint32">>>>, <<"auth", <<"authorization">>>>, <<"anchorMode", Byte>>,
       <<"postConditionMode", Byte>>, <<"postConditions", <<"list", "postCondition">>>>,
       <<"payload", <<"payload">>>> >>

(***************************************************************************)
(* The same records as the readers take them apart: deserializePayload,    *)
(* deserializePostConditionWire, deserializePrincipal, deserializeAsset,   *)
(* the two deserialize...SpendingCondition, deserializeAuthorization and   *)
(* deserializeTransaction.                                                 *)
(***************************************************************************)
deserializePayload(payloadType) ==
    CASE payloadType = 0 -> << <<"recipient", CVKind>>, <<"amount", Amount>>, <<"memo", Memo>> >>
      [] payloadType = 1 -> << <<"contractName", Text>>, <<"codeBody", Code>> >>
      [] payloadType = 2 -> << <<"contractAddress", AddressKind>>, <<"contractName", Text>>,
                               <<"functionName", Text>>, <<"functionArgs", <<"args">>>> >>
      [] payloadType = 3 -> <<>>
      [] payloadType = 4 -> << <<"coinbaseBytes", <<"exactly", CoinbaseBytes>>>> >>
      [] payloadType = 5 -> << <<"coinbaseBytes", <<"exactly", CoinbaseBytes>>>>,
                               <<"recipient", CVKind>> >>
      [] payloadType = 6 -> << <<"clarityVersion", Enum(ClarityVersions)>>, <<"contractName", Text>>,
                               <<"codeBody", Code>> >>
      [] payloadType = 7 -> << <<"tenureHash", Raw(HashBytes)>>,
                               <<"previousTenureHash", Raw(HashBytes)>>,
                               <<"burnViewHash", Raw(HashBytes)>>,
                               <<"previousTenureEnd", Raw(DigestBytes)>>,
                               <<"previousTenureBlocks", <<"uint32">>>>,
                               <<"cause", Enum(TenureChangeCauses)>>,
                               <<"publicKeyHash", Raw(HashBytes)>> >>
      [] payloadType = 8 -> << <<"coinbaseBytes", <<"exactly", CoinbaseBytes>>>>,
                               <<"recipient", <<"recipient">>>>, <<"vrfProof", <<"exactly", VrfBytes>>>> >>
      [] payloadType = 9 -> << <<"inferUserAddress", CVKind>>, <<"amount", Amount>>,
                               <<"userInput", Text>>, <<"context", Text>>,
                               <<"nodePrincipal", CVKind>>, <<"modelName", Text>>,
                               <<"outputHash", Text>> >>
      [] payloadType = 10 -> << <<"modelName", Text>>, <<"modelParams", Text>> >>

deserializePostConditionWire(conditionType) ==
    LET code == <<"conditionCode", Enum(FungibleCodes)>>
        principal == <<"principal", <<"principal">>>>
        asset == <<"asset", <<"asset">>>>
    IN CASE conditionType = 0 -> <<principal, code, <<"amount", Amount>>>>
         [] conditionType = 1 -> <<principal, asset, code, <<"amount", Amount>>>>
         [] conditionType = 2 -> <<principal, asset, <<"assetName", CVKind>>,
                                   <<"conditionCode", Enum(NonFungibleCodes)>>>>

deserializePrincipal(prefix) ==
    SubSeq(<< <<"address", AddressKind>>, <<"contractName", Text>> >>, 1, prefix - 1)

deserializeAsset == << <<"address", AddressKind>>, <<"contractName", Text>>, <<"assetName", Text>> >>

deserializeSingleSigSpendingCondition ==
    << <<"signer", Raw(HashBytes)>>, <<"nonce", Amount>>, <<"fee", Amount>>,
       <<"keyEncoding", Enum(PubKeyEncodings)>>, <<"signature", Signature>> >>

deserializeMultiSigSpendingCondition ==
    << <<"signer", Raw(HashBytes)>>, <<"nonce", Amount>>, <<"fee", Amount>>,
       <<"fields", <<"list", "authField">>>>, <<"signaturesRequired", <<"uint16">>>> >>

deserializeAuthorization(authType) ==
    SubSeq(<< <<"spendingCondition", <<"condition">>>>,
              <<"sponsorSpendingCondition", <<"condition">>>> >>, 1, authType - 3)

deserializeTransactionFields ==
    << <<"chainId", <<"uint32">>>>, <<"auth", <<"authorization">>>>,
       <<"anchorMode", Enum(AnchorModes)>>, <<"postConditionMode", Enum(PostConditionModes)>>,
       <<"postConditions", <<"list", "postCondition">>>>, <<"payload", <<"payload">>>> >>

(***************************************************************************)
(* Writing a value of each kind. An amount wider than its bytes is written *)
(* with more bytes: only a post-condition's amount is checked.             *)
(***************************************************************************)
RECURSIVE Write(_, _), WriteAll(_, _)

WriteAll(layout, record) ==
    FlattenSeq([i \in DOMAIN layout |-> Write(layout[i][2], record[layout[i][1]])])

serializeLPStringBytes(text, prefix) ==
    bigIntToBytes(Len(utf8ToBytes(text)), prefix) \o utf8ToBytes(text)

serializeMemoString(text) ==
    LET content == utf8ToBytes(text)
    IN content \o [i \in 1..(MemoBytes - Len(content)) |-> 0]

\* A field's type says what it holds and how its key is encoded; a key is always compressed.
serializeTransactionAuthField(f) ==
    IF f.holds = "key"
    THEN <<IF f.pubKeyEncoding = Compressed THEN 0 ELSE 1>> \o compressPublicKey(f.data)
    ELSE <<IF f.pubKeyEncoding = Compressed THEN 2 ELSE 3>> \o f.data

Write(kind, v) ==
    CASE kind[1] = "byte"      -> <<v>>
      [] kind[1] = "amount"    -> bigIntToBytes(v, AmountBytes)
      [] kind[1] = "uint32"    -> writeUInt32BE(v)
      [] kind[1] = "uint16"    -> bigIntToBytes(v, 2)
      [] kind[1] \in {"raw", "signature"} -> v
      [] kind[1] = "cv"        -> serializeCV(v)
      [] kind[1] = "address"   -> serializeAddress(v)
      [] kind[1] = "lpstring"  -> serializeLPStringBytes(v, 1)
      [] kind[1] = "code"      -> serializeLPStringBytes(v, 4)
      [] kind[1] = "memo"      -> serializeMemoString(v)
      [] kind[1] = "authField" -> serializeTransactionAuthField(v)
      [] kind[1] = "args"      ->
            writeUInt32BE(Len(v)) \o FlattenSeq([i \in DOMAIN v |-> serializeCV(v[i])])
      [] kind[1] = "list"      ->
            writeUInt32BE(Len(v)) \o FlattenSeq([i \in DOMAIN v |-> Write(<<kind[2]>>, v[i])])
      [] kind[1] = "asset"     -> WriteAll(serializeAsset, v)
      [] kind[1] = "principal" -> <<v.prefix>> \o WriteAll(serializePrincipal(v), v)
      [] kind[1] = "postCondition" ->
            <<v.conditionType>> \o WriteAll(serializePostConditionWire(v), v)
      [] kind[1] = "condition" -> <<v.hashMode>> \o WriteAll(serializeSpendingCondition(v), v)
      [] kind[1] = "authorization" -> <<v.authType>> \o WriteAll(serializeAuthorization(v), v)
      [] kind[1] = "payload"   -> <<v.payloadType>> \o WriteAll(serializePayload(v), v)

\* serializePostConditionWireBytes throws on a wider amount.
Serializable(tx) ==
    \A i \in DOMAIN tx.postConditions :
        "amount" \in DOMAIN tx.postConditions[i]
            => tx.postConditions[i].amount < TwoTo(8 * AmountBytes)

serializeBytes(tx) == <<tx.transactionVersion>> \o WriteAll(serializeTransaction, tx)

(***************************************************************************)
(* Reading. A reader gives the value and the position behind it, or throws.*)
(***************************************************************************)
Throws == [ok |-> FALSE]
Read(value, at) == [ok |-> TRUE, value |-> value, at |-> at]

hexToInt(view) == IF view = <<>> THEN NaN ELSE BigInt(view)

readUInt8Enum(bytes, at, values) ==
    LET view == readBytes(bytes, at, 1)
    IN IF view # <<>> /\ view[1] \in values THEN Read(view[1], Consumed(bytes, at, 1)) ELSE Throws

\* createLPString refuses what is too long, on reading too.
deserializeLPString(bytes, at, prefix, max) ==
    LET length  == hexToInt(readBytes(bytes, at, prefix))
        from    == Consumed(bytes, at, prefix)
        content == bytesToUtf8(readBytes(bytes, from, length))
    IN IF exceedsMaxLengthBytes(content, max) THEN Throws
       ELSE Read(content, Consumed(bytes, from, length))

deserializeMemoString(bytes, at) ==
    LET text == bytesToUtf8(readBytes(bytes, at, MemoBytes))
        last == Max({i \in DOMAIN text : text[i] # 0} \cup {0})
    IN Read(SubSeq(text, 1, last), Consumed(bytes, at, MemoBytes))

\* A key whose first byte is 4 has both coordinates.
deserializePublicKey(bytes, at) ==
    LET id   == readBytes(bytes, at, 1)
        from == Consumed(bytes, at, 1)
        size == IF id = <<4>> THEN 2 * KeyHalfBytes ELSE KeyHalfBytes
    IN IF id = <<>> THEN Throws
       ELSE Read(id \o readBytes(bytes, from, size), Consumed(bytes, from, size))

ReadExactly(bytes, at, length) ==
    IF Len(readBytes(bytes, at, length)) = length
    THEN Read(readBytes(bytes, at, length), Consumed(bytes, at, length)) ELSE Throws

deserializeTransactionAuthField(bytes, at) ==
    LET type == readUInt8Enum(bytes, at, 0..3)
        key  == deserializePublicKey(bytes, type.at)
        signature == ReadExactly(bytes, type.at, SignatureBytes)
        Field(holds, encoding, read, data) ==
            Read([holds |-> holds, pubKeyEncoding |-> encoding, data |-> data], read.at)
    IN CASE ~type.ok -> Throws
         [] type.ok /\ type.value = 0 ->
                IF key.ok THEN Field("key", Compressed, key, key.value) ELSE Throws
         [] type.ok /\ type.value = 1 ->   \* uncompressPublicKey throws on part of a key
                IF key.ok /\ Len(key.value) = 1 + KeyHalfBytes
                THEN Field("key", Uncompressed, key, uncompressPublicKey(key.value)) ELSE Throws
         [] type.ok /\ type.value \in {2, 3} ->
                IF signature.ok THEN Field("signature", type.value - 2, signature, signature.value)
                ELSE Throws

\* The checks at the end of the two spending condition readers.
SpendingConditionReadable(c) ==
    IF c.hashMode \in SingleSigModes
    THEN c.hashMode \in SegwitModes => c.keyEncoding = Compressed
    ELSE c.hashMode \in SegwitModes =>
            \A i \in DOMAIN c.fields :
                IF c.fields[i].holds = "key" THEN publicKeyIsCompressed(c.fields[i].data)
                ELSE c.fields[i].pubKeyEncoding = Compressed

\* A Clarity value; as a recipient, anything but some is none.
ReadValue(read, isRecipient) ==
    IF read.value = Thrown THEN Throws
    ELSE Read(IF isRecipient /\ Type(read.value) # "some" THEN CV("none", <<>>) ELSE read.value,
              read.at)

\* BigInt('0x') throws; a part of the bytes is a number.
ReadAmount(view, at) == IF view = <<>> THEN Throws ELSE Read(BigInt(view), at)

ReadNumber(read) == Read(read.length, read.at)

\* An address outside a Clarity value: its parts are taken as they are.
ReadParts(bytes, at) ==
    LET from == Consumed(bytes, at, 1)
    IN Read([version |-> hexToInt(readBytes(bytes, at, 1)),
             hash160 |-> readBytes(bytes, from, HashBytes)],
            Consumed(bytes, from, HashBytes))

ReadScalar(kind, bytes, at) ==
    CASE kind[1] = "enum"      -> readUInt8Enum(bytes, at, kind[2])
      [] kind[1] = "amount"    ->
            ReadAmount(readBytes(bytes, at, AmountBytes), Consumed(bytes, at, AmountBytes))
      [] kind[1] \in {"uint32", "uint16"} ->
            ReadNumber(ReadLength(bytes, at, IF kind[1] = "uint32" THEN 4 ELSE 2))
      [] kind[1] = "raw"       -> Read(readBytes(bytes, at, kind[2]), Consumed(bytes, at, kind[2]))
      [] kind[1] = "exactly"   -> ReadExactly(bytes, at, kind[2])
      [] kind[1] = "signature" -> ReadExactly(bytes, at, SignatureBytes)
      [] kind[1] \in {"cv", "recipient"} ->
            ReadValue(deserializeCV(bytes, at), kind[1] = "recipient")
      [] kind[1] = "address"   -> ReadParts(bytes, at)
      [] kind[1] = "lpstring"  -> deserializeLPString(bytes, at, 1, MaxString)
      [] kind[1] = "code"      -> deserializeLPString(bytes, at, 4, MaxCode)
      [] kind[1] = "memo"      -> deserializeMemoString(bytes, at)
      [] kind[1] = "authField" -> deserializeTransactionAuthField(bytes, at)

\* The records that begin with a tag: its field, its values, and the fields each calls for.
TagOf(record) ==
    CASE record = "principal"     -> <<"prefix", PrincipalIds>>
      [] record = "postCondition" -> <<"conditionType", PostConditionTypes>>
      [] record = "condition"     -> <<"hashMode", HashModes>>
      [] record = "authorization" -> <<"authType", AuthTypes>>
      [] record = "payload"       -> <<"payloadType", PayloadTypes>>
      [] record = "transaction"   -> <<"transactionVersion", TransactionVersions>>

FieldsOf(record, tag) ==
    CASE record = "principal"     -> deserializePrincipal(tag)
      [] record = "postCondition" -> deserializePostConditionWire(tag)
      [] record = "condition" /\ tag \in SingleSigModes -> deserializeSingleSigSpendingCondition
      [] record = "condition" /\ tag \notin SingleSigModes -> deserializeMultiSigSpendingCondition
      [] record = "authorization" -> deserializeAuthorization(tag)
      [] record = "payload"       -> deserializePayload(tag)
      [] record = "transaction"   -> deserializeTransactionFields

RECURSIVE ReadKind(_, _, _)

WithField(read, name, next) ==
    IF next.ok THEN Read((name :> next.value) @@ read.value, next.at) ELSE Throws

ReadAll(layout, bytes, at, record) ==
    FoldLeft(LAMBDA read, field :
                IF read.ok THEN WithField(read, field[1], ReadKind(field[2], bytes, read.at))
                ELSE Throws,
             Read(record, at), layout)

WithItem(read, next) ==
    IF next.ok THEN Read(Append(read.value, next.value), next.at) ELSE Throws

\* As many values of a kind as a count says; one that is not a number is none.
ReadMany(kind, bytes, count) ==
    FoldLeft(LAMBDA read, i :
                IF read.ok THEN WithItem(read, ReadKind(kind, bytes, read.at)) ELSE Throws,
             Read(<<>>, count.at),
             [i \in 1..(IF count.value = NaN THEN 0 ELSE count.value) |-> i])

ReadTagged(record, tag, bytes) ==
    IF tag.ok
    THEN ReadAll(FieldsOf(record, tag.value), bytes, tag.at, TagOf(record)[1] :> tag.value)
    ELSE Throws

ReadRecord(record, bytes, at) ==
    ReadTagged(record, readUInt8Enum(bytes, at, TagOf(record)[2]), bytes)

Checked(read) == IF read.ok /\ SpendingConditionReadable(read.value) THEN read ELSE Throws

\* The count of a list is the number that the bytes which are there make (hexToInt), that of a
\* call's arguments a number only if all four are there (readUInt32BE).
ReadKind(kind, bytes, at) ==
    CASE kind[1] = "args"  -> ReadMany(CVKind, bytes, ReadNumber(ReadLength(bytes, at, 4)))
      [] kind[1] = "list"  ->
            ReadMany(<<kind[2]>>, bytes,
                     Read(hexToInt(readBytes(bytes, at, 4)), Consumed(bytes, at, 4)))
      [] kind[1] = "asset" -> ReadAll(deserializeAsset, bytes, at, <<>>)
      [] kind[1] = "condition" -> Checked(ReadRecord("condition", bytes, at))
      [] kind[1] \in {"principal", "postCondition", "authorization", "payload"} ->
            ReadRecord(kind[1], bytes, at)
      [] OTHER -> ReadScalar(kind, bytes, at)

\* What follows the transaction is not looked at.
deserializeTransaction(bytes) == ReadRecord("transaction", bytes, 0)

(***************************************************************************)
(* txid: an inference is named without the node that took it and without   *)
(* its result. createInferPayload writes the same null principal for a     *)
(* request no node has taken yet, and no text for a missing result.        *)
(***************************************************************************)
NullPrincipal == CV("address", [version |-> 0, hash160 |-> [i \in 1..HashBytes |-> 0]])

createInferPayload(user, amount, userInput, context, nodePrincipal, modelName, outputHash) ==
    [payloadType |-> 9, inferUserAddress |-> user, amount |-> amount, userInput |-> userInput,
     context |-> context, modelName |-> modelName, outputHash |-> outputHash,
     nodePrincipal |-> IF nodePrincipal = Thrown THEN NullPrincipal ELSE nodePrincipal]

\* Mutation: the result stays in what is hashed.
BlankNode(payload) ==
    IF payload.payloadType = 9 THEN [payload EXCEPT !.nodePrincipal = NullPrincipal] ELSE payload

Blank(payload) ==
    IF payload.payloadType = 9
    THEN [payload EXCEPT !.nodePrincipal = NullPrincipal, !.outputHash = <<>>] ELSE payload

\* The bytes that are hashed.
txid(tx) == serializeBytes([tx EXCEPT !.payload = Blank(@)])

(***************************************************************************)
(* What the wire is for. A transaction is read back as it was, whatever    *)
(* follows it, unless it cannot be: its amount does not fit the bytes of   *)
(* an amount, its memo ends in a null character, or its keys are not       *)
(* compressed in a segwit mode. A part of the bytes is never taken for a   *)
(* whole: reading it throws or asks for more than there is. And a txid     *)
(* names one request, whichever node takes it.                             *)
(***************************************************************************)
Lossless(tx) ==
    LET p == tx.payload
        Fits(amount) == amount < TwoTo(8 * AmountBytes)
        conditions == {tx.auth[name] : name \in DOMAIN tx.auth \ {"authType"}}
    IN /\ "amount" \in DOMAIN p => Fits(p.amount)
       /\ p.payloadType = 0 /\ p.memo # <<>> => p.memo[Len(p.memo)] # 0
       /\ \A c \in conditions : Fits(c.nonce) /\ Fits(c.fee) /\ SpendingConditionReadable(c)

\* Read back as it was, unless it cannot be; and no part of it reads as a whole.
WireFaithful(tx, rest) ==
    Serializable(tx) =>
        LET bytes == serializeBytes(tx)
            read  == deserializeTransaction(bytes \o rest)
        IN /\ Lossless(tx) <=> read = Read(tx, Len(bytes))
           /\ Lossless(tx) =>
                \A k \in 0..(Len(bytes) - 1) :
                    LET part == deserializeTransaction(SubSeq(bytes, 1, k))
                    IN part.ok => part.at # k

\* Two inference transactions that differ in nothing but the node and the result.
SameRequest(tx, other) ==
    /\ [tx EXCEPT !.payload = {}] = [other EXCEPT !.payload = {}]
    /\ \A name \in DOMAIN tx.payload \ {"nodePrincipal", "outputHash"} :
          tx.payload[name] = other.payload[name]

\* Another node and another result leave the txid alone; anything else changes it.
OneTxid(tx, other) == txid(tx) = txid(other) <=> SameRequest(tx, other)
================================================================================
