------------------------------- MODULE Stacking -------------------------------
(***************************************************************************)
(* The stacking client: Bitcoin addresses as reward addresses, and the     *)
(* contract calls it builds for the contract of the day (@funai/stacking). *)
(*                                                                         *)
(* A Bitcoin address is what its text spells: how it is encoded, its       *)
(* version (of a base58 address, or of the witness program), the human     *)
(* readable part of a bech32 one ("" in base58), its bytes.                *)
(***************************************************************************)
EXTENDS ClarityValues

(***************************************************************************)
(* Addresses                                                               *)
(***************************************************************************)
P2PKH == 0
P2SH == 1
P2SHP2WPKH == 2
P2SHP2WSH == 3
P2WPKH == 4
P2WSH == 5
P2TR == 6

Networks == {"mainnet", "testnet", "devnet", "mocknet"}
BitcoinNetworkVersion(network) ==
    IF network = "mainnet" THEN [p2pkh |-> 0, p2sh |-> 5] ELSE [p2pkh |-> 111, p2sh |-> 196]
SegwitPrefix(network) ==
    CASE network = "mainnet" -> "bc" [] network = "testnet" -> "tb" [] OTHER -> "bcrt"

\* The letters 1 3 m n 2, which only these versions make a base58 address start with.
B58_ADDR_PREFIXES(address) == address.form = "base58" /\ address.version \in {0, 5, 111, 196}
SEGWIT_ADDR_PREFIXES(address) == address.form # "base58" /\ address.hrp \in {"bc", "tb", "bcrt"}

btcAddressVersionToLegacyHashMode(version) == IF version \in {0, 111} THEN P2PKH ELSE P2SH

\* The first letter after the prefix is the witness version, and chooses the checksum.
decodeNativeSegwitBtcAddress(address) ==
    \/ address.version = 0 /\ address.form = "bech32"
    \/ address.version = 1 /\ address.form = "bech32m"

Unsupported == 7
nativeAddressToSegwitVersion(version, length) ==
    CASE version = 0 /\ length = 20 -> P2WPKH
      [] version = 0 /\ length = 32 -> P2WSH
      [] version = 1 /\ length = 32 -> P2TR
      [] OTHER -> Unsupported

decodeBtcAddress(address) ==
    LET native == nativeAddressToSegwitVersion(address.version, Len(address.data))
    IN IF B58_ADDR_PREFIXES(address)
       THEN <<btcAddressVersionToLegacyHashMode(address.version), address.data>>
       ELSE IF /\ SEGWIT_ADDR_PREFIXES(address)
               /\ decodeNativeSegwitBtcAddress(address)
               /\ native # Unsupported
            THEN <<native, address.data>> ELSE Thrown

Pair(k, v) == [key |-> k, value |-> v]

poxAddressToTuple(address) ==
    LET decoded == decodeBtcAddress(address)
    IN IF decoded = Thrown THEN Thrown
       ELSE CV("tuple", <<Pair("version", CV("buffer", <<decoded[1]>>)),
                          Pair("hashbytes", CV("buffer", decoded[2]))>>)

extractPoxAddressFromClarityValue(cv) ==
    IF Type(cv) # "tuple" THEN Thrown
    ELSE LET At(k) == {Value(cv)[i].value : i \in FieldNamed(Value(cv), k)}
         IN IF \E k \in {"version", "hashbytes"} :
                  At(k) = {} \/ \E v \in At(k) : Type(v) # "buffer"
            THEN Thrown
            ELSE <<Value(CHOOSE v \in At("version") : TRUE)[1],
                   Value(CHOOSE v \in At("hashbytes") : TRUE)>>

Base58(version, hash) == [form |-> "base58", version |-> version, hrp |-> "", data |-> hash]
Segwit(form, version, network, hash) ==
    [form |-> form, version |-> version, hrp |-> SegwitPrefix(network), data |-> hash]

\* Mutation: a taproot address gets the checksum of the older ones.
TaprootAsBech32(version, hash, network) ==
    CASE version = P2PKH -> Base58(BitcoinNetworkVersion(network).p2pkh, hash)
      [] version \in {P2SH, P2SHP2WPKH, P2SHP2WSH} ->
            Base58(BitcoinNetworkVersion(network).p2sh, hash)
      [] version \in {P2WPKH, P2WSH} -> Segwit("bech32", 0, network, hash)
      [] version = P2TR -> Segwit("bech32", 1, network, hash)
      [] OTHER -> Thrown

\* The lengths of hashes are not looked at.
poxAddressToBtcAddress(version, hash, network) ==
    CASE version = P2PKH -> Base58(BitcoinNetworkVersion(network).p2pkh, hash)
      [] version \in {P2SH, P2SHP2WPKH, P2SHP2WSH} ->
            Base58(BitcoinNetworkVersion(network).p2sh, hash)
      [] version \in {P2WPKH, P2WSH} -> Segwit("bech32", 0, network, hash)
      [] version = P2TR -> Segwit("bech32m", 1, network, hash)
      [] OTHER -> Thrown

(***************************************************************************)
(* The contract to call. contracts is the contract_versions of pox info,   *)
(* each with its name and activation height; height the node's.            *)
(***************************************************************************)
getPoxOperationInfo(poxInfo) ==
    LET versions == poxInfo.contracts
        Activated == {i \in DOMAIN versions : poxInfo.height >= versions[i].activation}
    IN IF Activated = {} THEN "undefined"
       ELSE versions[CHOOSE i \in Activated : \A j \in Activated :
                \/ versions[j].activation < versions[i].activation
                \/ versions[j].activation = versions[i].activation /\ j <= i].name

\* The period is always the third one.
getStackingContract(poxInfo) == getPoxOperationInfo(poxInfo)
ensurePox2Activated(poxInfo) == TRUE

ensureLegacyBtcAddressForPox1(contract, address) ==
    contract # "pox" \/ address = <<>> \/ B58_ADDR_PREFIXES(address[1])

\* What was given, as sequences: empty when it was not.
ensureSignerArgsReadiness(contract, o) ==
    IF contract \in {"pox", "pox-2", "pox-3"}
    THEN o.signerKey = <<>> /\ o.signerSignature = <<>> /\ o.maxAmount = <<>> /\ o.authId = <<>>
    ELSE o.signerKey # <<>> /\ o.maxAmount # <<>> /\ o.authId # <<>>

(***************************************************************************)
(* The calls                                                               *)
(***************************************************************************)
\* A maximum of zero counts as none given.
SignerArgs(o) ==
    IF o.signerKey # <<>> /\ o.maxAmount \notin {<<>>, <<0>>} /\ o.authId # <<>>
    THEN <<IF o.signerSignature = <<>> THEN CV("none", <<>>)
           ELSE CV("some", CV("buffer", o.signerSignature[1])),
           CV("buffer", o.signerKey[1]), UInt(o.maxAmount[1]), UInt(o.authId[1])>>
    ELSE <<>>

PoxAddress(o) == poxAddressToTuple(o.poxAddress[1])

\* Of a call that throws nothing is sent.
Refused == [contract |-> "none", functionName |-> "", functionArgs |-> <<>>]

Call(contract, functionName, functionArgs) ==
    IF \E i \in DOMAIN functionArgs : functionArgs[i] = Thrown THEN Refused
    ELSE [contract |-> contract, functionName |-> functionName, functionArgs |-> functionArgs]

getStackOptions(contract, o) ==
    Call(contract, "stack-stx",
         <<UInt(o.amount), PoxAddress(o), UInt(o.burnHeight), UInt(o.cycles)>> \o SignerArgs(o))

getStackExtendOptions(contract, o) ==
    Call(contract, "stack-extend", <<UInt(o.cycles), PoxAddress(o)>> \o SignerArgs(o))

getStackIncreaseOptions(contract, o) ==
    Call(contract, "stack-increase", <<UInt(o.amount)>> \o SignerArgs(o))

getDelegateOptions(contract, o) ==
    Call(contract, "delegate-stx",
         <<UInt(o.amount), o.principal,
           IF o.until \in {<<>>, <<0>>} THEN CV("none", <<>>) ELSE CV("some", UInt(o.until[1])),
           IF o.poxAddress = <<>> THEN CV("none", <<>>)
           ELSE IF PoxAddress(o) = Thrown THEN Thrown ELSE CV("some", PoxAddress(o))>>)

getDelegateStackOptions(contract, o) ==
    Call(contract, "delegate-stack-stx",
         <<o.principal, UInt(o.amount), PoxAddress(o), UInt(o.burnHeight), UInt(o.cycles)>>)

getDelegateStackExtendOptions(contract, o) ==
    Call(contract, "delegate-stack-extend", <<o.principal, PoxAddress(o), UInt(o.cycles)>>)

getDelegateStackIncreaseOptions(contract, o) ==
    Call(contract, "delegate-stack-increase", <<o.principal, PoxAddress(o), UInt(o.amount)>>)

getStackAggregationCommitOptions(contract, o) ==
    Call(contract, "stack-aggregation-commit",
         <<PoxAddress(o), UInt(o.rewardCycle)>> \o SignerArgs(o))

getStackAggregationCommitOptionsIndexed(contract, o) ==
    Call(contract, "stack-aggregation-commit-indexed",
         <<PoxAddress(o), UInt(o.rewardCycle)>> \o SignerArgs(o))

getStackAggregationIncreaseOptions(contract, o) ==
    Call(contract, "stack-aggregation-increase",
         <<PoxAddress(o), UInt(o.rewardCycle), UInt(o.rewardIndex)>> \o SignerArgs(o))

getRevokeDelegateStxOptions(contract) == Call(contract, "revoke-delegate-stx", <<>>)

\* The operations, each with the contract it takes. Those that need the signer in pox-4, or
\* look at the kind of address, refuse before they build the call.
Guarded(contract, o, call, legacy, signer) ==
    IF contract = "undefined" THEN Refused
    ELSE IF legacy /\ ~ensureLegacyBtcAddressForPox1(contract, o.poxAddress) THEN Refused
    ELSE IF signer /\ ~ensureSignerArgsReadiness(contract, o) THEN Refused
    ELSE call

stack(p, o) == LET c == getStackingContract(p)
               IN Guarded(c, o, getStackOptions(c, o), TRUE, TRUE)
stackExtend(p, o) == Guarded(p.contract, o, getStackExtendOptions(p.contract, o), FALSE, TRUE)
stackIncrease(p, o) == Guarded(p.contract, o, getStackIncreaseOptions(p.contract, o), FALSE, TRUE)
delegateStx(p, o) == LET c == getStackingContract(p)
                     IN Guarded(c, o, getDelegateOptions(c, o), TRUE, FALSE)
delegateStackStx(p, o) == LET c == getStackingContract(p)
                          IN Guarded(c, o, getDelegateStackOptions(c, o), TRUE, FALSE)
delegateStackExtend(p, o) == getDelegateStackExtendOptions(p.contract, o)
delegateStackIncrease(p, o) == getDelegateStackIncreaseOptions(p.contract, o)
stackAggregationCommit(p, o) == LET c == getStackingContract(p)
    IN Guarded(c, o, getStackAggregationCommitOptions(c, o), TRUE, TRUE)
stackAggregationCommitIndexed(p, o) == LET c == getStackingContract(p)
    IN Guarded(c, o, getStackAggregationCommitOptionsIndexed(c, o), TRUE, TRUE)
stackAggregationIncrease(p, o) == LET c == getStackingContract(p)
    IN Guarded(c, o, getStackAggregationIncreaseOptions(c, o), TRUE, TRUE)
revokeDelegateStx(p) == getRevokeDelegateStxOptions(p.contract)

canStack(p, o) == Call(p.contract, "can-stack-stx",
    <<PoxAddress(o), UInt(o.amount), UInt(o.rewardCycle), UInt(o.cycles)>>)
getStatus(p, o) ==
    Call(p.contract, IF p.contract = "pox-4" THEN "get-funai-info" ELSE "get-stacker-info",
         <<o.principal>>)
getDelegationStatus(p, o) == Call(p.contract, "get-delegation-info", <<o.principal>>)
verifySignerKeySignature(p, o) ==
    Call(p.contract, "verify-signer-key-sig",
         <<PoxAddress(o), UInt(o.rewardCycle), CV("ascii", o.topic), UInt(o.cycles),
           IF o.signerSignature = <<>> THEN CV("none", <<>>)
           ELSE CV("some", CV("buffer", o.signerSignature[1])),
           CV("buffer", o.signerKey[1]), UInt(o.amount), UInt(o.maxAmount[1]), UInt(o.authId[1])>>)

\* The fee leaves less to lock: the first argument is replaced.
modifyLockTxFee(call, amount, fee) ==
    IF UInt(amount - fee) = Thrown THEN Refused
    ELSE [call EXCEPT !.functionArgs[1] = UInt(amount - fee)]

\* The remainder of a negative number is negative.
blocksToNextCycle(height, first, length) ==
    length - (IF height >= first THEN (height - first) % length
              ELSE -((first - height) % length))

(***************************************************************************)
(* Properties                                                              *)
(***************************************************************************)
HashLength(version) == IF version \in {P2WSH, P2TR} THEN 32 ELSE 20

\* A reward address becomes the Bitcoin address it was made from, in its network; and the
\* address of a reward address of the right length is read as that reward address, where
\* the two wrapped kinds come back as P2SH.
AddressReadsBack(address) ==
    poxAddressToTuple(address) # Thrown =>
        LET reward == extractPoxAddressFromClarityValue(poxAddressToTuple(address))
        IN /\ Len(reward[2]) = HashLength(reward[1])
           /\ \E network \in Networks :
                 poxAddressToBtcAddress(reward[1], reward[2], network) = address

\* The other way round.
RewardReadsBack(version, hash, network) ==
    Len(hash) = HashLength(version) =>
        decodeBtcAddress(poxAddressToBtcAddress(version, hash, network)) =
            <<IF version \in {P2SHP2WPKH, P2SHP2WSH} THEN P2SH ELSE version, hash>>

\* The next reward cycle is at least one and at most a cycle's length away, and starts a
\* whole number of cycles after the first one.
NextCycleStarts(height, first, length) ==
    height >= first =>
        /\ blocksToNextCycle(height, first, length) \in 1..length
        /\ (height + blocksToNextCycle(height, first, length) - first) % length = 0

\* A lock reduced by the fee and the fee add up to what was to be locked.
FeeComesOutOfLock(p, o, fee) ==
    LET call == stack(p, o)
        less == modifyLockTxFee(call, o.amount, fee)
    IN call # Refused /\ fee <= o.amount =>
        /\ Value(less.functionArgs[1]) + fee = o.amount
        /\ \A i \in 2..Len(call.functionArgs) : less.functionArgs[i] = call.functionArgs[i]

================================================================================
