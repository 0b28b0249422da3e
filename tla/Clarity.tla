-------------------------------- MODULE Clarity --------------------------------
(***************************************************************************)
(* The binary form of Clarity values: clarity/serialize.ts and             *)
(* clarity/deserialize.ts, the readers and writers of BytesReader.ts.      *)
(***************************************************************************)
EXTENDS ClarityValues

(***************************************************************************)
(* Text that is read: of UTF-8 the first two lengths.                      *)
(***************************************************************************)
Replacement == 65533

RECURSIVE bytesToUtf8(_)
bytesToUtf8(bytes) ==
    IF bytes = <<>> THEN <<>>
    ELSE IF Head(bytes) < 128 THEN <<Head(bytes)>> \o bytesToUtf8(Tail(bytes))
    ELSE IF /\ Head(bytes) \in 192..223
            /\ Len(bytes) >= 2
            /\ bytes[2] \in 128..191
         THEN <<64 * (bytes[1] - 192) + (bytes[2] - 128)>> \o bytesToUtf8(SubSeq(bytes, 3, Len(bytes)))
    ELSE <<Replacement>> \o bytesToUtf8(Tail(bytes))

asciiToBytes(text)  == [i \in DOMAIN text |-> text[i] % 256]
bytesToAscii(bytes) == bytes

(***************************************************************************)
(* localeCompare in the default locale: letters alphabetically, the case   *)
(* only between words that are otherwise equal, marks before digits before *)
(* letters (as their codes are, among those used here).                    *)
(***************************************************************************)
Alphabetic(c) == IF c \in 65..90 THEN c + 32 ELSE c

SeqLess(a, b, Weight(_)) ==
    \E k \in 0..Len(a) :
        /\ k < Len(b)
        /\ \A i \in 1..k : Weight(a[i]) = Weight(b[i])
        /\ k = Len(a) \/ Weight(a[k + 1]) < Weight(b[k + 1])

\* Among words equal but for case, lower case comes first.
localeCompare(a, b) ==
    \/ SeqLess(a, b, Alphabetic)
    \/ /\ [i \in DOMAIN a |-> Alphabetic(a[i])] = [i \in DOMAIN b |-> Alphabetic(b[i])]
       /\ SeqLess(a, b, LAMBDA c : -c)

Lexicographic(entries) == SortSeq(entries, LAMBDA x, y : localeCompare(x.key, y.key))

(***************************************************************************)
(* Serializing.                                                            *)
(***************************************************************************)
clarityTypeToByte(type) ==
    CASE type = "int" -> 0      [] type = "uint" -> 1   [] type = "buffer" -> 2
      [] type = "true" -> 3     [] type = "false" -> 4  [] type = "address" -> 5
      [] type = "contract" -> 6 [] type = "ok" -> 7     [] type = "err" -> 8
      [] type = "none" -> 9     [] type = "some" -> 10  [] type = "list" -> 11
      [] type = "tuple" -> 12   [] type = "ascii" -> 13 [] type = "utf8" -> 14

writeUInt32BE(n) == bigIntToBytes(n, 4)

serializeAddress(address) == <<address.version>> \o address.hash160

\* A length-prefixed string whose prefix is one byte; createLPString bounds it by 128.
serializeLPString(text) == <<Len(utf8ToBytes(text))>> \o utf8ToBytes(text)

RECURSIVE serializeCV(_)
serializeCV(cv) ==
    LET v == Value(cv)
        type == Type(cv)
        body ==
            CASE type \in {"true", "false", "none"} -> <<>>
              [] type = "int"    -> bigIntToBytes(toTwos(v, 8 * IntBytes), IntBytes)
              [] type = "uint"   -> bigIntToBytes(v, IntBytes)
              [] type = "buffer" -> writeUInt32BE(Len(v)) \o v
              [] type = "ascii"  -> writeUInt32BE(Len(asciiToBytes(v))) \o asciiToBytes(v)
              [] type = "utf8"   -> writeUInt32BE(Len(utf8ToBytes(v))) \o utf8ToBytes(v)
              [] type = "address"  -> serializeAddress(v)
              [] type = "contract" -> serializeAddress(v) \o serializeLPString(v.name)
              [] type \in {"ok", "err", "some"} -> serializeCV(v)
              [] type = "list"  ->
                    writeUInt32BE(Len(v)) \o FlattenSeq([i \in DOMAIN v |-> serializeCV(v[i])])
              [] type = "tuple" ->
                    LET sorted == Lexicographic(v)
                    IN writeUInt32BE(Len(v))
                       \o FlattenSeq([i \in DOMAIN v |->
                            serializeLPString(sorted[i].key) \o serializeCV(sorted[i].value)])
    IN <<clarityTypeToByte(type)>> \o body

(***************************************************************************)
(* BytesReader. Reading past the end is no error: the bytes that are not   *)
(* there are left out, and the position moves by the length asked for.     *)
(***************************************************************************)
readBytes(bytes, at, length) ==
    IF at = NaN \/ length = NaN THEN <<>>
    ELSE SubSeq(bytes, at + 1, IF at + length < Len(bytes) THEN at + length ELSE Len(bytes))

Consumed(bytes, at, length) == IF at = NaN \/ length = NaN THEN NaN ELSE at + length

\* A number of which a byte is missing is NaN (hexToInt of no digits, too).
ReadLength(bytes, at, prefix) ==
    LET view == readBytes(bytes, at, prefix)
    IN [length |-> IF Len(view) < prefix THEN NaN ELSE BigInt(view),
        at |-> Consumed(bytes, at, prefix)]

\* A length, then as many bytes.
ReadPrefixed(bytes, at, prefix) ==
    LET size == ReadLength(bytes, at, prefix)
    IN [bytes |-> readBytes(bytes, size.at, size.length),
        at |-> Consumed(bytes, size.at, size.length)]

\* c32address refuses a version that is not a number or a hash of another length.
ReadAddress(bytes, at) ==
    LET view == readBytes(bytes, at, 1 + HashBytes)
    IN [value |-> IF Len(view) < 1 + HashBytes THEN Thrown
                  ELSE CV("address", [version |-> view[1], hash160 |-> Tail(view)]),
        at |-> Consumed(bytes, at, 1 + HashBytes)]

Wrap(type, read) ==
    [value |-> IF read.value = Thrown THEN Thrown ELSE CV(type, read.value), at |-> read.at]

ReadNothing(at, type) == [value |-> CV(type, <<>>), at |-> at]

RECURSIVE deserializeCV(_, _)
deserializeCV(bytes, at) ==
    LET id   == readBytes(bytes, at, 1)
        next == Consumed(bytes, at, 1)
        int  == readBytes(bytes, next, IntBytes)
        data == ReadPrefixed(bytes, next, 4)
        addr == ReadAddress(bytes, next)
        name == ReadPrefixed(bytes, addr.at, 1)
        size == ReadLength(bytes, next, 4)
        Item(read, i) ==
            IF read.value = Thrown THEN read
            ELSE LET item == deserializeCV(bytes, read.at)
                 IN [value |-> IF item.value = Thrown THEN Thrown
                               ELSE CV("list", Append(Value(read.value), item.value)),
                     at |-> item.at]
        Entry(read, i) ==
            IF read.value = Thrown THEN read
            ELSE LET key  == ReadPrefixed(bytes, read.at, 1)
                     item == deserializeCV(bytes, key.at)
                 IN [value |-> IF item.value = Thrown THEN Thrown
                               ELSE CV("tuple", SetKey(Value(read.value), bytesToUtf8(key.bytes), item.value)),
                     at |-> item.at]
        Times(Step(_, _), type) ==
            FoldLeft(Step, [value |-> CV(type, <<>>), at |-> size.at],
                     [i \in 1..(IF size.length = NaN THEN 0 ELSE size.length) |-> i])
    IN CASE id = <<>> -> [value |-> Thrown, at |-> next]
         [] id = <<0>> ->
                [value |-> IF int = <<>> THEN Thrown ELSE intCV([bytes |-> int]),
                 at |-> Consumed(bytes, next, IntBytes)]
         [] id = <<1>> ->
                [value |-> IF int = <<>> THEN Thrown ELSE uintCV([bytes |-> int]),
                 at |-> Consumed(bytes, next, IntBytes)]
         [] id = <<2>> -> [value |-> CV("buffer", data.bytes), at |-> data.at]
         [] id = <<3>> -> ReadNothing(next, "true")
         [] id = <<4>> -> ReadNothing(next, "false")
         [] id = <<5>> -> addr
         [] id = <<6>> ->
                [value |-> IF addr.value = Thrown THEN Thrown
                           ELSE CV("contract", Value(addr.value) @@
                                               [name |-> bytesToUtf8(name.bytes)]),
                 at |-> name.at]
         [] id = <<7>> -> Wrap("ok", deserializeCV(bytes, next))
         [] id = <<8>> -> Wrap("err", deserializeCV(bytes, next))
         [] id = <<9>> -> ReadNothing(next, "none")
         [] id = <<10>> -> Wrap("some", deserializeCV(bytes, next))
         [] id = <<11>> -> Times(Item, "list")
         [] id = <<12>> ->
                LET entries == Times(Entry, "tuple")
                IN [value |-> IF entries.value = Thrown THEN Thrown ELSE tupleCV(Value(entries.value)),
                    at |-> entries.at]
         [] id = <<13>> -> [value |-> CV("ascii", bytesToAscii(data.bytes)), at |-> data.at]
         [] id = <<14>> -> [value |-> CV("utf8", bytesToUtf8(data.bytes)), at |-> data.at]
         [] OTHER -> [value |-> Thrown, at |-> next]

(***************************************************************************)
(* What the codec is for. The bytes of a value are read back as the value, *)
(* a tuple with its keys in the order of the wire, whatever follows them,  *)
(* and the reader stops behind them: values can be nested and follow one   *)
(* another. What is read from a part of the bytes shows that it is: the    *)
(* reader throws, or does not stop where the bytes end.                    *)
(***************************************************************************)
RECURSIVE InWireOrder(_)
InWireOrder(cv) ==
    LET v == Value(cv)
    IN CASE Type(cv) = "list" -> CV("list", [i \in DOMAIN v |-> InWireOrder(v[i])])
         [] Type(cv) = "tuple" ->
                CV("tuple", [i \in DOMAIN v |->
                    [Lexicographic(v)[i] EXCEPT !.value = InWireOrder(@)]])
         [] Type(cv) \in {"ok", "err", "some"} -> CV(Type(cv), InWireOrder(v))
         [] OTHER -> cv

\* Whatever follows the bytes; and no part of them reads as a whole value.
SelfDelimiting(cv, rest) ==
    LET bytes == serializeCV(cv)
    IN /\ deserializeCV(bytes \o rest, 0) = [value |-> InWireOrder(cv), at |-> Len(bytes)]
       /\ \A k \in 0..(Len(bytes) - 1) :
            LET read == deserializeCV(SubSeq(bytes, 1, k), 0)
            IN read.value = Thrown \/ read.at # k

\* The bytes, and so the signature over them, do not depend on the order in which the
\* keys of a tuple were set.
OrderIndependent(cv) ==
    Type(cv) = "tuple" => serializeCV(CV("tuple", Reverse(Value(cv)))) = serializeCV(cv)
================================================================================
