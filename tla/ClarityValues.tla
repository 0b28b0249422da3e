----------------------------- MODULE ClarityValues -----------------------------
(***************************************************************************)
(* Clarity values, their constructors, and what integers and text are as   *)
(* bytes: clarity/values/, common/src/utils.ts and common/src/buffer.ts.   *)
(*                                                                         *)
(* Bytes are numbers below 256 and text is a sequence of code points; a    *)
(* tuple keeps the insertion order of its keys, as a JavaScript object     *)
(* does. A value is a pair of its type and content. Thrown stands for the  *)
(* value of a function that throws.                                        *)
(***************************************************************************)
EXTENDS Integers, Sequences, SequencesExt, FiniteSetsExt, TLC

CONSTANTS
    IntBytes,   \* bytes of an integer: CLARITY_INT_BYTE_SIZE, 16 in the code
    HashBytes   \* bytes of an address's hash: 20 in the code

ASSUME WidthAssumption == /\ IntBytes \in Nat \ {0}
                          /\ HashBytes \in Nat \ {0}

Thrown == <<"thrown">>

\* NaN: what arithmetic on a missing byte gives. No length or position is negative.
NaN == -1

(***************************************************************************)
(* Integers. intToHex pads to the width and never truncates; a bit wider   *)
(* than the width would make the bytes longer.                             *)
(***************************************************************************)
\* 1 << bits.
TwoTo(bits) == LET power[i \in 0..bits] == IF i = 0 THEN 1 ELSE 2 * power[i - 1] IN power[bits]

intToHex[n \in Nat] == IF n < 256 THEN <<n>> ELSE Append(intToHex[n \div 256], n % 256)

padStart(bytes, length) == [i \in 1..(length - Len(bytes)) |-> 0] \o bytes

bigIntToBytes(n, length) == padStart(intToHex[n], length)

BigInt(bytes) == FoldLeft(LAMBDA n, b : 256 * n + b, 0, bytes)

\* It throws for what does not fit, which intCV has refused before.
toTwos(n, width) == IF n >= 0 THEN n ELSE n + TwoTo(width)

\* Mutation: the smallest value is taken for positive.
TwosAbove(n, width) == IF n > TwoTo(width - 1) THEN n - TwoTo(width) ELSE n

\* nthBit(n, width - 1) is the sign.
fromTwos(n, width) == IF n >= TwoTo(width - 1) THEN n - TwoTo(width) ELSE n

\* BigInt('0x') of no bytes at all throws.
bytesToTwosBigInt(bytes) == fromTwos(BigInt(bytes), 8 * Len(bytes))

MinInt  == -TwoTo(8 * IntBytes - 1)
MaxInt  == TwoTo(8 * IntBytes - 1) - 1
MaxUInt == TwoTo(8 * IntBytes) - 1

(***************************************************************************)
(* Constructors. intCV and uintCV take a number or the bytes (or 0x-hex)   *)
(* of one; the signed one reads bytes as two's complement of their width.  *)
(***************************************************************************)
CV(type, value) == <<type, value>>
Type(cv)  == cv[1]
Value(cv) == cv[2]

intCV(given) ==
    LET n == IF given.bytes = <<>> THEN given.number ELSE bytesToTwosBigInt(given.bytes)
    IN IF n \in MinInt..MaxInt THEN CV("int", n) ELSE Thrown

uintCV(given) ==
    LET n == IF given.bytes = <<>> THEN given.number ELSE BigInt(given.bytes)
    IN IF n \in 0..MaxUInt THEN CV("uint", n) ELSE Thrown

\* Of a number given as one.
UInt(n) == uintCV([number |-> n, bytes |-> <<>>])

Letter(c) == c \in 65..90 \/ c \in 97..122
Digit(c)  == c \in 48..57

\* The names of one or two punctuation marks, + - * / = < > <= >=, are left out.
isClarityName(name) ==
    /\ name # <<>>
    /\ Letter(name[1])
    /\ \A i \in 2..Len(name) :   \* - _ ! ? + < > = / *
        Letter(name[i]) \/ Digit(name[i]) \/ name[i] \in {45, 95, 33, 63, 43, 60, 62, 61, 47, 42}

tupleCV(entries) ==
    IF \A i \in DOMAIN entries : isClarityName(entries[i].key)
    THEN CV("tuple", entries) ELSE Thrown

\* Where an object has a key.
FieldNamed(entries, name) == {i \in DOMAIN entries : entries[i].key = name}

\* Setting a key of an object keeps the place of a key that is there.
SetKey(entries, key, value) ==
    IF \E i \in DOMAIN entries : entries[i].key = key
    THEN [i \in DOMAIN entries |->
            IF entries[i].key = key THEN [key |-> key, value |-> value] ELSE entries[i]]
    ELSE Append(entries, [key |-> key, value |-> value])

(***************************************************************************)
(* Text, written as UTF-8.                                                 *)
(***************************************************************************)
Continuation(bits) == 128 + (bits % 64)

\* The bytes of one code point.
codePointToBytes(c) ==
    IF c < 128 THEN <<c>>
    ELSE IF c < 2048 THEN <<192 + c \div 64, Continuation(c)>>
    ELSE IF c < 65536 THEN <<224 + c \div 4096, Continuation(c \div 64), Continuation(c)>>
    ELSE <<240 + c \div 262144, Continuation(c \div 4096), Continuation(c \div 64),
           Continuation(c)>>

utf8ToBytes(text) == FlattenSeq([i \in DOMAIN text |-> codePointToBytes(text[i])])
================================================================================
