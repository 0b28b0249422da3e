--------------------------- MODULE ContractInterface ---------------------------
(***************************************************************************)
(* The interface of a contract and the arguments of a call: contract-abi.ts.*)
(*                                                                         *)
(* A type is a pair of its kind and what the kind needs: a length, a type, *)
(* the two types of a response, the element type and length of a list, the *)
(* named types of a tuple. Values are those of Clarity, text as code points.*)
(***************************************************************************)
EXTENDS Clarity

Primitive == {"uint128", "int128", "bool", "principal", "trait_reference", "none"}

\* What JavaScript calls the length of a string: a code point above 65535 counts twice.
utf16Length(text) == Len(text) + Cardinality({i \in DOMAIN text : text[i] > 65535})

(***************************************************************************)
(* matchType. A tuple is matched key by key of its type: keys of the value *)
(* that the type does not have are not looked at.                          *)
(***************************************************************************)
RECURSIVE matchType(_, _)

\* Mutation: a key the value does not have goes unnoticed.
MissingKeyMatches(entries, typed) ==
    \A i \in FieldNamed(entries, typed.name) : matchType(entries[i].value, typed.type)

KeyMatches(entries, typed) ==
    \E i \in FieldNamed(entries, typed.name) : matchType(entries[i].value, typed.type)

matchType(cv, type) ==
    LET v == Value(cv)
        kind == type[1]
    IN CASE Type(cv) \in {"true", "false"} -> kind = "bool"
         [] Type(cv) = "int"      -> kind = "int128"
         [] Type(cv) = "uint"     -> kind = "uint128"
         [] Type(cv) = "buffer"   -> kind = "buffer" /\ type[2] >= Len(v)
         [] Type(cv) = "ascii"    -> kind = "string-ascii" /\ type[2] >= utf16Length(v)
         [] Type(cv) = "utf8"     -> kind = "string-utf8" /\ type[2] >= utf16Length(v)
         [] Type(cv) = "none"     -> kind \in {"none", "optional"}
         [] Type(cv) = "some"     -> kind = "optional" /\ matchType(v, type[2])
         [] Type(cv) = "err"      -> kind = "response" /\ matchType(v, type[2].error)
         [] Type(cv) = "ok"       -> kind = "response" /\ matchType(v, type[2].ok)
         [] Type(cv) = "contract" -> kind \in {"principal", "trait_reference"}
         [] Type(cv) = "address"  -> kind = "principal"
         [] Type(cv) = "list"     ->
                /\ kind = "list"
                /\ type[2].length >= Len(v)
                /\ \A i \in DOMAIN v : matchType(v[i], type[2].type)
         [] Type(cv) = "tuple"    ->
                /\ kind = "tuple"
                /\ \A n \in DOMAIN type[2] : KeyMatches(v, type[2][n])

\* The functions of an interface: [name, args], args a sequence of types. Thrown errors
\* are told apart because the message is what a caller gets to see.
validateContractCall(functionName, functionArgs, functions) ==
    LET filtered == SelectSeq(functions, LAMBDA f : f.name = functionName)
    IN CASE Len(filtered) = 0 -> "no such function"
         [] Len(filtered) > 1 -> "malformed"
         [] Len(functionArgs) # Len(filtered[1].args) -> "wrong number of arguments"
         [] \E i \in DOMAIN functionArgs : ~matchType(functionArgs[i], filtered[1].args[i]) ->
                "wrong type"
         [] OTHER -> "valid"

(***************************************************************************)
(* Arguments given as text. An input is described by what the constructors *)
(* make of it: `number` what BigInt reads, `signed` what intCV reads (a    *)
(* 0x-prefixed text is two's complement), `hex` what hexToBytes reads,     *)
(* `principal` the principal it names, each a sequence that is empty when  *)
(* the constructor throws; and the text itself.                            *)
(***************************************************************************)
Made(type, of) == IF of = <<>> THEN Thrown ELSE CV(type, of[1])

MadeUInt(input) ==
    IF input.number # <<>> /\ input.number[1] < 0 THEN Thrown ELSE Made("uint", input.number)

MadePrincipal(input) == IF input.principal = <<>> THEN Thrown ELSE input.principal[1]

\* Without a name after the address, the name is the text of undefined.
Undefined == <<117, 110, 100, 101, 102, 105, 110, 101, 100>>
MadeTrait(input) ==
    LET principal == MadePrincipal(input)
    IN IF principal # Thrown /\ Type(principal) = "address"
       THEN CV("contract", Value(principal) @@ [name |-> Undefined]) ELSE principal

encodeAbiBool(word) ==
    CASE word \in {"false", "0"} -> CV("false", <<>>)
      [] word \in {"true", "1"}  -> CV("true", <<>>)
      [] OTHER                   -> Thrown

RECURSIVE encodeAbiClarityValue(_, _)
encodeAbiClarityValue(input, type) ==
    CASE type[1] = "uint128"   -> MadeUInt(input)
      [] type[1] = "int128"    -> Made("int", input.signed)
      [] type[1] = "bool"      -> encodeAbiBool(input.word)
      [] type[1] = "principal" -> MadePrincipal(input)
      [] type[1] = "trait_reference" -> MadeTrait(input)
      [] type[1] = "none"      -> CV("none", <<>>)
      [] type[1] = "buffer"    -> Made("buffer", input.hex)
      [] type[1] = "string-ascii" -> CV("ascii", input.text)
      [] type[1] = "string-utf8"  -> CV("utf8", input.text)
      [] type[1] = "optional"  ->
            LET value == encodeAbiClarityValue(input, type[2])
            IN IF value = Thrown THEN Thrown ELSE CV("some", value)
      [] OTHER -> Thrown    \* response, tuple, list

\* Deprecated: a buffer is made of the characters of the text, not of its hex digits.
encodeClarityValue(input, type) ==
    IF type[1] = "buffer" THEN CV("buffer", utf8ToBytes(input.text))
    ELSE encodeAbiClarityValue(input, type)

parseToCV(input, type) ==
    CASE type[1] = "uint128"   -> MadeUInt(input)
      [] type[1] = "int128"    -> Made("int", input.signed)
      [] type[1] = "bool"      ->
            IF input.word \in {"true", "TRUE"} THEN CV("true", <<>>)
            ELSE IF input.word \in {"false", "FALSE"} THEN CV("false", <<>>) ELSE Thrown
      [] type[1] = "principal" -> MadePrincipal(input)
      [] type[1] = "buffer"    ->
            IF Len(utf8ToBytes(input.text)) > type[2] THEN Thrown
            ELSE CV("buffer", utf8ToBytes(input.text))
      [] OTHER -> Thrown

(***************************************************************************)
(* What a type means in Clarity (external): the reference the matching is  *)
(* held against. Lengths of text are in code points, and a tuple has the   *)
(* keys of its type and no others.                                         *)
(***************************************************************************)
RECURSIVE Inhabits(_, _)
Inhabits(cv, type) ==
    LET v == Value(cv)
        kind == type[1]
    IN CASE kind = "uint128" -> Type(cv) = "uint"
         [] kind = "int128"  -> Type(cv) = "int"
         [] kind = "bool"    -> Type(cv) \in {"true", "false"}
         [] kind = "principal" -> Type(cv) \in {"address", "contract"}
         [] kind = "trait_reference" -> Type(cv) = "contract"
         [] kind = "none"    -> Type(cv) = "none"
         [] kind = "buffer"  -> Type(cv) = "buffer" /\ Len(v) <= type[2]
         [] kind = "string-ascii" -> Type(cv) = "ascii" /\ Len(v) <= type[2]
         [] kind = "string-utf8"  -> Type(cv) = "utf8" /\ Len(v) <= type[2]
         [] kind = "optional" -> \/ Type(cv) = "none"
                                 \/ Type(cv) = "some" /\ Inhabits(v, type[2])
         [] kind = "response" -> \/ Type(cv) = "ok" /\ Inhabits(v, type[2].ok)
                                 \/ Type(cv) = "err" /\ Inhabits(v, type[2].error)
         [] kind = "list" -> /\ Type(cv) = "list"
                             /\ Len(v) <= type[2].length
                             /\ \A i \in DOMAIN v : Inhabits(v[i], type[2].type)
         [] kind = "tuple" -> /\ Type(cv) = "tuple"
                              /\ {v[i].key : i \in DOMAIN v} =
                                    {type[2][n].name : n \in DOMAIN type[2]}
                              /\ \A n \in DOMAIN type[2] : \A i \in FieldNamed(v, type[2][n].name) :
                                    Inhabits(v[i].value, type[2][n].type)

\* The value has a tuple with a key its type does not have; the type is one it matches.
RECURSIVE HasOtherKey(_, _)
HasOtherKey(cv, type) ==
    LET v == Value(cv)
    IN CASE Type(cv) \in {"some", "ok", "err"} ->
                HasOtherKey(v, IF Type(cv) = "some" THEN type[2]
                               ELSE IF Type(cv) = "ok" THEN type[2].ok ELSE type[2].error)
         [] Type(cv) = "list" -> \E i \in DOMAIN v : HasOtherKey(v[i], type[2].type)
         [] Type(cv) = "tuple" ->
                \/ Len(v) > Len(type[2])
                \/ \E n \in DOMAIN type[2] : \E i \in FieldNamed(v, type[2][n].name) :
                        HasOtherKey(v[i].value, type[2][n].type)
         [] OTHER -> FALSE

RECURSIVE HasAstralText(_)
HasAstralText(cv) ==
    LET v == Value(cv)
    IN CASE Type(cv) = "utf8" -> utf16Length(v) > Len(v)
         [] Type(cv) \in {"some", "ok", "err"} -> HasAstralText(v)
         [] Type(cv) = "list"  -> \E i \in DOMAIN v : HasAstralText(v[i])
         [] Type(cv) = "tuple" -> \E i \in DOMAIN v : HasAstralText(v[i].value)
         [] OTHER -> FALSE

\* matchType accepts the values of a type and no others, as far as it looks: for tuples
\* with the keys of their types, and text of characters JavaScript counts once.
MatchesInhabitants(cv, type) ==
    /\ matchType(cv, type) => Inhabits(cv, type) \/ HasOtherKey(cv, type)
    /\ Inhabits(cv, type) => matchType(cv, type) \/ HasAstralText(cv)

\* As its comment has it (contract-abi.ts:382), a call is valid if its arguments type check
\* against the interface.
ValidArgumentsInhabit(cv, type) == matchType(cv, type) => Inhabits(cv, type)

TooLong(cv, type) ==
    type[1] \in {"buffer", "string-ascii", "string-utf8"} /\ Len(Value(cv)) > type[2]

\* What parseToCV makes of a text matches the type; where the deprecated converter makes
\* something as well it is the same; and what encodeAbiClarityValue makes of a type without
\* other types inside matches it, unless it is too long, which only parseToCV looks at.
ConvertersAgree(input, type) ==
    LET parsed  == parseToCV(input, type)
        encoded == encodeAbiClarityValue(input, type)
        legacy  == encodeClarityValue(input, type)
    IN /\ parsed # Thrown => matchType(parsed, type)
       /\ parsed # Thrown /\ legacy # Thrown => parsed = legacy
       /\ encoded # Thrown /\ type[1] # "optional" =>
            matchType(encoded, type) \/ TooLong(encoded, type)
================================================================================
