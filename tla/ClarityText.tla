------------------------------ MODULE ClarityText ------------------------------
(***************************************************************************)
(* Clarity values as text: Cl.stringify (clarity/prettyPrint.ts),          *)
(* cvToString (clarity/clarityValue.ts) and Cl.parse (clarity/parser.ts).  *)
(*                                                                         *)
(* A text is a sequence of symbols: a mark, a word of the syntax, a space  *)
(* (a line break and its indentation are one), a run of digits or hex      *)
(* digits, an address, or one character of a name or of quoted text. A     *)
(* value is a pair <<type, content>>; the content of an integer is         *)
(* [neg, digits], of a tuple a sequence of entries, of other sequences and *)
(* principals a sequence of symbols.                                       *)
(***************************************************************************)
EXTENDS Integers, Sequences, SequencesExt, FiniteSets

CONSTANTS
    SafeDigits   \* the numbers a JavaScript number holds exactly (up to 2^53)

Fail == [ok |-> FALSE]

Parsed(value, rest) == [ok |-> TRUE, value |-> value, rest |-> rest]

Space == " "
Join(texts, separator) ==
    FlattenSeq([i \in DOMAIN texts |-> IF i = 1 THEN texts[i] ELSE separator \o texts[i]])

Sign(int) == IF int.neg THEN <<"-">> ELSE <<>>

\* Printed the same by both functions; strings are printed as they are, unescaped.
Atom(cv) ==
    LET v == cv[2]
    IN CASE cv[1] = "int"    -> Sign(v) \o <<v.digits>>
         [] cv[1] = "uint"   -> <<"u", v>>
         [] cv[1] = "buffer" -> <<"0x">> \o v
         [] cv[1] = "ascii"  -> <<"\"">> \o v \o <<"\"">>
         [] cv[1] = "utf8"   -> <<"u", "\"">> \o v \o <<"\"">>
         [] OTHER            -> <<cv[1]>>      \* true, false, none

Atoms == {"int", "uint", "buffer", "ascii", "utf8", "true", "false", "none"}

(***************************************************************************)
(* stringify. Its lines are sorted as text, so a tuple's keys come in the  *)
(* order of their characters: SymbolRank.                                  *)
(***************************************************************************)
SymbolRank(c) ==
    CASE c = "-" -> 1 [] c = "1" -> 2 [] c = ":" -> 3 [] c = "B" -> 4 [] c = "a" -> 5 [] OTHER -> 6

Before(a, b) ==
    \E k \in 0..Len(a) :
        /\ k < Len(b)
        /\ SubSeq(a, 1, k) = SubSeq(b, 1, k)
        /\ k < Len(a) => SymbolRank(a[k + 1]) < SymbolRank(b[k + 1])

LineOrder(entries) ==
    LET At(i) == Cardinality({j \in DOMAIN entries :
                    Before(Append(entries[j].key, ":"), Append(entries[i].key, ":"))})
    IN [n \in DOMAIN entries |-> entries[CHOOSE i \in DOMAIN entries : At(i) = n - 1]]

RECURSIVE prettyPrint(_, _)
prettyPrint(cv, indented) ==
    LET v == cv[2]
        end == IF indented THEN <<Space>> ELSE <<>>
    IN CASE cv[1] \in Atoms -> Atom(cv)
         [] cv[1] = "principal" -> <<"'">> \o v
         [] cv[1] \in {"some", "ok", "err"} ->
                <<"(", cv[1], Space>> \o prettyPrint(v, indented) \o <<")">>
         [] cv[1] = "list" /\ v = <<>> -> <<"(", "list", ")">>
         [] cv[1] = "list" ->
                <<"(", "list", Space>>
                \o Join([i \in DOMAIN v |-> prettyPrint(v[i], indented)], <<Space>>)
                \o end \o <<")">>
         [] cv[1] = "tuple" /\ v = <<>> -> <<"{", "}">>
         [] cv[1] = "tuple" ->
                LET lines == LineOrder(v)
                IN <<"{", Space>>
                   \o Join([i \in DOMAIN v |->
                        lines[i].key \o <<":", Space>> \o prettyPrint(lines[i].value, indented)],
                        <<",", Space>>)
                   \o <<Space, "}">>

RECURSIVE cvToString(_)
cvToString(cv) ==
    LET v == cv[2]
    IN CASE cv[1] \in Atoms -> Atom(cv)
         [] cv[1] = "principal" -> v
         [] cv[1] \in {"some", "ok", "err"} -> <<"(", cv[1], Space>> \o cvToString(v) \o <<")">>
         [] cv[1] = "list" ->
                <<"(", "list", Space>>
                \o Join([i \in DOMAIN v |-> cvToString(v[i])], <<Space>>) \o <<")">>
         [] cv[1] = "tuple" ->
                <<"(", "tuple", Space>>
                \o Join([i \in DOMAIN v |->
                     <<"(">> \o v[i].key \o <<Space>> \o cvToString(v[i].value) \o <<")">>], <<Space>>)
                \o <<")">>

(***************************************************************************)
(* parse. A combinator takes a text and gives the value it read and the    *)
(* rest, or Fail; `either` takes the first alternative that reads one.     *)
(***************************************************************************)
whitespace(s) == IF s # <<>> /\ Head(s) = Space THEN Parsed(<<>>, Tail(s)) ELSE Fail

optional(result, s) == IF result.ok THEN result ELSE Parsed(<<>>, s)

SkipSpace(s) == optional(whitespace(s), s).rest

Word(s, word) == IF s # <<>> /\ Head(s) = word THEN Parsed(<<>>, Tail(s)) ELSE Fail

Then(result, Next(_)) == IF result.ok THEN Next(result.rest) ELSE Fail
Map(result, F(_))     == IF result.ok THEN Parsed(F(result.value), result.rest) ELSE Fail

either(results) ==
    IF \E i \in DOMAIN results : results[i].ok
    THEN results[CHOOSE i \in DOMAIN results : results[i].ok /\ \A j \in 1..(i - 1) : ~results[j].ok]
    ELSE Fail

\* The longest beginning made of some characters, at least one of them.
Run(s, Chars) ==
    LET n == CHOOSE k \in 0..Len(s) : /\ \A i \in 1..k : s[i] \in Chars
                                      /\ k = Len(s) \/ s[k + 1] \notin Chars
    IN IF n = 0 THEN Fail ELSE Parsed(SubSeq(s, 1, n), SubSeq(s, n + 1, Len(s)))

\* What was read, if the word that closes it follows, after any white space.
Closed(result, word) ==
    LET close == Word(SkipSpace(result.rest), word)
    IN IF result.ok /\ close.ok THEN Parsed(result.value, close.rest) ELSE Fail

\* parens is a chain: white space may follow the first and precede the second one.
parens(s, Inner(_)) ==
    Then(Word(s, "("), LAMBDA rest : Closed(Inner(SkipSpace(rest)), ")"))

Digits    == SafeDigits \cup {"9007199254740993"}
HexDigits == {"00", "ff"}
Letters   == {"a", "B"}
Addresses == {"SP1"}

\* parseInt rounds to a JavaScript number. intToBigInt throws on one above 2^53, and an
\* exception ends the whole parse, but not on one below -2^53.
parseInt(neg, digits) ==
    IF digits \in SafeDigits THEN [neg |-> neg, digits |-> digits]
    ELSE [neg |-> neg, digits |-> "9007199254740992"]

clInt(s) ==
    LET minus  == Word(s, "-")
        digits == optional(minus, s).rest
    IN IF \/ digits = <<>>
          \/ Head(digits) \notin Digits
          \/ ~minus.ok /\ Head(digits) \notin SafeDigits
       THEN Fail
       ELSE Parsed(<<"int", parseInt(minus.ok, Head(digits))>>, Tail(digits))

clUint(s) ==
    Then(Word(s, "u"), LAMBDA rest :
        IF rest # <<>> /\ Head(rest) \in SafeDigits
        THEN Parsed(<<"uint", Head(rest)>>, Tail(rest)) ELSE Fail)

clConstant(s) ==
    IF s # <<>> /\ Head(s) \in {"true", "false", "none"}
    THEN Parsed(<<Head(s), <<>>>>, Tail(s)) ELSE Fail

clBuffer(s) ==
    Map(Then(Word(s, "0x"), LAMBDA rest : Run(rest, HexDigits)), LAMBDA v : <<"buffer", v>>)

clPrincipal(s) ==
    Then(Word(s, "'"), LAMBDA rest :
        IF rest = <<>> \/ Head(rest) \notin Addresses THEN Fail
        ELSE LET name == Then(Word(Tail(rest), "."), LAMBDA r : Run(r, Letters \cup {"1", "-"}))
                 contract == Map(name, LAMBDA v : <<Head(rest), ".">> \o v)
             IN Map(IF contract.ok THEN contract ELSE Parsed(<<Head(rest)>>, Tail(rest)),
                    LAMBDA v : <<"principal", v>>))

\* (\\.|[^"])* : a backslash takes the next character with it.
QuotedLength[s \in Seq(STRING)] ==
    CASE s = <<>> \/ Head(s) = "\"" -> 0
      [] Head(s) = "\\" /\ Len(s) > 1 -> 2 + QuotedLength[SubSeq(s, 3, Len(s))]
      [] OTHER -> 1 + QuotedLength[Tail(s)]

\* The two replacements of unescape, one after the other.
EveryPair[s \in Seq(STRING)] ==
    IF Len(s) < 2 THEN s
    ELSE IF s[1] = "\\" /\ s[2] = "\\" THEN <<"\\">> \o EveryPair[SubSeq(s, 3, Len(s))]
    ELSE <<s[1]>> \o EveryPair[Tail(s)]

EveryEscape[s \in Seq(STRING)] ==
    IF Len(s) < 2 THEN s
    ELSE IF s[1] = "\\" THEN <<s[2]>> \o EveryEscape[SubSeq(s, 3, Len(s))]
    ELSE <<s[1]>> \o EveryEscape[Tail(s)]

unescape(input) == EveryEscape[EveryPair[input]]

Quoted(s, type) ==
    Then(Word(s, "\""), LAMBDA rest :
        LET n == QuotedLength[rest]
            text == SubSeq(rest, 1, n)
        IN Map(Word(SubSeq(rest, n + 1, Len(rest)), "\""), LAMBDA v : <<type, unescape(text)>>))

\* Mutation: the pattern asks for a character between the quotes.
NonEmptyAscii(s) ==
    LET result == Quoted(s, "ascii")
    IN IF result.ok /\ result.value[2] = <<>> THEN Fail ELSE result

clAscii(s) == Quoted(s, "ascii")
clUtf8(s)  == Then(Word(s, "u"), LAMBDA rest : Quoted(rest, "utf8"))

\* [a-zA-Z][a-zA-Z0-9_]*
Key(s) == IF s # <<>> /\ Head(s) \in Letters THEN Run(s, Letters \cup {"1", "_"}) ELSE Fail

\* Object.assign: a key that comes again keeps its place and takes the later value.
Assign(entries, key, value) ==
    IF \E i \in DOMAIN entries : entries[i].key = key
    THEN [i \in DOMAIN entries |->
            IF entries[i].key = key THEN [key |-> key, value |-> value] ELSE entries[i]]
    ELSE Append(entries, [key |-> key, value |-> value])

RECURSIVE clValue(_), Items(_, _), CurlyEntries(_, _), FunctionEntries(_, _)

\* greedy(0, ...): as many values as there are, a space before each.
NextItem(item, s, got) ==
    IF item.ok THEN Items(item.rest, Append(got, item.value)) ELSE Parsed(got, s)

Items(s, got) == NextItem(Then(whitespace(s), clValue), s, got)

\* A key and what follows its separator, as one entry.
KeyAndValue(key, separated) ==
    Map(Then(Then(separated, whitespace), clValue), LAMBDA v : [key |-> key.value, value |-> v])

\* greedy(1, ..., separator): a comma may trail.
NextCurly(entry, s, got) ==
    LET more  == Assign(got, entry.value.key, entry.value.value)
        comma == Word(SkipSpace(entry.rest), ",")
    IN IF ~entry.ok THEN Parsed(got, s)
       ELSE IF comma.ok THEN CurlyEntries(SkipSpace(comma.rest), more)
       ELSE Parsed(more, entry.rest)

CurlyEntries(s, got) ==
    NextCurly(KeyAndValue(Key(s), Then(Key(s), LAMBDA rest : Word(SkipSpace(rest), ":"))), s, got)

NextFunction(entry, s, got) ==
    LET more == Assign(got, entry.value.key, entry.value.value)
    IN IF ~entry.ok THEN Parsed(got, s)
       ELSE IF whitespace(entry.rest).ok THEN FunctionEntries(SkipSpace(entry.rest), more)
       ELSE Parsed(more, entry.rest)

FunctionEntries(s, got) ==
    NextFunction(parens(s, LAMBDA rest : KeyAndValue(Key(rest), Key(rest))), s, got)

AtLeastOne(result) == IF result.ok /\ result.value = <<>> THEN Fail ELSE result

clList(s) ==
    Map(parens(s, LAMBDA rest : Then(Word(rest, "list"), LAMBDA r : Items(r, <<>>))),
        LAMBDA v : <<"list", v>>)

tupleCurly(s) ==
    Map(Then(Word(s, "{"), LAMBDA rest :
            Closed(AtLeastOne(CurlyEntries(SkipSpace(rest), <<>>)), "}")),
        LAMBDA v : <<"tuple", v>>)

tupleFunction(s) ==
    Map(parens(s, LAMBDA rest :
            Then(Then(Word(rest, "tuple"), whitespace), LAMBDA r : AtLeastOne(FunctionEntries(r, <<>>)))),
        LAMBDA v : <<"tuple", v>>)

\* clSome, clOk, clErr
clWrapped(s, type) ==
    Map(parens(s, LAMBDA rest : Then(Then(Word(rest, type), whitespace), clValue)),
        LAMBDA v : <<type, v>>)

clValue(s) ==
    either(<<clBuffer(s), clAscii(s), clUtf8(s), clInt(s), clUint(s), clConstant(s), clPrincipal(s),
             clList(s), tupleCurly(s), tupleFunction(s),
             clWrapped(s, "some"), clWrapped(s, "ok"), clWrapped(s, "err")>>)

\* No text is read by two alternatives, so `entire` may look at the one that reads it.
entire(result) == IF result.ok /\ result.rest # <<>> THEN Fail ELSE result

parse(s) == entire(clValue(s))

(***************************************************************************)
(* What survives a trip through text. Not every value does: quotes and     *)
(* backslashes are printed unescaped, a key or contract name may have      *)
(* characters the parser does not know, there is no syntax for an empty    *)
(* tuple or buffer, integers pass through JavaScript numbers, and          *)
(* cvToString prints a principal without the quote the parser asks for.    *)
(***************************************************************************)
RECURSIVE Sorted(_), Readable(_, _)
Sorted(cv) ==
    CASE cv[1] = "tuple" ->
            <<"tuple", LineOrder([i \in DOMAIN cv[2] |-> [cv[2][i] EXCEPT !.value = Sorted(@)]])>>
      [] cv[1] = "list" -> <<"list", [i \in DOMAIN cv[2] |-> Sorted(cv[2][i])]>>
      [] cv[1] \in {"some", "ok", "err"} -> <<cv[1], Sorted(cv[2])>>
      [] OTHER -> cv

Readable(cv, quoted) ==
    LET v == cv[2]
        Known(text, Chars) == \A i \in DOMAIN text : text[i] \in Chars
    IN CASE cv[1] = "int"  -> v.digits \in SafeDigits
         [] cv[1] = "uint" -> v \in SafeDigits
         [] cv[1] \in {"ascii", "utf8"} -> ~\E i \in DOMAIN v : v[i] \in {"\"", "\\"}
         [] cv[1] = "buffer" -> v # <<>>
         [] cv[1] = "principal" -> quoted /\ ~\E i \in DOMAIN v : v[i] = "_"
         [] cv[1] = "list" -> \A i \in DOMAIN v : Readable(v[i], quoted)
         [] cv[1] = "tuple" ->
                /\ v # <<>>
                /\ \A i \in DOMAIN v : /\ Known(v[i].key, Letters \cup {"1", "_"})
                                       /\ Readable(v[i].value, quoted)
         [] cv[1] \in {"some", "ok", "err"} -> Readable(v, quoted)
         [] OTHER -> TRUE

ReadsBack(result, cv) == result.ok /\ Sorted(result.value) = Sorted(cv)

\* stringify, with and without indentation, and cvToString print what parse reads back, for
\* the readable values and no others.
ReadableReadsBack(cv) ==
    /\ \A indented \in BOOLEAN : ReadsBack(parse(prettyPrint(cv, indented)), cv) <=> Readable(cv, TRUE)
    /\ ReadsBack(parse(cvToString(cv)), cv) <=> Readable(cv, FALSE)
================================================================================
