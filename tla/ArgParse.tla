-------------------------------- MODULE ArgParse --------------------------------
(***************************************************************************)
(* How the words of a command line become a command's arguments: getCLIOpts,*)
(* getCommandArgs and checkArgs of argparse.ts.                            *)
(*                                                                         *)
(* A word is a string, "" a word already taken. An optional thing is a     *)
(* sequence of at most one element. Matches says which words fit a pattern.*)
(***************************************************************************)
EXTENDS CommandSchemas, SequencesExt

CONSTANTS Matches,      \* [pattern -> set of words]
          Keyword(_)    \* a word that starts with -- as <<the rest of it>>, else <<>>

Switches == <<"-d", "-e", "-i", "-t", "-l", "-U", "-x">>
Valued == <<"-C", "-F", "-B", "-P", "-D", "-G", "-N", "-H", "-T", "-I", "-S", "-m", "-M",
            "-X", "-u", "-p", "-c">>
optsTable == [flag \in {Switches[i] : i \in DOMAIN Switches} |-> <<"off">>]
             @@ [flag \in {Valued[i] : i \in DOMAIN Valued} |-> <<"unset">>]

\* One option at a time goes over all the words up to --. A switch seen a second time is
\* no longer false, so it takes the next word like an option with a value.
RECURSIVE TakeOption(_, _, _, _)
TakeOption(words, opt, i, value) ==
    IF i > Len(words) \/ (i <= Len(words) /\ words[i] = "--")
    THEN [words |-> words, value |-> value]
    ELSE IF words[i] # opt THEN TakeOption(words, opt, i + 1, value)
    ELSE IF value = <<"off">>
    THEN TakeOption([words EXCEPT ![i] = ""], opt, i + 1, <<"on">>)
    ELSE TakeOption([j \in DOMAIN words |-> IF j \in {i, i + 1} THEN "" ELSE words[j]], opt,
                    i + 1,
                    IF i < Len(words) THEN <<"text", words[i + 1]>> ELSE <<"missing">>)

RECURSIVE TakeOptions(_, _, _)
TakeOptions(words, opts, table) ==
    IF opts = <<>> THEN [words |-> words, table |-> table]
    ELSE LET taken == TakeOption(words, Head(opts), 1, table[Head(opts)])
         IN TakeOptions(taken.words, Tail(opts), [table EXCEPT ![Head(opts)] = taken.value])

getCLIOpts(argv) ==
    LET scanned == TakeOptions(argv, Switches \o Valued, optsTable)
    IN [options |-> scanned.table,
        rest |-> SelectSeq(scanned.words, LAMBDA word : word \notin {"", "--"})]

\* CLIMain reads a switch as a boolean and an option with a value as text; a switch that
\* took a word is neither, and the program stops.
CLIOptAsBool(value) ==
    CASE value = <<"on">> -> <<TRUE>>
      [] value = <<"off">> -> <<FALSE>>
      [] OTHER -> <<>>
CLIOptAsString(value) == IF value[1] = "text" THEN <<value[2]>> ELSE <<>>

Failure(why) == [status |-> FALSE, error |-> why, found |-> <<>>, ordered |-> <<>>]

\* The first pass: what is given by keyword, and what is left. A word that starts with a
\* dash and is not a keyword is dropped.
RECURSIVE ScanKeywords(_, _, _, _)
ScanKeywords(items, words, found, ordered) ==
    IF words = <<>>
    THEN [status |-> TRUE, error |-> "", found |-> found, ordered |-> ordered]
    ELSE IF Keyword(Head(words)) # <<>>
    THEN LET name == Keyword(Head(words))[1]
         IN IF name \in DOMAIN found THEN Failure("duplicate argument")
            ELSE IF \A i \in DOMAIN items : items[i].name # name
            THEN Failure("no such argument")
            ELSE IF Len(words) = 1 THEN Failure("no value for argument")
            ELSE ScanKeywords(items, Tail(Tail(words)), found @@ (name :> words[2]), ordered)
    ELSE ScanKeywords(items, Tail(words), found,
                      IF Head(words) \in Matches["startsWithDash"] \ {"-"} THEN ordered
                      ELSE Append(ordered, Head(words)))

\* Mutation: an item takes the word at its own place, whatever was given by keyword.
MergeByPlace(items, found, ordered) ==
    [i \in DOMAIN items |->
        IF items[i].name \in DOMAIN found THEN <<found[items[i].name]>>
        ELSE IF i <= Len(ordered) THEN <<ordered[i]>> ELSE <<>>]

\* The second pass: an item not given by keyword takes the next of the others.
RECURSIVE MergeArgs(_, _, _)
MergeArgs(items, found, ordered) ==
    IF items = <<>> THEN <<>>
    ELSE LET name == Head(items).name
         IN IF name \in DOMAIN found
            THEN <<<<found[name]>>>> \o MergeArgs(Tail(items), found, ordered)
            ELSE IF ordered # <<>>
            THEN <<<<Head(ordered)>>>> \o MergeArgs(Tail(items), found, Tail(ordered))
            ELSE <<<<>>>> \o MergeArgs(Tail(items), found, ordered)

getCommandArgs(command, words) ==
    LET items == CLI_ARGS[command].items
        scan == ScanKeywords(items, words, <<>>, <<>>)
    IN [status |-> scan.status, error |-> scan.error,
        arguments |-> IF scan.status THEN MergeArgs(items, scan.found, scan.ordered) ELSE <<>>]

\* An argument that need not be given and was not is null to the schema; one that has to
\* be is still undefined, and fails as not being text.
Conforms(item, argument, required) ==
    IF argument = <<>> THEN ~required
    ELSE item.patterns = Anything
         \/ \E pattern \in item.patterns : argument[1] \in Matches[pattern]

checkArgs(argList) ==
    IF Len(argList) <= 2
    THEN [success |-> FALSE, command |-> "", args |-> <<>>, error |-> "No command given"]
    ELSE IF argList[3] \notin DOMAIN CLI_ARGS
    THEN [success |-> FALSE, command |-> argList[3], args |-> <<>>,
          error |-> "Unrecognized command"]
    ELSE LET schema == CLI_ARGS[argList[3]]
             parsed == getCommandArgs(argList[3], SubSeq(argList, 4, Len(argList)))
             valid == \A i \in DOMAIN parsed.arguments :
                         Conforms(schema.items[i], parsed.arguments[i], i <= schema.minItems)
         IN [success |-> parsed.status /\ valid, command |-> argList[3],
             args |-> IF parsed.status /\ valid THEN parsed.arguments ELSE <<>>,
             error |-> IF ~parsed.status THEN parsed.error
                       ELSE IF valid THEN "" ELSE "Invalid command arguments"]

(***************************************************************************)
(* What the words were meant to say: a sequence of pieces, each a switch,  *)
(* an option and its value, a keyword and its value, or a plain argument,  *)
(* in any order around the command.                                        *)
(***************************************************************************)
Spoken(pieces) == FlattenSeq([i \in DOMAIN pieces |-> pieces[i].words])
Of(kind, pieces) == SelectSeq(pieces, LAMBDA piece : piece.kind = kind)
LastOf(flag, pieces) == SelectLastInSeq(pieces, LAMBDA piece : piece.words[1] = flag)

\* No word of an argument reads as an option or, given plainly, starts with a dash; no
\* switch is repeated; a keyword is an item of the command, given once; and no more plain
\* arguments than items are left for.
Plain(command, pieces) ==
    LET items == CLI_ARGS[command].items
        keywords == Of("keyword", pieces)
        switches == Of("switch", pieces)
    IN /\ \A i \in DOMAIN pieces : pieces[i].kind \in {"keyword", "plain", "valued"} =>
              pieces[i].words[Len(pieces[i].words)] \notin DOMAIN optsTable \cup {"--"}
       /\ \A i \in DOMAIN pieces :
              pieces[i].kind = "plain" => pieces[i].words[1] \notin Matches["startsWithDash"]
       /\ \A i, j \in DOMAIN keywords : i # j => keywords[i].words[1] # keywords[j].words[1]
       /\ \A i, j \in DOMAIN switches : i # j => switches[i] # switches[j]
       /\ \A i \in DOMAIN keywords : \E k \in DOMAIN items :
              Keyword(keywords[i].words[1]) = <<items[k].name>>
       /\ Len(keywords) + Len(Of("plain", pieces)) <= Len(items)

\* The argument an item is meant to get: its keyword's value, or the plain argument that
\* is as far along as the item is among the items that have no keyword.
Meant(command, pieces, k) ==
    LET items == CLI_ARGS[command].items
        plain == Of("plain", pieces)
        Named(j) == {i \in DOMAIN pieces : /\ pieces[i].kind = "keyword"
                                          /\ Keyword(pieces[i].words[1]) = <<items[j].name>>}
        place == Cardinality({j \in 1..k : Named(j) = {}})
    IN IF Named(k) # {} THEN <<pieces[CHOOSE i \in Named(k) : TRUE].words[2]>>
       ELSE IF place <= Len(plain) THEN <<plain[place].words[1]>> ELSE <<>>

\* Wherever the options stand and whichever arguments are named, the handler gets each
\* argument in its item's place and CLIMain each option; and the words are refused exactly
\* when an argument the help shows as required is missing or one does not fit its item.
ArgumentsArrive(command, pieces) ==
    LET parsed == getCLIOpts(<<"node", "stx">> \o Spoken(pieces))
        checked == checkArgs(parsed.rest)
        items == CLI_ARGS[command].items
        meant == [k \in DOMAIN items |-> Meant(command, pieces, k)]
    IN Plain(command, pieces) =>
       /\ \A flag \in {Switches[i] : i \in DOMAIN Switches} :
             CLIOptAsBool(parsed.options[flag])
                = <<\E i \in DOMAIN pieces : pieces[i].words = <<flag>>>>
       /\ \A flag \in {Valued[i] : i \in DOMAIN Valued} :
             CLIOptAsString(parsed.options[flag])
                = IF LastOf(flag, pieces) = 0 THEN <<>>
                  ELSE <<pieces[LastOf(flag, pieces)].words[2]>>
       /\ checked.success =
             \A k \in DOMAIN items :
                 Conforms(items[k], meant[k], ~formatCommandHelpLines(command)[k].optional)
       /\ checked.success => checked.args = meant /\ checked.command = command

================================================================================
