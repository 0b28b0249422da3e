------------------------------ MODULE MCArguments ------------------------------
(***************************************************************************)
(* Inputs for ArgParse: command lines of infer_wait, which takes a text,   *)
(* an amount and a key, with the switches and keywords anywhere.           *)
(***************************************************************************)
EXTENDS TLC

\* What the patterns of the schema match, of the words used here.
Patterns == [text |-> {"12", "ab", "-x", "-", "-5", "ef"}, digits |-> {"12"}, key |-> {"ef"},
             multisigKey |-> {}, segwitKey |-> {}, nosign |-> {},
             startsWithDash |-> {"-", "-x", "-5", "--task_id"}]
KeywordOf(word) ==
    CASE word = "--task_id" -> <<"task_id">>
      [] word = "--timeout_seconds" -> <<"timeout_seconds">>
      [] word = "--private_key" -> <<"private_key">>
      [] word = "--nothing" -> <<"nothing">>
      [] OTHER -> <<>>

INSTANCE ArgParse WITH Matches <- Patterns, Keyword <- KeywordOf

Command == "infer_wait"
Piece(kind, words) == [kind |-> kind, words |-> words]
Spoken1 == {Piece("plain", <<w>>) : w \in {"12", "ab", "ef", "-5"}}
    \cup {Piece("keyword", <<n, w>>) : n \in {"--task_id", "--timeout_seconds"},
                                       w \in {"12", "ab"}}
SwitchPieces == {Piece("switch", <<"-x">>), Piece("valued", <<"-c", "ab">>),
             Piece("valued", <<"-c", "-x">>)}
Lines == UNION {[1..n -> Spoken1] : n \in 0..3}
\* One switch at any place.
With(line) == {line} \cup
    {SubSeq(line, 1, i) \o <<s>> \o SubSeq(line, i + 1, Len(line)) :
        i \in 0..Len(line), s \in SwitchPieces}
CommandLines == UNION {With(<<Piece("command", <<Command>>)>> \o line) : line \in Lines}
================================================================================
