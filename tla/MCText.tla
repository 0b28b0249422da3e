-------------------------------- MODULE MCText --------------------------------
(***************************************************************************)
(* Inputs for ClarityText: readable forms of every type, with the          *)
(* characters the parser treats specially.                                 *)
(***************************************************************************)
EXTENDS ClarityText

Strings == {<<>>} \cup {<<c>> : c \in {"a", "\"", "\\", " "}}
    \cup [1..2 -> {"a", "\"", "\\"}] \cup {<<"\\", "\\", "a">>, <<"\"", ")">>}
None == <<"none", <<>>>>
Leaves == {<<"int", [neg |-> n, digits |-> d]>> : n \in BOOLEAN, d \in Digits}
    \cup {<<"uint", d>> : d \in Digits}
    \cup {<<"buffer", bytes>> : bytes \in {<<>>, <<"00">>, <<"ff", "00">>}}
    \cup {<<"true", <<>>>>, None}
    \cup {<<"principal", p>> : p \in {<<"SP1">>, <<"SP1", ".", "a", "-", "1">>,
                                      <<"SP1", ".", "a", "_">>}}
    \cup {<<t, s>> : t \in {"ascii", "utf8"}, s \in Strings}
Small == {<<"int", [neg |-> TRUE, digits |-> "1"]>>, <<"buffer", <<>>>>,
          <<"ascii", <<"\\">>>>, None}
Names == {<<"a">>, <<"B">>, <<"a", "_">>, <<"a", "-", "B">>, <<"a", "1">>}
Entry(k, v) == [key |-> k, value |-> v]
Pairs == {p \in Names \X Names : p[1] # p[2]}
Nested == {<<t, v>> : t \in {"some", "ok", "err"}, v \in Leaves}
    \cup {<<"list", l>> : l \in {<<>>} \cup (Small \X Small)}
    \cup {<<"tuple", <<>>>>}
    \cup {<<"tuple", <<Entry(p[1], u), Entry(p[2], v)>>>> : p \in Pairs, u \in Small, v \in Small}
Texts == Leaves \cup Nested
    \cup {<<"some", v>> : v \in Nested}
    \cup {<<"list", <<v, None>>>> : v \in Nested}
    \cup {<<"tuple", <<Entry(<<"a">>, v), Entry(<<"B">>, None)>>>> : v \in Nested}
================================================================================
