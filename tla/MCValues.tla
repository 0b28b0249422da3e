------------------------------- MODULE MCValues -------------------------------
(***************************************************************************)
(* Inputs for Clarity, ContractInterface and Stacking: values with every   *)
(* type and one level of nesting, at the edges of the widths; types that   *)
(* fit them and that do not; addresses, periods and options.               *)
(***************************************************************************)
EXTENDS StackingContracts

a == <<97>>
b == <<98>>
Account  == [version |-> 22, hash160 |-> <<7>>]
Standard == CV("address", Account)
Contract == CV("contract", Account @@ [name |-> a])
Number(n) == [number |-> n, bytes |-> <<>>]
Entry(k, v) == [key |-> k, value |-> v]
Wrapped(types, values) == {CV(t, v) : t \in types, v \in values}

(***************************************************************************)
(* Values to serialize                                                     *)
(***************************************************************************)
Leaves ==
    {intCV(Number(n)) : n \in {MinInt, -1, 0, 255, 256, MaxInt}} \cup
    {uintCV(Number(n)) : n \in {0, 255, MaxUInt}} \cup
    {CV("buffer", bytes) : bytes \in {<<>>, <<255, 1>>}} \cup
    {CV("true", <<>>), CV("none", <<>>), Standard, Contract} \cup
    Wrapped({"utf8", "ascii"}, {<<>>, <<34, 92>>, <<233>>})
SmallLeaves == {intCV(Number(-1)), CV("utf8", <<233>>), CV("none", <<>>)}
\* Names whose order differs between code points, locales and insertion.
KeyNames == {a, <<66>>, <<97, 45, 98>>, <<97, 98>>}
Pairs == {p \in KeyNames \X KeyNames : p[1] # p[2]}
Nested ==
    Wrapped({"some", "ok", "err"}, Leaves) \cup
    {CV("list", l) : l \in {<<>>} \cup (SmallLeaves \X SmallLeaves)} \cup
    {CV("tuple", <<Entry(p[1], u), Entry(p[2], v)>>) :
        p \in Pairs, u \in SmallLeaves, v \in SmallLeaves}
Values == Leaves \cup Nested \cup Wrapped({"some"}, Nested)
    \cup {CV("list", <<v, CV("none", <<>>)>>) : v \in Nested}

(***************************************************************************)
(* Values, types and inputs of contract calls                              *)
(***************************************************************************)
Emoji == CV("utf8", <<128512>>)     \* one code point, two UTF-16 units
Basic == {intCV(Number(-1)), uintCV(Number(1)), CV("buffer", <<0, 1>>), CV("true", <<>>),
          CV("none", <<>>), Standard, Contract, CV("ascii", a), CV("utf8", <<97, 98>>), Emoji}
Few == {intCV(Number(-1)), Emoji}
Arguments == Basic \cup Wrapped({"some", "ok", "err"}, Basic)
    \cup {CV("list", l) : l \in {<<>>} \cup {<<v>> : v \in Basic} \cup (Few \X Few)}
    \cup {CV("tuple", t) : t \in {<<>>} \cup {<<Entry(a, u)>> : u \in Few}
            \cup {<<Entry(a, u), Entry(b, v)>> : u \in Few, v \in Few}}

Sized == {<<k, n>> : k \in {"buffer", "string-ascii", "string-utf8"}, n \in {1, 2}}
Plain == {<<p>> : p \in Primitive} \cup Sized
FewTypes == {<<"int128">>, <<"string-utf8", 1>>, <<"optional", <<"int128">>>>}
Member(name, type) == [name |-> name, type |-> type]
Types == Plain
    \cup {<<"optional", t>> : t \in Plain}
    \cup {<<"response", [ok |-> t, error |-> u]>> : t \in Plain, u \in FewTypes}
    \cup {<<"list", [type |-> t, length |-> n]>> : t \in Plain, n \in {1, 2}}
    \cup {<<"tuple", <<Member(a, t)>>>> : t \in FewTypes}
    \cup {<<"tuple", <<Member(a, t), Member(b, u)>>>> : t \in FewTypes, u \in FewTypes}

Typed(word, number, signed, hex, principal, text) ==
    [word |-> word, number |-> number, signed |-> signed, hex |-> hex,
     principal |-> principal, text |-> text]
Inputs == {
    Typed("", <<0>>, <<0>>, <<<<>>>>, <<>>, <<>>),
    Typed("7", <<7>>, <<7>>, <<<<7>>>>, <<>>, <<55>>),
    Typed("1", <<1>>, <<1>>, <<<<1>>>>, <<>>, <<49>>),
    Typed("-7", <<-7>>, <<-7>>, <<>>, <<>>, <<45, 55>>),
    Typed("0xff", <<255>>, <<-1>>, <<<<255>>>>, <<>>, <<48, 120, 102, 102>>),
    Typed("true", <<>>, <<>>, <<>>, <<>>, <<116, 114, 117, 101>>),
    Typed("FALSE", <<>>, <<>>, <<>>, <<>>, <<70, 65, 76, 83, 69>>),
    Typed("SP1", <<>>, <<>>, <<>>, <<Standard>>, <<83, 80, 49>>),
    Typed("SP1.a", <<>>, <<>>, <<>>, <<Contract>>, <<83, 80, 49, 46, 97>>)}

(***************************************************************************)
(* Bitcoin addresses, periods and options of the stacking calls            *)
(***************************************************************************)
Ones(n) == [i \in 1..n |-> 1]
Base58Address(version) == [form |-> "base58", version |-> version, hrp |-> "", data |-> Ones(20)]
SegwitAddress(form, version, hrp, n) ==
    [form |-> form, version |-> version, hrp |-> hrp, data |-> Ones(n)]
Addresses == {Base58Address(v) : v \in {0, 5, 111, 196, 7}}
    \cup {SegwitAddress(f, v, hrp, n) : f \in {"bech32", "bech32m"}, v \in 0..2,
              hrp \in {"bc", "tb", "bcrt", "xx"}, n \in {20, 32}}
RewardAddresses == {Base58Address(0), Base58Address(5), SegwitAddress("bech32", 0, "bc", 20),
                    SegwitAddress("bech32", 0, "bc", 32), SegwitAddress("bech32m", 1, "bc", 32)}

Period(name, activation) == [name |-> name, activation |-> activation]
Periods == <<Period("pox", 1), Period("pox-2", 2), Period("pox-3", 3), Period("pox-4", 4)>>
PoxInfos == {[height |-> h, contract |-> Periods[h].name, contracts |-> order] :
                 h \in 1..4, order \in {Periods, Reverse(Periods)}}

Optional(n) == {<<>>, <<0>>, <<n>>}
PoxOptions ==
    {[amount |-> 3, poxAddress |-> to, burnHeight |-> 1, cycles |-> 2, until |-> u,
      principal |-> Standard, rewardCycle |-> 1, rewardIndex |-> 0, topic |-> a,
      signerKey |-> k, signerSignature |-> s, maxAmount |-> m, authId |-> i] :
        to \in {<<ad>> : ad \in RewardAddresses}, u \in Optional(5),
        k \in {<<>>, <<Ones(33)>>}, s \in {<<>>, <<Ones(65)>>},
        m \in Optional(5), i \in Optional(5)}
================================================================================
