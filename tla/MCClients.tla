------------------------------- MODULE MCClients -------------------------------
(***************************************************************************)
(* What an application does by itself before anything reaches a node: it   *)
(* encodes values, transactions and arguments, signs a user in, runs a     *)
(* command. These share no state, so a behaviour of this instance is one   *)
(* of three kinds: an input of the pure functions, an app and its session, *)
(* or one invocation of the command line.                                  *)
(***************************************************************************)
EXTENDS MCValues, SignIn, CommandLine, ClientInput

VARIABLE kind

Text      == INSTANCE MCText WITH SafeDigits <- {"1", "7"}
Wire      == INSTANCE MCWire WITH AmountBytes <- 2, MemoBytes <- 4, SignatureBytes <- 2,
                 KeyHalfBytes <- 1, CoinbaseBytes <- 2, VrfBytes <- 3, DigestBytes <- 2,
                 MaxString <- 8, MaxCode <- 10
Args      == INSTANCE MCArguments

inputVars == <<kind, input>>

(***************************************************************************)
(* Inputs                                                                  *)
(***************************************************************************)
\* Names of at most four characters, over a letter, a dot and one beyond ASCII.
Labels == UNION {[1..n -> {97, 46, 233}] : n \in 0..4}
Salts  == {<<>>, a, <<46, 97>>}

InputInit ==
    \/ input \in {<<"value", v, rest>> : v \in Values, rest \in {<<>>, <<3>>}}
    \/ input \in {<<"text", v>> : v \in Text!Texts}
    \/ input \in {<<"match", v, t>> : v \in Arguments, t \in Types}
    \/ input \in {<<"argument", i, t>> : i \in Inputs, t \in Types}
    \/ input \in {<<"transaction", tx, rest>> : tx \in Wire!Transactions, rest \in {<<>>, <<3, 0>>}}
    \/ input \in {<<"address", ad>> : ad \in Addresses}
    \/ input \in {<<"reward", v, Ones(n), network>> :
                      v \in 0..6, n \in {20, 32}, network \in Networks}
    \/ input \in {<<"stacking", p, o>> : p \in PoxInfos, o \in PoxOptions}
    \/ input \in {<<"cycle", h, first, length>> : h \in 0..9, first \in 0..9, length \in 1..4}
    \/ input \in {<<"name", fqn, salt>> : fqn \in Labels, salt \in Salts}
    \/ input \in {<<"line", line>> : line \in Args!CommandLines}

(***************************************************************************)
(* Responses of wallets: with and without app key and transit key, of every *)
(* version, early, late, and signed by another key than they name.         *)
(***************************************************************************)
Good(account, transitKey) == makeAuthResponse(account, account, "none", transitKey)
First == Good("ann", 1)
AllResponses ==
    {Good(account, k) : account \in Accounts, k \in TransitKeys}
    \cup {[First EXCEPT !.version = v] : v \in Versions}
    \cup {makeAuthResponse("ann", "ann", "ann", 1), makeAuthResponse("ann", "none", "ann", 1),
          makeAuthResponse("ann", "junk", "none", NoKey),
          [First EXCEPT !.profile = "url"], [First EXCEPT !.profile = "no"],
          [First EXCEPT !.signer = "bob"], [First EXCEPT !.iss = "bob"],
          [First EXCEPT !.keys = <<"ann", "bob">>],
          [First EXCEPT !.until = 0], [First EXCEPT !.from = 1]}

(***************************************************************************)
(* The three kinds                                                         *)
(***************************************************************************)
NoInput == <<"none">>
NoCommand ==
    /\ invocation = [command |-> "docs", args |-> <<>>, switches |-> {}, files |-> 0,
                     sameNetwork |-> TRUE]
    /\ pc = 1 /\ accepted = 0 /\ waited = 0 /\ said = "nothing" /\ exit = "0"

ClientsInit ==
    \/ kind = "input" /\ InputInit /\ Init /\ ~live /\ NoCommand
    \/ kind = "sign-in" /\ input = NoInput /\ Init /\ NoCommand
    \/ kind = "command" /\ input = NoInput /\ Init /\ ~live /\ CLIInit

Session == kind = "sign-in" /\ Next /\ UNCHANGED <<inputVars, commandVars>>
Run     == kind = "command" /\ CLIMain /\ UNCHANGED <<inputVars, vars>>

ClientsSpec ==
    /\ ClientsInit
    /\ [][Session \/ Run]_<<inputVars, vars, commandVars>>
    /\ SignInFairness /\ CLIFairness

(***************************************************************************)
(* The properties of the pure functions, for an input, and of the whole;   *)
(* those of SignIn and CommandLine hold of every kind of behaviour.        *)
(***************************************************************************)
\* Every Clarity value is read back from its bytes, whatever follows them, no part of the
\* bytes reads as a whole value, and the order in which a tuple's keys were set is not in
\* them (serializeCV, deserializeCV): Clarity.SelfDelimiting, OrderIndependent.
CodecFaithful ==
    Is("value") => SelfDelimiting(input[2], input[3]) /\ OrderIndependent(input[2])

\* What stringify and cvToString print, parse reads as the value that was printed, for the
\* values that have a readable form, and for no others: ClarityText.ReadableReadsBack.
TextReadsBack == Is("text") => Text!ReadableReadsBack(input[2])

\* matchType lets through the values of a type, the three converters of text make what it
\* lets through, and the calls of the stacking client fit the contract of their period and
\* are made when their options are complete: ContractInterface.MatchesInhabitants,
\* ConvertersAgree, StackingContracts.CallsFitTheContract.
InterfaceFaithful ==
    /\ Is("match") => MatchesInhabitants(input[2], input[3])
    /\ Is("argument") => ConvertersAgree(input[2], input[3])
    /\ Is("stacking") => CallsFitTheContract(input[2], input[3])

\* A transaction is read back from its bytes as it was, and its txid names one request,
\* whichever node takes it: TransactionWire.WireFaithful, OneTxid.
TransactionFaithful == Is("transaction") => Wire!Faithful(input[2], input[3])

\* Every argument of a command line arrives in its place, and every option, in whatever
\* order they are given: ArgParse.ArgumentsArrive.
ArgumentsArrive == Is("line") => Args!ArgumentsArrive(Args!Command, input[2])

\* Every command with a bound on its waiting ends, and every sign-in settles:
\* CommandLine.EveryCommandEnds, SignIn.SignInSettles.
ClientsSettle == EveryCommandEnds /\ SignInSettles

(***************************************************************************)
(* What the repository's comments say of the inputs.                       *)
(***************************************************************************)
\* The arguments of a valid call type check (contract-abi.ts:382):
\* ContractInterface.ValidArgumentsInhabit.
ValidArgumentsTypeCheck == Is("match") => ValidArgumentsInhabit(input[2], input[3])

\* No call to pox-4 goes out without the signature its options require
\* (stacking/src/index.ts:193): StackingContracts.SignatureIsRequired.
Pox4CallsAreSigned == Is("stacking") => SignatureIsRequired(input[2], input[3])

\* A call to pox-4 carries all that its options require (stacking/src/index.ts:191-197):
\* StackingContracts.SignerGoesAlong.
Pox4CallsNameTheirSigner == Is("stacking") => SignerGoesAlong(input[2], input[3])

\* Nothing is extended or increased before pox-2 (stacking/src/utils.ts:357-358):
\* StackingContracts.ExtendsInPoxTwo.
NothingExtendsInPoxOne == Is("stacking") => ExtendsInPoxTwo(input[2], input[3])
================================================================================
