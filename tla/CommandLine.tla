------------------------------ MODULE CommandLine ------------------------------
(***************************************************************************)
(* The commands of cli.ts, from the arguments the schema let through to    *)
(* the exit status.                                                        *)
(*                                                                         *)
(* A handler is the sequence of what it does that can end the command or   *)
(* change something outside: it asks (the disk, the network, the user, a   *)
(* decoder) and may get an error, it needs an argument in a certain form,  *)
(* it stops for -x or -e, it submits. `fails` says where an error ends up: *)
(* "exit", the error is printed and the status is 1, or "print", a catch   *)
(* of the handler turns it into the result, and the status is 0.           *)
(***************************************************************************)
EXTENDS Naturals, Sequences, FiniteSets

CONSTANTS MaxFiles,     \* bound on the files in a directory to restore
          Patience      \* how many polls fit in a timeout

Schemas == INSTANCE CommandSchemas
Commands == DOMAIN Schemas!CLI_ARGS

Needs(i, fails) == <<"needs", i, fails>>    \* uses argument i, given or not
Key(i, fails)   == <<"key", i, fails>>      \* uses argument i as one private key
Asks(fails)     == <<"asks", fails>>
Checks(fails)   == <<"checks", fails>>      \* refuses, unless -U
Mainnet         == <<"mainnet">>            \* throws with -t
DryRun(flag)    == <<"dry", flag>>
MayStop         == <<"stop">>               \* may have nothing to do
Polls(i)        == <<"polls", i>>           \* until there is an answer or i seconds passed
Searches        == <<"searches">>           \* derives one key after another
\* One submission; an answer that it was refused is thrown, printed or not looked at.
Submits(refusal, fails) == <<"submits", refusal, fails>>
SubmitsAll(n)   == <<"all", n>>             \* n files at the same time

Raised == "throws"
broadcastTransaction == Submits("printed", "print")

(***************************************************************************)
(* Helpers of utils.ts, keys.ts and data.ts                                *)
(***************************************************************************)
\* A ciphertext is decrypted with a password that is asked for.
getBackupPhrase == <<Asks("exit")>>
getNameInfoEasy == <<Asks("exit")>>
getIDAddress == <<Asks("exit")>>
getOwnerKeyInfo == <<Asks("exit")>>
\* The index is searched for up to a bound, comparing addresses of the same network.
findIdentityIndex == <<Asks("exit")>>
getApplicationKeyInfo == findIdentityIndex
\* Without a bound, comparing with the address as it was given.
getOwnerKeyFromIDAddress == <<Searches>>
getIDAppKeys ==
    getBackupPhrase \o getIDAddress \o getApplicationKeyInfo \o getOwnerKeyFromIDAddress
gaiaAuth == <<Mainnet, Asks("exit")>>
gaiaConnect(fails) == <<Asks(fails)>>
gaiaFindProfileName(fails) == <<Asks(fails)>>
gaiaUploadProfile(fails) ==
    gaiaConnect(fails) \o gaiaFindProfileName(fails) \o <<Submits(Raised, fails)>>
\* A hub that is not a URL is left out, an error becomes part of the result.
gaiaUploadProfileAll(hub) == IF hub = "malformed" THEN <<>> ELSE gaiaUploadProfile("print")

(***************************************************************************)
(* Keys, names and profiles                                                *)
(***************************************************************************)
profileSign == <<Asks("exit")>>
profileVerify == <<Asks("exit")>>
profileStore(args) ==
    <<Asks("exit")>> \o getNameInfoEasy \o profileVerify \o <<Checks("exit")>>
    \o gaiaUploadProfileAll(args[4])
getAppKeys == getBackupPhrase \o <<Asks("exit")>>
getOwnerKeys == getBackupPhrase \o getOwnerKeyInfo
getPaymentKey == getBackupPhrase
getStacksWalletKey == getBackupPhrase \o <<Asks("exit")>>
\* Mutation: the backup phrase is not optional.
KeychainFromPhrase(args) == <<Needs(1, "exit")>> \o getBackupPhrase \o <<Asks("exit")>>
makeKeychain(args) ==
    (IF args[1] = "null" THEN <<>> ELSE getBackupPhrase) \o <<Asks("exit")>>
\* Nothing to migrate, or nothing the user agreed to, and no request is sent.
migrateSubdomains ==
    getBackupPhrase \o <<Asks("exit"), MayStop, Submits("printed", "print")>>
encryptMnemonic == <<Asks("exit"), Asks("print")>>
decryptMnemonic == <<Asks("print")>>
getKeyAddress == <<Asks("exit")>>
addressConvert == <<Asks("exit")>>
decodeCV == <<Asks("exit")>>
printDocs == <<>>

(***************************************************************************)
(* Gaia                                                                    *)
(***************************************************************************)
gaiaGetFile == gaiaAuth \o <<Asks("exit")>>
gaiaPutFile == <<Asks("exit")>> \o gaiaAuth \o <<Submits(Raised, "exit")>>
gaiaDeleteFile == gaiaAuth \o <<Submits(Raised, "exit")>>
gaiaListFiles == gaiaAuth \o <<Asks("exit")>>
gaiaDumpBucket == <<Asks("exit")>> \o getIDAppKeys \o gaiaAuth \o gaiaConnect("exit")
                  \o <<Asks("exit"), Asks("exit")>>
gaiaRestoreBucket(files) ==
    <<Asks("exit")>> \o getIDAppKeys \o gaiaAuth \o <<SubmitsAll(files)>>
gaiaSetHub == getNameInfoEasy \o getBackupPhrase \o <<Asks("exit")>> \o getApplicationKeyInfo
              \o getOwnerKeyInfo \o gaiaConnect("exit") \o gaiaUploadProfile("print")

(***************************************************************************)
(* Accounts, transactions and contracts                                    *)
(***************************************************************************)
balance == <<Asks("print")>>
getAccountHistory == <<Asks("exit")>>
faucetCall == <<Submits(Raised, "print")>>
\* Mutation: the switches are looked at when the transaction has gone out.
SendFirst ==
    <<Key(5, "exit"), Asks("exit"), broadcastTransaction, DryRun("e"), DryRun("x")>>
sendTokens ==
    <<Key(5, "exit"), Asks("exit"), DryRun("e"), DryRun("x"), broadcastTransaction>>
contractDeploy ==
    <<Asks("exit"), Key(5, "exit"), DryRun("e"), DryRun("x"), broadcastTransaction>>
contractFunctionCall ==
    <<Asks("exit"), Asks("exit"), Key(6, "exit"), Asks("exit"), DryRun("e"), DryRun("x"),
      broadcastTransaction>>
readOnlyContractFunctionCall == <<Asks("print"), Asks("print")>>
register == <<Asks("exit"), broadcastTransaction>>
preorder == <<Key(2, "exit"), Asks("exit"), broadcastTransaction>>

(***************************************************************************)
(* Inference and stacking                                                  *)
(***************************************************************************)
infer(args) ==
    <<Needs(9, "exit"), Key(8, "exit"), Checks("exit")>>
    \o IF args[9] = "true" THEN <<Submits(Raised, "print")>>
       ELSE <<Asks("exit"), DryRun("e"), DryRun("x"), Submits(Raised, "print")>>
inferStatus == <<Key(2, "print"), Asks("print")>>
inferWait == <<Key(2, "print"), Polls(3)>>
\* Mutation: the answer to the broadcast is not looked at.
StakeUnheard ==
    <<MayStop, Key(4, "print"), Needs(6, "print"), Asks("print"), Submits("ignored", "print")>>
\* A fee left out has a default, a nonce left out is undefined where a number is needed.
inferStake ==
    <<MayStop, Key(4, "print"), Needs(6, "print"), Asks("print"), Submits("printed", "print")>>
inferStakeInfo == <<Asks("print")>>
inferUnlock ==
    <<Key(1, "print"), Needs(3, "print"), Asks("print"), Submits("ignored", "print")>>
stackingStatus == <<Asks("print")>>
canStackCommand == <<Asks("print")>>
stackCommand == <<Key(4, "exit"), Asks("print"), broadcastTransaction>>
stackExtendCommand == <<Key(3, "exit"), Asks("exit"), Asks("exit"), broadcastTransaction>>

\* The table of commands; a command without a handler is not a function to call.
COMMANDS(command, args, files) ==
    CASE command = "balance" -> balance
      [] command = "can_stack" -> canStackCommand
      [] command = "call_contract_func" -> contractFunctionCall
      [] command = "call_read_only_contract_func" -> readOnlyContractFunctionCall
      [] command = "decode_cv" -> decodeCV
      [] command = "convert_address" -> addressConvert
      [] command = "decrypt_keychain" -> decryptMnemonic
      [] command = "deploy_contract" -> contractDeploy
      [] command = "docs" -> printDocs
      [] command = "encrypt_keychain" -> encryptMnemonic
      [] command = "gaia_deletefile" -> gaiaDeleteFile
      [] command = "gaia_dump_bucket" -> gaiaDumpBucket
      [] command = "gaia_getfile" -> gaiaGetFile
      [] command = "gaia_listfiles" -> gaiaListFiles
      [] command = "gaia_putfile" -> gaiaPutFile
      [] command = "gaia_restore_bucket" -> gaiaRestoreBucket(files)
      [] command = "gaia_sethub" -> gaiaSetHub
      [] command = "get_address" -> getKeyAddress
      [] command = "get_account_history" -> getAccountHistory
      [] command = "get_app_keys" -> getAppKeys
      [] command = "get_owner_keys" -> getOwnerKeys
      [] command = "get_payment_key" -> getPaymentKey
      [] command = "get_stacks_wallet_key" -> getStacksWalletKey
      [] command = "make_keychain" -> makeKeychain(args)
      [] command = "profile_sign" -> profileSign
      [] command = "profile_store" -> profileStore(args)
      [] command = "profile_verify" -> profileVerify
      [] command = "register" -> register
      [] command = "tx_preorder" -> preorder
      [] command = "send_tokens" -> sendTokens
      [] command = "infer" -> infer(args)
      [] command = "infer_status" -> inferStatus
      [] command = "infer_wait" -> inferWait
      [] command = "infer_stake" -> inferStake
      [] command = "infer_stake_info" -> inferStakeInfo
      [] command = "infer_unlock" -> inferUnlock
      [] command = "stack" -> stackCommand
      [] command = "stack_extend" -> stackExtendCommand
      [] command = "migrate_subdomains" -> migrateSubdomains
      [] command = "stacking_status" -> stackingStatus
      [] command = "faucet" -> faucetCall
      [] OTHER -> <<<<"uncallable">>>>

(***************************************************************************)
(* A run of the program, after checkArgs. Arguments are told apart by what *)
(* handlers ask of them: a value that fits its item is "given", a key is   *)
(* one key or a bundle, free text may be malformed, and null is an         *)
(* argument not given.                                                     *)
(***************************************************************************)
VARIABLES
    invocation,     \* the command, its arguments, the switches; the files of the
                    \* directory; whether an identity address is in the form the network uses
    pc,             \* the next step of the handler
    accepted,       \* how many submissions were accepted outside
    waited,         \* polls, or keys, tried so far
    said,           \* what the program printed last
    exit            \* the exit status, or "running"
commandVars == <<invocation, pc, accepted, waited, said, exit>>

ItemValues(item, required) ==
    (CASE item.patterns = Schemas!PRIVATE_KEY_PATTERN_ANY -> {"key", "bundle"}
       [] item.patterns = {"boolean"} -> {"true", "false"}
       [] item.patterns = Schemas!Anything -> {"given", "malformed"}
       [] OTHER -> {"given"})
    \cup IF required THEN {} ELSE {"null"}

\* The argument lists checkArgs lets through.
Accepted(command) ==
    LET schema == Schemas!CLI_ARGS[command]
        first[n \in 0..Len(schema.items)] ==
            IF n = 0 THEN {<<>>}
            ELSE {Append(args, value) : args \in first[n - 1],
                                        value \in ItemValues(schema.items[n], n <= schema.minItems)}
    IN first[Len(schema.items)]

Switches == {{}, {"x"}, {"e"}, {"U"}, {"t"}, {"x", "t"}, {"x", "U"}}

Invocations ==
    UNION {[command : {command}, args : Accepted(command), switches : Switches,
            files : IF command = "gaia_restore_bucket" THEN 0..MaxFiles ELSE {0},
            sameNetwork : IF command \in {"gaia_restore_bucket", "gaia_dump_bucket"}
                          THEN BOOLEAN ELSE {TRUE}] : command \in Commands \ {"help"}}

CLIInit ==
    /\ invocation \in Invocations
    /\ pc = 1
    /\ accepted = 0
    /\ waited = 0
    /\ said = "nothing"
    /\ exit = "running"

Script == COMMANDS(invocation.command, invocation.args, invocation.files)
Doing(kind) == exit = "running" /\ pc <= Len(Script) /\ Script[pc][1] = kind
Argument(i) == invocation.args[i]

GoOn == pc' = pc + 1 /\ UNCHANGED <<said, exit>>
Ends(word, status) == said' = word /\ exit' = status /\ UNCHANGED pc
Errs(how) == Ends("error", IF how = "exit" THEN "1" ELSE "0")
NothingSent == UNCHANGED <<invocation, accepted, waited>>

\* The handler throws on what it was given.
Throws(how) == Ends("unusable", IF how = "exit" THEN "1" ELSE "0")

\* An argument not given is null or undefined, neither text nor a number.
Need ==
    /\ Doing("needs")
    /\ IF Argument(Script[pc][2]) = "null" THEN Throws(Script[pc][3]) ELSE GoOn
    /\ NothingSent

\* Neither a bundle of keys nor null is a key.
NeedKey ==
    /\ Doing("key")
    /\ IF Argument(Script[pc][2]) \in {"bundle", "null"} THEN Throws(Script[pc][3]) ELSE GoOn
    /\ NothingSent

NoHandler == Doing("uncallable") /\ Throws("exit") /\ NothingSent

Ask == Doing("asks") /\ (GoOn \/ Errs(Script[pc][2])) /\ NothingSent

Check ==
    /\ Doing("checks")
    /\ GoOn \/ ("U" \notin invocation.switches /\ Errs(Script[pc][2]))
    /\ NothingSent

OnMainnet ==
    /\ Doing("mainnet")
    /\ IF "t" \in invocation.switches THEN Errs("exit") ELSE GoOn
    /\ NothingSent

Dry ==
    /\ Doing("dry")
    /\ IF Script[pc][2] \in invocation.switches
       THEN Ends("dry", "0") \/ (Script[pc][2] = "e" /\ Errs("exit"))
       ELSE GoOn
    /\ NothingSent

Stop == Doing("stop") /\ (GoOn \/ Ends("declined", "0")) /\ NothingSent

\* The submission is accepted and the answer arrives, or it does not; or it never got
\* there; or the answer is that it was refused.
Submit ==
    /\ Doing("submits")
    /\ \/ accepted' = accepted + 1 /\ (GoOn \/ Errs(Script[pc][3]))
       \/ UNCHANGED accepted /\ Errs(Script[pc][3])
       \/ /\ UNCHANGED accepted
          /\ CASE Script[pc][2] = Raised    -> Errs(Script[pc][3])
               [] Script[pc][2] = "printed" -> Ends("refused", "0")
               [] Script[pc][2] = "ignored" -> GoOn
    /\ UNCHANGED <<invocation, waited>>

\* A batch is sent at once: when one fails the program ends, however many of the others
\* arrived.
SubmitAll ==
    /\ Doing("all")
    /\ \/ accepted' = Script[pc][2] /\ GoOn
       \/ \E arrived \in 0..Script[pc][2] :
             Script[pc][2] > 0 /\ accepted' = arrived /\ Errs("exit")
    /\ UNCHANGED <<invocation, waited>>

\* Mutation: the time is counted anew with every poll.
PollsAnew ==
    /\ Doing("polls")
    /\ \/ (GoOn \/ Errs("print")) /\ UNCHANGED waited
       \/ waited' = 1 - waited /\ UNCHANGED <<pc, said, exit>>
    /\ UNCHANGED <<invocation, accepted>>

\* The time that passed is compared with what the timeout argument reads as; nothing is
\* more than what null reads as.
Poll ==
    /\ Doing("polls")
    /\ \/ (GoOn \/ Errs("print")) /\ UNCHANGED waited
       \/ IF Argument(Script[pc][2]) = "null"
          THEN waited' = 1 - waited /\ UNCHANGED <<pc, said, exit>>
          ELSE IF waited = Patience THEN Errs("print") /\ UNCHANGED waited
          ELSE waited' = waited + 1 /\ UNCHANGED <<pc, said, exit>>
    /\ UNCHANGED <<invocation, accepted>>

\* The key is known to be among the first ones, but its address is compared as text.
Search ==
    /\ Doing("searches")
    /\ IF invocation.sameNetwork THEN GoOn /\ UNCHANGED waited
       ELSE waited' = 1 - waited /\ UNCHANGED <<pc, said, exit>>
    /\ UNCHANGED <<invocation, accepted>>

Finish ==
    /\ exit = "running" /\ pc > Len(Script)
    /\ Ends("success", "0")
    /\ NothingSent

CLIMain == \/ Need \/ NeedKey \/ NoHandler \/ Ask \/ Check \/ OnMainnet \/ Dry \/ Stop
           \/ Submit \/ SubmitAll \/ Poll \/ Search \/ Finish

CLIFairness == WF_commandVars(CLIMain)

(***************************************************************************)
(* Properties                                                              *)
(***************************************************************************)
Broadcasting == {"send_tokens", "deploy_contract", "call_contract_func", "register",
                 "tx_preorder", "infer", "infer_stake", "infer_unlock", "stack",
                 "stack_extend"}
Submitting == Broadcasting \cup {"faucet", "gaia_putfile", "gaia_deletefile", "gaia_sethub",
                                 "profile_store", "migrate_subdomains"}
Owed == IF invocation.command = "gaia_restore_bucket" THEN invocation.files
        ELSE IF invocation.command \in Submitting THEN 1 ELSE 0

DryRunAsked == invocation.switches \cap {"x", "e"} # {}
\* The commands that look at the switches at all.
HeedsDryRun ==
    \/ invocation.command \in {"send_tokens", "deploy_contract", "call_contract_func"}
    \/ invocation.command = "infer" /\ Argument(9) # "true"

\* A command that looks at -x and -e has broadcast nothing when it is given one of them,
\* whichever of its steps failed and wherever it ended: not before it looks, not in the
\* estimate that fails.
HeededDryRunSendsNothing == HeedsDryRun /\ DryRunAsked => accepted = 0

\* Result and status can be relied on: what is reported as done was accepted, all of it;
\* a refusal means nothing was; and a broadcasting command that exits with status 1 sent
\* nothing, so it can be run again. The two that report too much: infer_unlock does not
\* look at the answer, profile_store drops a hub that is not a URL.
ReportIsTrue ==
    /\ said = "success" =>
          \/ accepted = Owed
          \/ invocation.command = "infer_unlock"
          \/ invocation.command = "profile_store" /\ Argument(4) = "malformed"
    /\ said \in {"refused", "declined", "dry", "unusable"} => accepted = 0
    /\ exit = "1" /\ invocation.command \in Broadcasting => accepted = 0

\* The optional arguments a handler cannot do without.
LeftOut ==
    \/ invocation.command = "infer" /\ "null" \in {Argument(8), Argument(9)}
    \/ invocation.command = "infer_stake" /\ Argument(6) = "null"
    \/ invocation.command = "infer_unlock" /\ Argument(3) = "null"

\* What the schema lets through a handler can use, for the commands with a handler: it
\* throws on no argument but those of LeftOut, and on a bundle where one key has to sign.
HandlersServed ==
    said = "unusable" =>
        \/ Script = <<<<"uncallable">>>>
        \/ LeftOut
        \/ \E i \in DOMAIN invocation.args : Argument(i) = "bundle"

\* A command that has a bound on its waiting ends, once the network and the user answer:
\* all of them but infer_wait without a timeout, and the bucket commands for an identity
\* address in the form of the other network.
Bounded ==
    /\ invocation.command = "infer_wait" => Argument(3) # "null"
    /\ invocation.sameNetwork
EveryCommandEnds == Bounded => <>(exit # "running")

\* A command that waits or broadcasts, with a key of its own where one is asked for.
AsHelpHasIt ==
    /\ invocation.command \in Broadcasting \cup {"infer_wait"}
    /\ \A i \in DOMAIN invocation.args : Argument(i) # "bundle"
    /\ invocation.command = "infer" => Argument(8) = "key"


================================================================================
