---------------------------- MODULE CommandLineProof ----------------------------
(***************************************************************************)
(* What a command of the command line says it did, it did, and a dry run   *)
(* sends nothing, for every command, every argument list and every way the *)
(* disk, the user, the network and the node may answer.                    *)
(*                                                                         *)
(* Both are facts about where a script submits: at its end, once, for the  *)
(* commands that owe a submission, and after the switches were looked at.  *)
(***************************************************************************)
EXTENDS CommandLine, TLAPS, WellFoundedInduction

CLISpec == CLIInit /\ [][CLIMain]_commandVars

(***************************************************************************)
(* Scripts                                                                 *)
(***************************************************************************)
Endings == {"exit", "print"}

\* The steps that use an argument, in the commands that have them.
Uses(command) ==
    CASE command \in {"send_tokens", "deploy_contract"} -> {Key(5, "exit")}
      [] command = "call_contract_func" -> {Key(6, "exit")}
      [] command = "tx_preorder" -> {Key(2, "exit")}
      [] command = "infer" -> {Needs(9, "exit"), Key(8, "exit")}
      [] command \in {"infer_status", "infer_wait"} -> {Key(2, "print")}
      [] command = "infer_stake" -> {Needs(6, "print"), Key(4, "print")}
      [] command = "infer_unlock" -> {Needs(3, "print"), Key(1, "print")}
      [] command = "stack" -> {Key(4, "exit")}
      [] command = "stack_extend" -> {Key(3, "exit")}
      [] OTHER -> {}

\* The steps that send nothing, with some of those that use an argument.
QuietSteps(uses) ==
    {Mainnet, MayStop, DryRun("e"), DryRun("x"), Polls(3), Searches}
    \cup {Asks(f) : f \in Endings} \cup {Checks(f) : f \in Endings} \cup uses

Quiet(s, uses) == s \in Seq(QuietSteps(uses))
\* A script that does step last and sends nothing before.
EndsWith(s, step, uses) ==
    /\ s \in Seq(QuietSteps(uses) \cup {step})
    /\ Len(s) > 0 /\ s[Len(s)] = step
    /\ \A k \in 1..(Len(s) - 1) : s[k] \in QuietSteps(uses)

LEMMA QuietAppends ==
    ASSUME NEW uses, NEW s, NEW t, Quiet(s, uses), Quiet(t, uses)
    PROVE  Quiet(s \o t, uses)
  BY DEF Quiet

LEMMA EndAppends ==
    ASSUME NEW uses, NEW s, NEW t, NEW step, Quiet(s, uses), EndsWith(t, step, uses)
    PROVE  EndsWith(s \o t, step, uses)
  <1> DEFINE T == QuietSteps(uses) \cup {step}
  <1>1. s \in Seq(T) /\ t \in Seq(T)
    BY DEF Quiet, EndsWith
  <1>2. s \o t \in Seq(T) /\ Len(s \o t) = Len(s) + Len(t)
    BY <1>1
  <1>3. (s \o t)[Len(s \o t)] = step
    BY <1>1, <1>2 DEF EndsWith
  <1>4. ASSUME NEW k \in 1..(Len(s \o t) - 1)
        PROVE  (s \o t)[k] \in QuietSteps(uses)
    <2>1. CASE k <= Len(s)
      <3>1. (s \o t)[k] = s[k]
        BY <1>1, <2>1
      <3> QED BY <3>1, <2>1, <1>1 DEF Quiet
    <2>2. CASE k > Len(s)
      <3>1. (s \o t)[k] = t[k - Len(s)]
        BY <1>1, <1>2, <2>2
      <3>2. k - Len(s) \in 1..(Len(t) - 1)
        BY <1>1, <1>2, <2>2
      <3> QED BY <3>1, <3>2 DEF EndsWith
    <2> QED BY <2>1, <2>2, <1>1
  <1> QED BY <1>1, <1>2, <1>3, <1>4 DEF EndsWith

LEMMA OneStepEnds ==
    ASSUME NEW uses, NEW step
    PROVE  EndsWith(<<step>>, step, uses)
  BY DEF EndsWith

\* The helpers.
LEMMA HelpersAreQuiet ==
    ASSUME NEW uses
    PROVE  /\ Quiet(<<>>, uses) /\ Quiet(getBackupPhrase, uses)
           /\ Quiet(getNameInfoEasy, uses) /\ Quiet(getIDAddress, uses)
           /\ Quiet(getOwnerKeyInfo, uses) /\ Quiet(getApplicationKeyInfo, uses)
           /\ Quiet(getOwnerKeyFromIDAddress, uses) /\ Quiet(gaiaAuth, uses)
           /\ \A f \in Endings : /\ Quiet(<<Asks(f)>>, uses)
                                /\ Quiet(gaiaConnect(f), uses)
                                /\ Quiet(gaiaFindProfileName(f), uses)
  BY DEF Quiet, QuietSteps, Endings, getBackupPhrase, getNameInfoEasy, getIDAddress,
         getOwnerKeyInfo, getApplicationKeyInfo, findIdentityIndex,
         getOwnerKeyFromIDAddress,
         gaiaAuth, gaiaConnect, gaiaFindProfileName

(***************************************************************************)
(* The scripts of the commands                                             *)
(***************************************************************************)
QuietNames ==
    {"balance", "can_stack", "call_read_only_contract_func", "decode_cv", "convert_address",
     "decrypt_keychain", "docs", "encrypt_keychain", "gaia_dump_bucket", "gaia_getfile",
     "gaia_listfiles", "get_address", "get_account_history", "get_app_keys",
     "get_owner_keys", "get_payment_key", "get_stacks_wallet_key", "make_keychain",
     "profile_sign", "profile_verify", "infer_status", "infer_wait", "infer_stake_info",
     "stacking_status"}

LEMMA PlainScripts ==
    ASSUME NEW uses
    PROVE  /\ Quiet(balance, uses) /\ Quiet(canStackCommand, uses)
           /\ Quiet(readOnlyContractFunctionCall, uses) /\ Quiet(decodeCV, uses)
           /\ Quiet(addressConvert, uses) /\ Quiet(decryptMnemonic, uses)
           /\ Quiet(printDocs, uses) /\ Quiet(encryptMnemonic, uses)
           /\ Quiet(getKeyAddress, uses) /\ Quiet(getAccountHistory, uses)
           /\ Quiet(profileSign, uses) /\ Quiet(profileVerify, uses)
           /\ Quiet(inferStakeInfo, uses) /\ Quiet(stackingStatus, uses)
           /\ Quiet(getPaymentKey, uses)
  <1>1. Quiet(<<>>, uses) /\ Quiet(<<Asks("exit")>>, uses) /\ Quiet(<<Asks("print")>>, uses)
    BY DEF Quiet, QuietSteps, Endings
  <1>2. /\ Quiet(<<Asks("print"), Asks("print")>>, uses)
        /\ Quiet(<<Asks("exit"), Asks("print")>>, uses)
    BY DEF Quiet, QuietSteps, Endings
  <1>3. Quiet(getPaymentKey, uses)
    BY HelpersAreQuiet DEF getPaymentKey
  <1> QED
    BY <1>1, <1>2, <1>3
       DEF balance, canStackCommand, readOnlyContractFunctionCall, decodeCV, addressConvert,
           decryptMnemonic, printDocs, encryptMnemonic, getKeyAddress, getAccountHistory,
           profileSign, profileVerify, inferStakeInfo, stackingStatus

LEMMA QueryScripts ==
    /\ Quiet(inferStatus, Uses("infer_status"))
    /\ Quiet(inferWait, Uses("infer_wait"))
  BY DEF Quiet, QuietSteps, Endings, Uses, inferStatus, inferWait

LEMMA ComposedScripts ==
    ASSUME NEW uses, NEW args
    PROVE  /\ Quiet(getAppKeys, uses) /\ Quiet(getOwnerKeys, uses)
           /\ Quiet(getStacksWalletKey, uses) /\ Quiet(makeKeychain(args), uses)
           /\ Quiet(gaiaGetFile, uses) /\ Quiet(gaiaListFiles, uses)
           /\ Quiet(getIDAppKeys, uses) /\ Quiet(gaiaDumpBucket, uses)
  <1>1. Quiet(<<Asks("exit")>>, uses) /\ Quiet(<<Asks("exit"), Asks("exit")>>, uses)
    BY DEF Quiet, QuietSteps, Endings
  <1>2. /\ Quiet(getAppKeys, uses)
        /\ Quiet(getOwnerKeys, uses)
        /\ Quiet(getStacksWalletKey, uses)
    BY <1>1, HelpersAreQuiet, QuietAppends DEF getAppKeys, getOwnerKeys, getStacksWalletKey
  <1>3. Quiet(makeKeychain(args), uses)
    BY <1>1, HelpersAreQuiet, QuietAppends DEF makeKeychain
  <1>4. Quiet(gaiaGetFile, uses) /\ Quiet(gaiaListFiles, uses)
    BY <1>1, HelpersAreQuiet, QuietAppends DEF gaiaGetFile, gaiaListFiles
  <1>5. Quiet(getIDAppKeys, uses)
    BY HelpersAreQuiet, QuietAppends DEF getIDAppKeys
  <1>6. Quiet(gaiaDumpBucket, uses)
    <2>1. Quiet(gaiaConnect("exit"), uses)
      BY HelpersAreQuiet DEF Endings
    <2> QED BY <1>1, <1>5, <2>1, HelpersAreQuiet, QuietAppends DEF gaiaDumpBucket
  <1> QED BY <1>2, <1>3, <1>4, <1>5, <1>6

\* What the commands that only look do sends nothing.
LEMMA QuietCommands ==
    ASSUME NEW command \in QuietNames, NEW args, NEW files
    PROVE  Quiet(COMMANDS(command, args, files), Uses(command))
  <1>1. CASE command = "infer_status"
    BY <1>1, QueryScripts DEF COMMANDS
  <1>2. CASE command = "infer_wait"
    BY <1>2, QueryScripts DEF COMMANDS
  <1>3. CASE command \notin {"infer_status", "infer_wait"}
    <2> DEFINE uses == Uses(command)
    <2> HIDE DEF uses
    <2>1. Quiet(COMMANDS(command, args, files), uses)
      BY <1>3, PlainScripts, ComposedScripts DEF QuietNames, COMMANDS
    <2> QED BY <2>1 DEF uses
  <1> QED BY <1>1, <1>2, <1>3

\* Quiet steps and one submission.
LEMMA QuietThenSubmit ==
    ASSUME NEW uses, NEW s, Quiet(s, uses), NEW r, NEW f
    PROVE  EndsWith(s \o <<Submits(r, f)>>, Submits(r, f), uses)
  BY OneStepEnds, EndAppends

LEMMA ProfileUpload ==
    ASSUME NEW uses, NEW f \in Endings
    PROVE  EndsWith(gaiaUploadProfile(f), Submits(Raised, f), uses)
  <1>1. Quiet(gaiaConnect(f) \o gaiaFindProfileName(f), uses)
    BY HelpersAreQuiet, QuietAppends
  <1> QED BY <1>1, QuietThenSubmit DEF gaiaUploadProfile

\* The files and profiles of the hub.
LEMMA HubScripts ==
    ASSUME NEW uses, NEW args, NEW files
    PROVE  /\ EndsWith(gaiaPutFile, Submits(Raised, "exit"), uses)
           /\ EndsWith(gaiaDeleteFile, Submits(Raised, "exit"), uses)
           /\ EndsWith(gaiaSetHub, Submits(Raised, "print"), uses)
           /\ args[4] # "malformed" => EndsWith(profileStore(args), Submits(Raised, "print"), uses)
           /\ args[4] = "malformed" => Quiet(profileStore(args), uses)
           /\ EndsWith(gaiaRestoreBucket(files), SubmitsAll(files), uses)
  <1>1. Quiet(<<Asks("exit")>>, uses) /\ Quiet(<<Checks("exit")>>, uses)
    BY DEF Quiet, QuietSteps, Endings
  <1>2. Quiet(profileVerify, uses) /\ Quiet(gaiaConnect("exit"), uses) /\ Quiet(<<>>, uses)
    BY HelpersAreQuiet, PlainScripts DEF Endings
  <1>3. EndsWith(gaiaUploadProfile("print"), Submits(Raised, "print"), uses)
    BY ProfileUpload DEF Endings
  <1>4. EndsWith(gaiaPutFile, Submits(Raised, "exit"), uses)
    <2>1. Quiet(<<Asks("exit")>> \o gaiaAuth, uses)
      BY <1>1, HelpersAreQuiet, QuietAppends
    <2> QED BY <2>1, QuietThenSubmit DEF gaiaPutFile
  <1>5. EndsWith(gaiaDeleteFile, Submits(Raised, "exit"), uses)
    BY HelpersAreQuiet, QuietThenSubmit DEF gaiaDeleteFile
  <1>6. EndsWith(gaiaSetHub, Submits(Raised, "print"), uses)
    <2>1. Quiet(getNameInfoEasy \o getBackupPhrase \o <<Asks("exit")>> \o getApplicationKeyInfo
                \o getOwnerKeyInfo \o gaiaConnect("exit"), uses)
      BY <1>1, <1>2, HelpersAreQuiet, QuietAppends
    <2> QED BY <1>3, <2>1, EndAppends DEF gaiaSetHub
  <1>7. Quiet(<<Asks("exit")>> \o getNameInfoEasy \o profileVerify \o <<Checks("exit")>>, uses)
    BY <1>1, <1>2, HelpersAreQuiet, QuietAppends
  <1>8. args[4] # "malformed" => EndsWith(profileStore(args), Submits(Raised, "print"), uses)
    BY <1>3, <1>7, EndAppends DEF profileStore, gaiaUploadProfileAll
  <1>9. args[4] = "malformed" => Quiet(profileStore(args), uses)
    BY <1>2, <1>7, QuietAppends DEF profileStore, gaiaUploadProfileAll
  <1>10. EndsWith(gaiaRestoreBucket(files), SubmitsAll(files), uses)
    <2>1. Quiet(<<Asks("exit")>> \o getIDAppKeys \o gaiaAuth, uses)
      BY <1>1, HelpersAreQuiet, ComposedScripts, QuietAppends
    <2> QED BY <2>1, OneStepEnds, EndAppends DEF gaiaRestoreBucket
  <1> QED BY <1>4, <1>5, <1>6, <1>8, <1>9, <1>10

\* The commands that broadcast.
LEMMA BroadcastScripts ==
    ASSUME NEW args
    PROVE  /\ EndsWith(sendTokens, broadcastTransaction, Uses("send_tokens"))
           /\ EndsWith(contractDeploy, broadcastTransaction, Uses("deploy_contract"))
           /\ EndsWith(contractFunctionCall, broadcastTransaction, Uses("call_contract_func"))
           /\ EndsWith(register, broadcastTransaction, Uses("register"))
           /\ EndsWith(preorder, broadcastTransaction, Uses("tx_preorder"))
           /\ EndsWith(stackCommand, broadcastTransaction, Uses("stack"))
           /\ EndsWith(stackExtendCommand, broadcastTransaction, Uses("stack_extend"))
           /\ EndsWith(inferStake, broadcastTransaction, Uses("infer_stake"))
           /\ EndsWith(inferUnlock, Submits("ignored", "print"), Uses("infer_unlock"))
           /\ EndsWith(faucetCall, Submits(Raised, "print"), Uses("faucet"))
           /\ EndsWith(migrateSubdomains, broadcastTransaction, Uses("migrate_subdomains"))
           /\ EndsWith(infer(args), Submits(Raised, "print"), Uses("infer"))
  <1>1. /\ EndsWith(sendTokens, broadcastTransaction, Uses("send_tokens"))
        /\ EndsWith(contractDeploy, broadcastTransaction, Uses("deploy_contract"))
    BY DEF EndsWith, QuietSteps, Endings, Uses, sendTokens, contractDeploy
  <1>2. EndsWith(contractFunctionCall, broadcastTransaction, Uses("call_contract_func"))
    BY DEF EndsWith, QuietSteps, Endings, Uses, contractFunctionCall
  <1>3. /\ EndsWith(register, broadcastTransaction, Uses("register"))
        /\ EndsWith(preorder, broadcastTransaction, Uses("tx_preorder"))
    BY DEF EndsWith, QuietSteps, Endings, Uses, register, preorder
  <1>4. /\ EndsWith(stackCommand, broadcastTransaction, Uses("stack"))
        /\ EndsWith(stackExtendCommand, broadcastTransaction, Uses("stack_extend"))
    BY DEF EndsWith, QuietSteps, Endings, Uses, stackCommand, stackExtendCommand
  <1>5. EndsWith(inferStake, broadcastTransaction, Uses("infer_stake"))
    BY DEF EndsWith, QuietSteps, Endings, Uses, inferStake, broadcastTransaction
  <1>6. EndsWith(inferUnlock, Submits("ignored", "print"), Uses("infer_unlock"))
    BY DEF EndsWith, QuietSteps, Endings, Uses, inferUnlock
  <1>7. EndsWith(faucetCall, Submits(Raised, "print"), Uses("faucet"))
    BY OneStepEnds DEF faucetCall
  <1>8. EndsWith(migrateSubdomains, broadcastTransaction, Uses("migrate_subdomains"))
    <2>1. EndsWith(<<Asks("exit"), MayStop, broadcastTransaction>>, broadcastTransaction,
                   Uses("migrate_subdomains"))
      BY DEF EndsWith, QuietSteps, Endings, Uses
    <2> QED BY <2>1, HelpersAreQuiet, EndAppends DEF migrateSubdomains, broadcastTransaction
  <1>9. EndsWith(infer(args), Submits(Raised, "print"), Uses("infer"))
    <2>1. Quiet(<<Needs(9, "exit"), Key(8, "exit"), Checks("exit")>>, Uses("infer"))
      BY DEF Quiet, QuietSteps, Endings, Uses
    <2>2. EndsWith(<<Asks("exit"), DryRun("e"), DryRun("x"), Submits(Raised, "print")>>,
                   Submits(Raised, "print"), Uses("infer"))
      BY DEF EndsWith, QuietSteps, Endings, Uses
    <2> QED BY <2>1, <2>2, OneStepEnds, EndAppends DEF infer
  <1> QED BY <1>1, <1>2, <1>3, <1>4, <1>5, <1>6, <1>7, <1>8, <1>9
(***************************************************************************)
(* A script sends nothing and owes nothing, or has no handler, or sends at *)
(* its end what the command owes.                                          *)
(***************************************************************************)
OwesNothing ==
    \/ invocation.command \notin Submitting \cup {"gaia_restore_bucket"}
    \/ invocation.command = "profile_store" /\ Argument(4) = "malformed"
SubmitsOnce(r, f) ==
    /\ invocation.command \in Submitting
    /\ EndsWith(Script, Submits(r, f), Uses(invocation.command))
    /\ r = "ignored" => invocation.command = "infer_unlock"
    /\ invocation.command \in Broadcasting => f = "print"

LEMMA ScriptShape ==
    \/ Quiet(Script, Uses(invocation.command)) /\ OwesNothing
    \/ /\ Script = <<<<"uncallable">>>>
       /\ invocation.command \notin Submitting \cup {"gaia_restore_bucket"}
    \/ \E r \in {Raised, "printed", "ignored"}, f \in Endings : SubmitsOnce(r, f)
    \/ /\ invocation.command = "gaia_restore_bucket"
       /\ EndsWith(Script, SubmitsAll(invocation.files), Uses(invocation.command))
  <1> DEFINE command == invocation.command
             args == invocation.args
             uses == Uses(command)
             Once(s) == \/ EndsWith(s, broadcastTransaction, uses)
                        \/ EndsWith(s, Submits(Raised, "print"), uses)
  <1>0. ASSUME command \in Submitting, Once(Script)
        PROVE  \E r \in {Raised, "printed", "ignored"}, f \in Endings : SubmitsOnce(r, f)
    <2>1. SubmitsOnce("printed", "print") \/ SubmitsOnce(Raised, "print")
      BY <1>0 DEF SubmitsOnce, broadcastTransaction, Raised
    <2> QED BY <2>1 DEF Endings
  <1>1. CASE command \in QuietNames
    <2>1. Quiet(Script, uses)
      BY <1>1, QuietCommands DEF Script
    <2>2. OwesNothing
      BY <1>1 DEF OwesNothing, QuietNames, Submitting, Broadcasting
    <2> QED BY <2>1, <2>2
  <1>2. CASE command \in {"send_tokens", "deploy_contract", "call_contract_func", "register",
                          "tx_preorder"}
    <2>1. Once(Script)
      BY <1>2, BroadcastScripts DEF Script, COMMANDS
    <2> QED BY <1>0, <1>2, <2>1 DEF Submitting, Broadcasting
  <1>3. CASE command \in {"stack", "stack_extend", "infer_stake", "infer", "faucet",
                          "migrate_subdomains"}
    <2>1. Once(Script)
      BY <1>3, BroadcastScripts DEF Script, COMMANDS
    <2> QED BY <1>0, <1>3, <2>1 DEF Submitting, Broadcasting
  <1>4. CASE command = "infer_unlock"
    <2>1. SubmitsOnce("ignored", "print")
      BY <1>4, BroadcastScripts DEF Script, COMMANDS, SubmitsOnce, Submitting, Broadcasting
    <2> QED BY <2>1 DEF Endings
  <1>5. CASE command \in {"gaia_putfile", "gaia_deletefile"}
    <2>1. SubmitsOnce(Raised, "exit")
      BY <1>5, HubScripts DEF Script, COMMANDS, SubmitsOnce, Submitting, Broadcasting, Raised
    <2> QED BY <2>1 DEF Endings
  <1>6. CASE command = "gaia_sethub"
    <2>1. Once(Script)
      BY <1>6, HubScripts DEF Script, COMMANDS
    <2> QED BY <1>0, <1>6, <2>1 DEF Submitting
  <1>7. CASE command = "profile_store"
    <2>1. Script = profileStore(args)
      BY <1>7 DEF Script, COMMANDS
    <2>2. CASE args[4] = "malformed"
      <3>1. Quiet(Script, uses)
        BY <2>1, <2>2, HubScripts
      <3> QED BY <1>7, <2>2, <3>1 DEF OwesNothing, Argument
    <2>3. CASE args[4] # "malformed"
      <3>1. Once(Script)
        BY <2>1, <2>3, HubScripts
      <3> QED BY <1>0, <1>7, <3>1 DEF Submitting
    <2> QED BY <2>2, <2>3
  <1>8. CASE command = "gaia_restore_bucket"
    BY <1>8, HubScripts DEF Script, COMMANDS
  <1>9. CASE command \notin QuietNames \cup Submitting \cup {"gaia_restore_bucket"}
    <2>1. Script = <<<<"uncallable">>>>
      BY <1>9 DEF Script, COMMANDS, QuietNames, Submitting, Broadcasting
    <2>2. invocation.command \notin Submitting \cup {"gaia_restore_bucket"}
      <3> HIDE DEF Once, uses, args
      <3> QED BY <1>9, Zenon
    <2> HIDE DEF Once, uses, args
    <2> QED BY <2>1, <2>2, ZenonT(60)
  <1> QED BY <1>1, <1>2, <1>3, <1>4, <1>5, <1>6, <1>7, <1>8, <1>9 DEF Submitting, Broadcasting

\* Which steps there are.
LEMMA StepKinds ==
    ASSUME NEW command, NEW s \in QuietSteps(Uses(command))
    PROVE  /\ s[1] \notin {"submits", "all", "uncallable"}
           /\ s[1] \in {"needs", "key"} => s \in Uses(command)
  <1>1. CASE s \in Uses(command)
    BY <1>1 DEF Uses, Needs, Key
  <1>2. CASE s \notin Uses(command)
    BY <1>2 DEF QuietSteps, Mainnet, MayStop, DryRun, Polls, Searches, Asks, Checks
  <1> QED BY <1>1, <1>2

\* What the step at a place of the script can be.
LEMMA StepsOfScript ==
    ASSUME NEW k \in 1..Len(Script)
    PROVE  /\ Len(Script) \in Nat
           /\ Script[k][1] = "submits" =>
                 /\ k = Len(Script)
                 /\ \E r \in {Raised, "printed", "ignored"}, f \in Endings :
                       SubmitsOnce(r, f) /\ Script[k] = Submits(r, f)
           /\ Script[k][1] = "all" =>
                 /\ k = Len(Script)
                 /\ invocation.command = "gaia_restore_bucket"
                 /\ Script[k] = SubmitsAll(invocation.files)
           /\ Script[k][1] \notin {"submits", "all"} /\ k = Len(Script) => OwesNothing
           /\ Script[k][1] \in {"needs", "key"} => Script[k] \in Uses(invocation.command)
           /\ Script[k][1] = "uncallable" => Script = <<<<"uncallable">>>>
  <1> DEFINE command == invocation.command
  <1>1. CASE Quiet(Script, Uses(command)) /\ OwesNothing
    <2>1. Script[k] \in QuietSteps(Uses(command)) /\ Len(Script) \in Nat
      BY <1>1 DEF Quiet
    <2> QED BY <1>1, <2>1, StepKinds
  <1>2. CASE /\ Script = <<<<"uncallable">>>>
             /\ command \notin Submitting \cup {"gaia_restore_bucket"}
    <2>1. k = 1 /\ Script[k] = <<"uncallable">> /\ Len(Script) = 1
      BY <1>2
    <2> QED BY <1>2, <2>1 DEF OwesNothing
  <1>3. ASSUME NEW r \in {Raised, "printed", "ignored"}, NEW f \in Endings, SubmitsOnce(r, f)
        PROVE  /\ Len(Script) \in Nat
               /\ k = Len(Script) => Script[k] = Submits(r, f)
               /\ k # Len(Script) => Script[k] \in QuietSteps(Uses(command))
    BY <1>3 DEF SubmitsOnce, EndsWith
  <1>4. CASE \E r \in {Raised, "printed", "ignored"}, f \in Endings : SubmitsOnce(r, f)
    <2>1. PICK r \in {Raised, "printed", "ignored"}, f \in Endings : SubmitsOnce(r, f)
      BY <1>4
    <2>2. CASE k = Len(Script)
      <3>1. Script[k] = Submits(r, f) /\ Script[k][1] = "submits" /\ Len(Script) \in Nat
        BY <1>3, <2>1, <2>2 DEF Submits
      <3> QED BY <2>1, <2>2, <3>1
    <2>3. CASE k # Len(Script)
      <3>1. Script[k] \in QuietSteps(Uses(command)) /\ Len(Script) \in Nat
        BY <1>3, <2>1, <2>3
      <3> QED BY <2>3, <3>1, StepKinds
    <2> QED BY <2>2, <2>3
  <1>5. CASE /\ command = "gaia_restore_bucket"
             /\ EndsWith(Script, SubmitsAll(invocation.files), Uses(command))
    <2>0. Len(Script) \in Nat
      BY <1>5 DEF EndsWith
    <2>1. CASE k = Len(Script)
      <3>1. Script[k] = SubmitsAll(invocation.files) /\ Script[k][1] = "all"
        BY <1>5, <2>1 DEF EndsWith, SubmitsAll
      <3> QED BY <1>5, <2>0, <2>1, <3>1
    <2>2. CASE k # Len(Script)
      <3>1. Script[k] \in QuietSteps(Uses(command))
        BY <1>5, <2>0, <2>2 DEF EndsWith
      <3> QED BY <2>0, <2>2, <3>1, StepKinds
    <2> QED BY <2>1, <2>2
  <1> QED BY <1>1, <1>2, <1>4, <1>5, ScriptShape
(***************************************************************************)
(* Steps. All but three kinds send nothing and report no success: they     *)
(* pass the step of the script, stay at it, or end the command.            *)
(***************************************************************************)
Quietly ==
    /\ exit = "running" /\ pc <= Len(Script)
    /\ Script[pc][1] \notin {"submits", "all"}
    /\ UNCHANGED <<invocation, accepted>>
    /\ \/ /\ pc' = pc + 1 /\ UNCHANGED <<said, exit>>
          /\ Script[pc][1] = "dry" => Script[pc][2] \notin invocation.switches
       \/ UNCHANGED <<pc, said, exit>>
       \/ /\ UNCHANGED pc /\ exit' # "running"
          /\ \/ said' \in {"error", "dry", "declined"}
             \/ /\ said' = "unusable"
                /\ \/ Script[pc][1] = "needs" /\ Argument(Script[pc][2]) = "null"
                   \/ Script[pc][1] = "key" /\ Argument(Script[pc][2]) \in {"bundle", "null"}
                   \/ Script[pc][1] = "uncallable"

LEMMA StepShape ==
    ASSUME CLIMain
    PROVE  Quietly \/ Submit \/ SubmitAll \/ Finish
  <1>1. CASE Need
    BY <1>1 DEF Need, Doing, GoOn, Throws, Ends, NothingSent, Quietly
  <1>2. CASE NeedKey
    BY <1>2 DEF NeedKey, Doing, GoOn, Throws, Ends, NothingSent, Quietly
  <1>3. CASE NoHandler
    BY <1>3 DEF NoHandler, Doing, Throws, Ends, NothingSent, Quietly
  <1>4. CASE Ask
    BY <1>4 DEF Ask, Doing, GoOn, Errs, Ends, NothingSent, Quietly
  <1>5. CASE Check
    BY <1>5 DEF Check, Doing, GoOn, Errs, Ends, NothingSent, Quietly
  <1>6. CASE OnMainnet
    BY <1>6 DEF OnMainnet, Doing, GoOn, Errs, Ends, NothingSent, Quietly
  <1>7. CASE Dry
    BY <1>7 DEF Dry, Doing, GoOn, Errs, Ends, NothingSent, Quietly
  <1>8. CASE Stop
    BY <1>8 DEF Stop, Doing, GoOn, Ends, NothingSent, Quietly
  <1>9. CASE Poll
    BY <1>9 DEF Poll, Doing, GoOn, Errs, Ends, Quietly
  <1>10. CASE Search
    BY <1>10 DEF Search, Doing, GoOn, Quietly
  <1> QED BY <1>1, <1>2, <1>3, <1>4, <1>5, <1>6, <1>7, <1>8, <1>9, <1>10 DEF CLIMain

\* Nobody changes what was asked for.
LEMMA InvocationStays ==
    ASSUME CLIMain
    PROVE  invocation' = invocation /\ Script' = Script
  <1>1. invocation' = invocation
    BY StepShape DEF Quietly, Submit, SubmitAll, Finish, NothingSent
  <1> QED BY <1>1 DEF Script

(***************************************************************************)
(* Reports                                                                 *)
(***************************************************************************)
Done ==
    \/ accepted = Owed
    \/ invocation.command = "infer_unlock"
    \/ invocation.command = "profile_store" /\ Argument(4) = "malformed"

ReportInv ==
    /\ pc \in Nat \ {0}
    /\ exit = "running" =>
          /\ said = "nothing"
          /\ pc <= Len(Script) => accepted = 0
          /\ pc > Len(Script) => Done
    /\ ReportIsTrue

LEMMA NothingOwed ==
    ASSUME OwesNothing, accepted = 0
    PROVE  Done
  BY DEF OwesNothing, Done, Owed

LEMMA EmptyScript ==
    ASSUME Len(Script) = 0
    PROVE  OwesNothing
  <1>1. ~(Script = <<<<"uncallable">>>>)
    OBVIOUS
  <1>2. ASSUME NEW step, EndsWith(Script, step, Uses(invocation.command)) PROVE FALSE
    BY <1>2 DEF EndsWith
  <1> QED BY <1>1, <1>2, ScriptShape DEF SubmitsOnce

LEMMA ScriptLength == Len(Script) \in Nat
  <1>1. CASE Script = <<<<"uncallable">>>>
    BY <1>1
  <1> QED BY <1>1, ScriptShape DEF SubmitsOnce, Quiet, EndsWith

LEMMA ReportInit == CLIInit => ReportInv
  <1> SUFFICES ASSUME CLIInit PROVE ReportInv
    OBVIOUS
  <1>1. pc = 1 /\ accepted = 0 /\ said = "nothing" /\ exit = "running"
    BY DEF CLIInit
  <1>2. pc > Len(Script) => Done
    BY <1>1, ScriptLength, EmptyScript, NothingOwed
  <1> QED BY <1>1, <1>2 DEF ReportInv, ReportIsTrue

\* A submission is the last step; it is accepted, or the command ends otherwise than with
\* success, or the answer was not looked at.
LEMMA SubmitReports ==
    ASSUME ReportInv, Submit, invocation' = invocation, Script' = Script
    PROVE  ReportInv'
  <1>1. pc \in 1..Len(Script) /\ Script[pc][1] = "submits" /\ exit = "running"
    BY ScriptLength DEF Submit, Doing, ReportInv
  <1>2. PICK r \in {Raised, "printed", "ignored"}, f \in Endings :
           SubmitsOnce(r, f) /\ Script[pc] = Submits(r, f)
    BY <1>1, StepsOfScript
  <1>3. pc = Len(Script) /\ accepted = 0 /\ said = "nothing"
    BY <1>1, StepsOfScript DEF ReportInv
  <1>4. Script[pc][2] = r /\ Script[pc][3] = f
    BY <1>2 DEF Submits
  <1>5. Owed = 1 /\ Owed' = Owed
    BY <1>2 DEF SubmitsOnce, Owed, Submitting, Broadcasting
  <1>6. CASE GoOn
    <2>1. accepted' = 1 \/ invocation.command = "infer_unlock"
      <3>1. accepted' = accepted + 1 \/ r = "ignored"
        BY <1>1, <1>4, <1>6 DEF Submit, Errs, Ends, GoOn, Raised
      <3> QED BY <1>2, <1>3, <3>1 DEF SubmitsOnce
    <2>2. Done' /\ pc' = Len(Script) + 1 /\ said' = "nothing" /\ exit' = "running"
      BY <1>1, <1>3, <1>5, <1>6, <2>1 DEF Done, GoOn
    <2> QED BY <2>2, ScriptLength DEF ReportInv, ReportIsTrue
  <1>7. CASE Errs(f)
    <2>1. pc' = pc /\ said' = "error" /\ exit' \in {"0", "1"}
      BY <1>7 DEF Errs, Ends
    <2>2. exit' = "1" => invocation.command \notin Broadcasting
      BY <1>2, <1>7 DEF Errs, Ends, SubmitsOnce
    <2> QED BY <2>1, <2>2 DEF ReportInv, ReportIsTrue
  <1>8. CASE accepted' = accepted /\ Ends("refused", "0")
    <2>1. accepted' = 0 /\ pc' = pc /\ said' = "refused" /\ exit' = "0"
      BY <1>3, <1>8 DEF Ends
    <2> QED BY <2>1 DEF ReportInv, ReportIsTrue
  <1> QED BY <1>4, <1>6, <1>7, <1>8 DEF Submit, Raised

LEMMA ReportNext == ReportInv /\ [CLIMain]_commandVars => ReportInv'
  <1> SUFFICES ASSUME ReportInv, [CLIMain]_commandVars PROVE ReportInv'
    OBVIOUS
  <1>1. CASE UNCHANGED commandVars
    BY <1>1 DEF commandVars, ReportInv, ReportIsTrue, Done, Owed, Script, Argument
  <1>2. CASE CLIMain
    <2>0. invocation' = invocation /\ Script' = Script
      BY <1>2, InvocationStays
    <2>1. CASE Quietly
      <3>1. pc \in 1..Len(Script) /\ accepted = 0 /\ accepted' = 0 /\ said = "nothing"
        BY <2>1, ScriptLength DEF Quietly, ReportInv
      <3>2. CASE pc' = pc + 1 /\ UNCHANGED <<said, exit>>
        <4>1. pc' > Len(Script) => Done'
          <5> SUFFICES ASSUME pc' > Len(Script) PROVE Done'
            OBVIOUS
          <5>1. pc = Len(Script)
            BY <3>1, <3>2, ScriptLength
          <5>2. OwesNothing
            BY <2>1, <3>1, <5>1, StepsOfScript DEF Quietly
          <5> QED BY <2>0, <3>1, <5>2, NothingOwed DEF Done, Owed, Argument
        <4>2. exit = "running"
          BY <2>1 DEF Quietly
        <4> QED BY <2>0, <3>1, <3>2, <4>1, <4>2 DEF ReportInv, ReportIsTrue
      <3>3. CASE UNCHANGED <<pc, said, exit>>
        BY <2>0, <2>1, <3>1, <3>3, ScriptLength DEF ReportInv, ReportIsTrue, Quietly
      <3>4. CASE /\ UNCHANGED pc /\ exit' # "running"
                 /\ said' \in {"error", "dry", "declined", "unusable"}
        BY <3>1, <3>4 DEF ReportInv, ReportIsTrue
      <3> QED BY <2>1, <3>2, <3>3, <3>4 DEF Quietly
    <2>2. CASE Submit
      BY <2>0, <2>2, SubmitReports
    <2>3. CASE SubmitAll
      <3>1. pc \in 1..Len(Script) /\ Script[pc][1] = "all" /\ said = "nothing"
        BY <2>3, ScriptLength DEF SubmitAll, Doing, ReportInv
      <3>2. /\ pc = Len(Script) /\ invocation.command = "gaia_restore_bucket"
            /\ Script[pc][2] = invocation.files
        BY <3>1, StepsOfScript DEF SubmitsAll
      <3>3. CASE accepted' = Script[pc][2] /\ GoOn
        <4>1. Done'
          BY <2>0, <3>2, <3>3 DEF Done, Owed
        <4>2. pc' = Len(Script) + 1 /\ said' = "nothing" /\ exit' = "running"
          BY <2>3, <3>1, <3>2, <3>3 DEF GoOn, SubmitAll, Doing
        <4> QED BY <2>0, <4>1, <4>2, ScriptLength DEF ReportInv, ReportIsTrue
      <3>4. CASE Errs("exit")
        <4>1. pc' = pc /\ said' = "error" /\ exit' = "1"
          BY <3>4 DEF Errs, Ends
        <4>2. invocation'.command \notin Broadcasting
          BY <2>0, <3>2 DEF Broadcasting
        <4> QED BY <4>1, <4>2 DEF ReportInv, ReportIsTrue
      <3> QED BY <2>3, <3>3, <3>4 DEF SubmitAll
    <2>4. CASE Finish
      <3>1. Done
        BY <2>4 DEF Finish, ReportInv
      <3>2. Done'
        BY <2>0, <2>4, <3>1 DEF Finish, NothingSent, Done, Owed, Argument
      <3>3. pc' = pc /\ said' = "success" /\ exit' = "0"
        BY <2>4 DEF Finish, Ends
      <3> QED BY <3>2, <3>3 DEF ReportInv, ReportIsTrue, Done
    <2> QED BY <1>2, <2>1, <2>2, <2>3, <2>4, StepShape
  <1> QED BY <1>1, <1>2

\* What is reported as done was accepted, all of it; a refusal means nothing was; and a
\* broadcasting command that exits with status 1 sent nothing. But for infer_unlock, which
\* does not look at the answer, and profile_store, which drops a hub that is not a URL.
THEOREM ReportsAreTrue == CLISpec => []ReportIsTrue
  <1>1. ReportInv => ReportIsTrue
    BY DEF ReportInv
  <1> QED BY <1>1, ReportInit, ReportNext, PTL DEF CLISpec
(***************************************************************************)
(* Dry runs                                                                *)
(***************************************************************************)
\* The commands that look at the switches do so before they submit.
LooksFirst ==
    /\ Len(Script) > 2
    /\ Script[Len(Script) - 2] = DryRun("e")
    /\ Script[Len(Script) - 1] = DryRun("x")

LEMMA Appended ==
    ASSUME NEW T, NEW s \in Seq(T), NEW t \in Seq(T)
    PROVE  /\ Len(s \o t) = Len(s) + Len(t)
           /\ \A k \in 1..Len(t) : (s \o t)[Len(s) + k] = t[k]
  OBVIOUS

LEMMA SwitchesLookedAt ==
    ASSUME HeedsDryRun
    PROVE  LooksFirst
  <1>1. CASE invocation.command = "send_tokens"
    BY <1>1 DEF LooksFirst, Script, COMMANDS, sendTokens
  <1>2. CASE invocation.command = "deploy_contract"
    BY <1>2 DEF LooksFirst, Script, COMMANDS, contractDeploy
  <1>3. CASE invocation.command = "call_contract_func"
    BY <1>3 DEF LooksFirst, Script, COMMANDS, contractFunctionCall
  <1>4. CASE invocation.command = "infer"
    <2> DEFINE first == <<Needs(9, "exit"), Key(8, "exit"), Checks("exit")>>
               last == <<Asks("exit"), DryRun("e"), DryRun("x"), Submits(Raised, "print")>>
    <2>1. Script = first \o last
      BY <1>4 DEF HeedsDryRun, Argument, Script, COMMANDS, infer
    <2>2. PICK T : first \in Seq(T) /\ last \in Seq(T)
      <3> DEFINE T == QuietSteps({Needs(9, "exit"), Key(8, "exit"), Submits(Raised, "print")})
      <3>1. first \in Seq(T) /\ last \in Seq(T)
        BY DEF QuietSteps, Endings
      <3> QED BY <3>1
    <2>3. Len(first) = 3 /\ Len(last) = 4 /\ last[2] = DryRun("e") /\ last[3] = DryRun("x")
      OBVIOUS
    <2> HIDE DEF first, last
    <2> DEFINE both == first \o last
    <2>4. /\ Len(both) = Len(first) + Len(last)
          /\ \A k \in 1..Len(last) : both[Len(first) + k] = last[k]
      BY <2>2, Appended, Zenon
    <2> HIDE DEF both
    <2>5. Len(both) = 7 /\ both[5] = last[2] /\ both[6] = last[3]
      BY <2>3, <2>4
    <2>6. Script = both
      BY <2>1 DEF both
    <2>7. /\ Len(Script) = 7
          /\ Script[5] = DryRun("e") /\ Script[6] = DryRun("x")
      BY <2>3, <2>5, <2>6, Zenon
    <2>8. Len(Script) > 2 /\ Len(Script) - 2 = 5 /\ Len(Script) - 1 = 6
      BY <2>7
    <2> QED BY <2>7, <2>8, Zenon DEF LooksFirst
  <1> QED BY <1>1, <1>2, <1>3, <1>4 DEF HeedsDryRun

\* A switch that was passed was not given.
DryInv ==
    /\ pc \in Nat \ {0}
    /\ exit = "running" =>
          \A k \in 1..Len(Script) :
              k < pc /\ Script[k][1] = "dry" => Script[k][2] \notin invocation.switches
    /\ HeededDryRunSendsNothing

LEMMA DryInit == CLIInit => DryInv
  BY DEF CLIInit, DryInv, HeededDryRunSendsNothing

LEMMA DryNext == DryInv /\ [CLIMain]_commandVars => DryInv'
  <1> SUFFICES ASSUME DryInv, [CLIMain]_commandVars PROVE DryInv'
    OBVIOUS
  <1>1. CASE UNCHANGED commandVars
    BY <1>1 DEF commandVars, DryInv, HeededDryRunSendsNothing, HeedsDryRun, DryRunAsked, Argument, Script
  <1>2. CASE CLIMain
    <2>0. invocation' = invocation /\ Script' = Script
      BY <1>2, InvocationStays
    <2>1. CASE Quietly
      <3>1. HeededDryRunSendsNothing'
        BY <2>0, <2>1 DEF DryInv, HeededDryRunSendsNothing, HeedsDryRun, DryRunAsked, Argument, Quietly
      <3>2. pc' \in Nat \ {0} /\ (exit' = "running" => exit = "running")
        BY <2>1 DEF DryInv, Quietly
      <3>3. ASSUME exit' = "running", NEW k \in 1..Len(Script), k < pc', Script[k][1] = "dry"
            PROVE  Script[k][2] \notin invocation.switches
        <4>1. CASE k < pc
          BY <3>2, <3>3, <4>1 DEF DryInv
        <4>2. CASE ~(k < pc)
          <5>1. pc' = pc + 1 /\ k = pc
            BY <2>1, <3>3, <4>2, ScriptLength DEF Quietly, DryInv
          <5> QED BY <2>1, <3>3, <5>1 DEF Quietly, DryInv
        <4> QED BY <4>1, <4>2
      <3> QED BY <2>0, <3>1, <3>2, <3>3 DEF DryInv
    <2>2. CASE Submit
      <3>1. pc \in 1..Len(Script) /\ Script[pc][1] = "submits" /\ exit = "running"
        BY <2>2, ScriptLength DEF Submit, Doing, DryInv
      <3>2. pc = Len(Script)
        BY <3>1, StepsOfScript
      <3>3. ASSUME HeedsDryRun
            PROVE  invocation.switches \cap {"x", "e"} = {}
        <4>1. LooksFirst
          BY <3>3, SwitchesLookedAt
        <4>2. pc - 2 \in 1..Len(Script) /\ pc - 1 \in 1..Len(Script) /\ pc - 2 < pc /\ pc - 1 < pc
          BY <3>2, <4>1, ScriptLength DEF LooksFirst
        <4>3. "e" \notin invocation.switches /\ "x" \notin invocation.switches
          BY <3>1, <3>2, <4>1, <4>2 DEF DryInv, LooksFirst, DryRun
        <4> QED BY <4>3
      <3>4. HeededDryRunSendsNothing'
        BY <2>0, <3>3 DEF HeededDryRunSendsNothing, HeedsDryRun, DryRunAsked, Argument
      <3>5. Script[pc][2] \in {Raised, "printed", "ignored"}
        BY <3>1, StepsOfScript DEF Submits
      <3>6. pc' \in {pc, pc + 1}
        BY <2>2, <3>5 DEF Submit, GoOn, Errs, Ends, Raised
      <3>7. pc' \in Nat \ {0}
        BY <3>1, <3>6
      <3>8. ASSUME NEW k \in 1..Len(Script), k < pc', Script[k][1] = "dry"
            PROVE  Script[k][2] \notin invocation.switches
        <4>1. k # pc
          BY <3>1, <3>8
        <4>2. k < pc
          BY <3>1, <3>6, <3>8, <4>1, ScriptLength
        <4> QED BY <3>1, <3>8, <4>2 DEF DryInv
      <3> QED BY <2>0, <3>4, <3>7, <3>8 DEF DryInv
    <2>3. CASE SubmitAll
      <3>1. pc \in 1..Len(Script) /\ Script[pc][1] = "all" /\ exit = "running"
        BY <2>3, ScriptLength DEF SubmitAll, Doing, DryInv
      <3>2. invocation.command = "gaia_restore_bucket"
        BY <3>1, StepsOfScript
      <3>3. HeededDryRunSendsNothing'
        BY <2>0, <3>2 DEF HeededDryRunSendsNothing, HeedsDryRun
      <3>4. pc' = pc \/ pc' = pc + 1
        BY <2>3 DEF SubmitAll, GoOn, Errs, Ends
      <3>5. ASSUME NEW k \in 1..Len(Script), k < pc', Script[k][1] = "dry"
            PROVE  Script[k][2] \notin invocation.switches
        <4>1. k # pc
          BY <3>1, <3>5
        <4>2. k < pc
          BY <3>1, <3>4, <3>5, <4>1, ScriptLength
        <4> QED BY <3>1, <3>5, <4>2 DEF DryInv
      <3>6. pc' \in Nat \ {0}
        BY <3>1, <3>4
      <3> QED BY <2>0, <3>3, <3>5, <3>6 DEF DryInv
    <2>4. CASE Finish
      BY <2>0, <2>4 DEF DryInv, HeededDryRunSendsNothing, HeedsDryRun, DryRunAsked, Argument, Finish, Ends, NothingSent
    <2> QED BY <1>2, <2>1, <2>2, <2>3, <2>4, StepShape
  <1> QED BY <1>1, <1>2

\* A command that looks at -x and -e has broadcast nothing when it is given one of them,
\* whichever of its steps failed and wherever it ended.
THEOREM DryRunsSendNothing == CLISpec => []HeededDryRunSendsNothing
  <1>1. DryInv => HeededDryRunSendsNothing
    BY DEF DryInv
  <1> QED BY <1>1, DryInit, DryNext, PTL DEF CLISpec
(***************************************************************************)
(* What the schema lets through: an argument for every item.               *)
(***************************************************************************)
\* Induction, over a set of numbers.
LEMMA SetInduction ==
    ASSUME NEW S, 0 \in S, \A n \in Nat : n \in S => n + 1 \in S
    PROVE  Nat \subseteq S
  <1> DEFINE Rest == Nat \ S
             R == OpToRel(<, Nat)
  <1> SUFFICES ASSUME Rest # {} PROVE FALSE
    OBVIOUS
  <1>1. IsWellFoundedOn(R, Nat)
    BY NatLessThanWellFounded
  <1>2. PICK x \in Rest : \A y \in Rest : <<y, x>> \notin R
    <2> HIDE DEF R
    <2> QED BY <1>1, WFMin
  <1>3. \A y \in Rest : ~(y < x)
    BY <1>2 DEF OpToRel
  <1> HIDE DEF R
  <1>4. x \in Nat /\ x \notin S /\ x # 0 /\ x - 1 \in Nat
    OBVIOUS
  <1>5. x - 1 \in S
    BY <1>3, <1>4
  <1> QED BY <1>4, <1>5

AllValues == {"key", "bundle", "true", "false", "given", "malformed", "null"}
Longer(lists, items, min, n) ==
    {Append(args, value) : args \in lists, value \in ItemValues(items[n], n <= min)}
Shortest == {<<>>}
\* f[n] holds the lists for the first n of the items.
IsLists(f, items, min, m) ==
    f = [n \in 0..m |-> IF n = 0 THEN Shortest ELSE Longer(f[n - 1], items, min, n)]

LEMMA ListsExist ==
    ASSUME NEW items, NEW min
    PROVE  \A m \in Nat : \E f : IsLists(f, items, min, m)
  <1> DEFINE S == {m \in Nat : \E f : IsLists(f, items, min, m)}
  <1>1. 0 \in S
    <2>1. IsLists([n \in 0..0 |-> Shortest], items, min, 0)
      BY DEF IsLists
    <2> QED BY <2>1
  <1>2. ASSUME NEW m \in Nat, m \in S PROVE m + 1 \in S
    <2>1. PICK f : IsLists(f, items, min, m)
      BY <1>2
    <2> DEFINE g == [n \in 0..m + 1 |->
                        IF n = 0 THEN Shortest ELSE Longer(f[n - 1], items, min, n)]
    <2>2. \A n \in 0..m : g[n] = f[n]
      BY <2>1 DEF IsLists
    <2>3. \A n \in 0..m + 1 : n # 0 => n - 1 \in 0..m
      OBVIOUS
    <2>4. IsLists(g, items, min, m + 1)
      BY <2>2, <2>3 DEF IsLists
    <2> QED BY <2>4
  <1> HIDE DEF S
  <1>3. Nat \subseteq S
    BY <1>1, <1>2, SetInduction
  <1> QED BY <1>3 DEF S

\* An argument for each of n items, and none that is required is missing.
Full(args, min, n) ==
    /\ args \in Seq(AllValues) /\ Len(args) = n
    /\ \A i \in 1..n : i <= min => args[i] # "null"

LEMMA ListsAreFull ==
    ASSUME NEW items, NEW min, NEW m \in Nat, NEW f, IsLists(f, items, min, m)
    PROVE  \A args \in f[m] : Full(args, min, m)
  <1> DEFINE S == {n \in Nat : n <= m => \A args \in f[n] : Full(args, min, n)}
  <1>1. 0 \in S
    <2>1. f[0] = {<<>>}
      BY DEF IsLists, Shortest
    <2>2. Full(<<>>, min, 0)
      BY DEF Full
    <2> QED BY <2>1, <2>2
  <1>2. ASSUME NEW n \in Nat, n \in S PROVE n + 1 \in S
    <2> SUFFICES ASSUME n + 1 <= m, NEW args \in f[n + 1]
                 PROVE  Full(args, min, n + 1)
      OBVIOUS
    <2>1. f[n + 1] = Longer(f[n], items, min, n + 1)
      <3>1. n + 1 \in 0..m /\ n + 1 # 0 /\ (n + 1) - 1 = n
        OBVIOUS
      <3> QED BY <3>1 DEF IsLists
    <2>2. PICK shorter \in f[n], value \in ItemValues(items[n + 1], n + 1 <= min) :
             args = Append(shorter, value)
      BY <2>1 DEF Longer
    <2>3. Full(shorter, min, n)
      BY <1>2, <2>2
    <2>4. value \in AllValues
      BY <2>2 DEF ItemValues, AllValues
    <2>5. n + 1 <= min => value # "null"
      BY <2>2 DEF ItemValues
    <2>6. args \in Seq(AllValues) /\ Len(args) = n + 1 /\ args[n + 1] = value
      BY <2>2, <2>3, <2>4 DEF Full
    <2>7. ASSUME NEW i \in 1..(n + 1), i <= min PROVE args[i] # "null"
      <3>1. CASE i = n + 1
        BY <2>5, <2>6, <2>7, <3>1
      <3>2. CASE i # n + 1
        <4>1. i \in 1..n /\ args[i] = shorter[i]
          BY <2>2, <2>3, <2>4, <3>2 DEF Full
        <4> QED BY <2>3, <2>7, <4>1 DEF Full
      <3> QED BY <3>1, <3>2
    <2> QED BY <2>6, <2>7 DEF Full
  <1> HIDE DEF S
  <1>3. Nat \subseteq S
    BY <1>1, <1>2, SetInduction
  <1>4. m \in S
    BY <1>3
  <1> QED BY <1>4 DEF S

\* checkArgs fills in every argument, given or null, null only where none is required.
LEMMA ArgumentsAreFull ==
    ASSUME NEW command, Len(Schemas!CLI_ARGS[command].items) \in Nat,
           NEW args \in Accepted(command)
    PROVE  /\ DOMAIN args = 1..Len(Schemas!CLI_ARGS[command].items)
           /\ \A i \in DOMAIN args : i <= Schemas!CLI_ARGS[command].minItems => args[i] # "null"
  <1> DEFINE items == Schemas!CLI_ARGS[command].items
             min == Schemas!CLI_ARGS[command].minItems
  <1>1. PICK f : IsLists(f, items, min, Len(items)) /\ args \in f[Len(items)]
    <2> DEFINE f == CHOOSE g : IsLists(g, items, min, Len(items))
    <2>1. IsLists(f, items, min, Len(items))
      BY ListsExist
    <2>2. args \in f[Len(items)]
      BY DEF Accepted, IsLists, Longer, Shortest
    <2> QED BY <2>1, <2>2
  <1>2. Full(args, min, Len(items))
    <2>1. Len(items) \in Nat
      OBVIOUS
    <2> HIDE DEF items, min
    <2> QED BY <1>1, <2>1, ListsAreFull
  <1> QED BY <1>2 DEF Full

\* A key that a script uses is one of the arguments of its command, and a required one
\* but for infer.
LEMMA KeysAreArguments ==
    ASSUME NEW command, NEW step \in Uses(command), step[1] = "key"
    PROVE  /\ Len(Schemas!CLI_ARGS[command].items) \in Nat
           /\ step[2] \in 1..Len(Schemas!CLI_ARGS[command].items)
           /\ \/ step[2] <= Schemas!CLI_ARGS[command].minItems
              \/ command = "infer" /\ step[2] = 8
  <1>1. /\ Schemas!CLI_ARGS["send_tokens"] = Schemas!send_tokens
        /\ Schemas!CLI_ARGS["deploy_contract"] = Schemas!deploy_contract
        /\ Schemas!CLI_ARGS["call_contract_func"] = Schemas!call_contract_func
        /\ Schemas!CLI_ARGS["tx_preorder"] = Schemas!tx_preorder
        /\ Schemas!CLI_ARGS["infer"] = Schemas!infer
        /\ Schemas!CLI_ARGS["infer_status"] = Schemas!infer_status
        /\ Schemas!CLI_ARGS["infer_wait"] = Schemas!infer_wait
        /\ Schemas!CLI_ARGS["infer_stake"] = Schemas!infer_stake
        /\ Schemas!CLI_ARGS["infer_unlock"] = Schemas!infer_unlock
        /\ Schemas!CLI_ARGS["stack"] = Schemas!stack
        /\ Schemas!CLI_ARGS["stack_extend"] = Schemas!stack_extend
    BY DEF Schemas!CLI_ARGS
  <1>2. /\ Len(Schemas!send_tokens.items) = 6 /\ Schemas!send_tokens.minItems = 5
        /\ Len(Schemas!deploy_contract.items) = 5 /\ Schemas!deploy_contract.minItems = 5
        /\ Len(Schemas!call_contract_func.items) = 6 /\ Schemas!call_contract_func.minItems = 6
        /\ Len(Schemas!tx_preorder.items) = 4 /\ Schemas!tx_preorder.minItems = 4
        /\ Len(Schemas!infer.items) = 9 /\ Schemas!infer.minItems = 7
        /\ Len(Schemas!infer_status.items) = 2 /\ Schemas!infer_status.minItems = 2
        /\ Len(Schemas!infer_wait.items) = 3 /\ Schemas!infer_wait.minItems = 2
        /\ Len(Schemas!infer_stake.items) = 6 /\ Schemas!infer_stake.minItems = 4
        /\ Len(Schemas!infer_unlock.items) = 3 /\ Schemas!infer_unlock.minItems = 1
        /\ Len(Schemas!stack.items) = 6 /\ Schemas!stack.minItems = 4
        /\ Len(Schemas!stack_extend.items) = 3 /\ Schemas!stack_extend.minItems = 3
    BY DEF Schemas!Takes,
           Schemas!send_tokens, Schemas!deploy_contract, Schemas!call_contract_func,
           Schemas!tx_preorder, Schemas!infer, Schemas!infer_status, Schemas!infer_wait,
           Schemas!infer_stake, Schemas!infer_unlock, Schemas!stack, Schemas!stack_extend
  <1>3. \/ command = "send_tokens" /\ step[2] = 5
        \/ command = "deploy_contract" /\ step[2] = 5
        \/ command = "call_contract_func" /\ step[2] = 6
        \/ command = "tx_preorder" /\ step[2] = 2
        \/ command = "infer" /\ step[2] = 8
        \/ command = "infer_status" /\ step[2] = 2
        \/ command = "infer_wait" /\ step[2] = 2
        \/ command = "infer_stake" /\ step[2] = 4
        \/ command = "infer_unlock" /\ step[2] = 1
        \/ command = "stack" /\ step[2] = 4
        \/ command = "stack_extend" /\ step[2] = 3
    BY DEF Uses, Key, Needs
  <1> DEFINE Arity(c) == Len(Schemas!CLI_ARGS[c].items)
             Required(c) == Schemas!CLI_ARGS[c].minItems
  <1>4. /\ Arity("send_tokens") = 6 /\ Required("send_tokens") = 5
        /\ Arity("deploy_contract") = 5 /\ Required("deploy_contract") = 5
        /\ Arity("call_contract_func") = 6 /\ Required("call_contract_func") = 6
        /\ Arity("tx_preorder") = 4 /\ Required("tx_preorder") = 4
        /\ Arity("infer") = 9 /\ Required("infer") = 7
        /\ Arity("infer_status") = 2 /\ Required("infer_status") = 2
        /\ Arity("infer_wait") = 3 /\ Required("infer_wait") = 2
        /\ Arity("infer_stake") = 6 /\ Required("infer_stake") = 4
        /\ Arity("infer_unlock") = 3 /\ Required("infer_unlock") = 1
        /\ Arity("stack") = 6 /\ Required("stack") = 4
        /\ Arity("stack_extend") = 3 /\ Required("stack_extend") = 3
    BY <1>1, <1>2, Zenon DEF Arity, Required
  <1> HIDE DEF Arity, Required
  <1>5. /\ Arity(command) \in Nat /\ step[2] \in 1..Arity(command)
        /\ step[2] <= Required(command) \/ (command = "infer" /\ step[2] = 8)
    BY <1>3, <1>4
  <1> QED BY <1>5 DEF Arity, Required

(***************************************************************************)
(* What handlers are given                                                 *)
(***************************************************************************)
HandledInv ==
    /\ pc \in Nat \ {0}
    /\ invocation.args \in Accepted(invocation.command)
    /\ HandlersServed

LEMMA HandledInit == CLIInit => HandledInv
  <1> SUFFICES ASSUME CLIInit PROVE HandledInv
    OBVIOUS
  <1>1. invocation.args \in Accepted(invocation.command)
    <2> DEFINE Of(command) ==
            [command : {command}, args : Accepted(command), switches : Switches,
             files : IF command = "gaia_restore_bucket" THEN 0..MaxFiles ELSE {0},
             sameNetwork : IF command \in {"gaia_restore_bucket", "gaia_dump_bucket"}
                           THEN BOOLEAN ELSE {TRUE}]
    <2>1. PICK command \in Commands \ {"help"} : invocation \in Of(command)
      BY DEF CLIInit, Invocations
    <2>2. invocation.command = command /\ invocation.args \in Accepted(command)
      BY <2>1
    <2> QED BY <2>2
  <1> QED BY <1>1 DEF CLIInit, HandledInv, HandlersServed

LEMMA HandledNext == HandledInv /\ [CLIMain]_commandVars => HandledInv'
  <1> SUFFICES ASSUME HandledInv, [CLIMain]_commandVars PROVE HandledInv'
    OBVIOUS
  <1>1. CASE UNCHANGED commandVars
    BY <1>1 DEF commandVars, HandledInv, HandlersServed, LeftOut, Argument, Script
  <1>2. CASE CLIMain
    <2>0. /\ invocation' = invocation /\ Script' = Script
          /\ (invocation.args \in Accepted(invocation.command))'
      BY <1>2, InvocationStays DEF HandledInv
    <2>1. CASE Quietly
      <3>1. pc \in 1..Len(Script) /\ pc' \in Nat \ {0}
        BY <2>1, ScriptLength DEF Quietly, HandledInv
      <3>2. CASE said' # "unusable"
        BY <2>0, <3>1, <3>2 DEF HandledInv, HandlersServed
      <3>3. CASE said' = said
        BY <2>0, <3>1, <3>3 DEF HandledInv, HandlersServed, LeftOut, Argument
      <3>4. CASE Script[pc][1] = "needs" /\ Argument(Script[pc][2]) = "null"
        <4>1. Script[pc] \in Uses(invocation.command)
          BY <3>1, <3>4, StepsOfScript
        <4>2. LeftOut
          BY <3>4, <4>1 DEF Uses, Needs, Key, LeftOut
        <4> QED BY <2>0, <3>1, <4>2 DEF HandledInv, HandlersServed, LeftOut, Argument
      <3>5. CASE Script[pc][1] = "key" /\ Argument(Script[pc][2]) \in {"bundle", "null"}
        <4>1. Script[pc] \in Uses(invocation.command)
          BY <3>1, <3>5, StepsOfScript
        <4>2. /\ Script[pc][2] \in DOMAIN invocation.args
              /\ Argument(Script[pc][2]) = "null" =>
                    invocation.command = "infer" /\ Script[pc][2] = 8
          BY <3>5, <4>1, KeysAreArguments, ArgumentsAreFull DEF HandledInv, Argument
        <4>3. LeftOut \/ \E i \in DOMAIN invocation.args : Argument(i) = "bundle"
          BY <3>5, <4>2 DEF LeftOut
        <4> QED BY <2>0, <3>1, <4>3 DEF HandledInv, HandlersServed, LeftOut, Argument
      <3>6. CASE Script[pc][1] = "uncallable"
        <4>1. Script = <<<<"uncallable">>>>
          BY <3>1, <3>6, StepsOfScript
        <4> QED BY <2>0, <3>1, <4>1 DEF HandledInv, HandlersServed
      <3> QED BY <2>1, <3>2, <3>3, <3>4, <3>5, <3>6 DEF Quietly
    <2>2. CASE Submit
      <3>1. pc \in 1..Len(Script) /\ Script[pc][1] = "submits"
        BY <2>2, ScriptLength DEF Submit, Doing, HandledInv
      <3>2. Script[pc][2] \in {Raised, "printed", "ignored"}
        BY <3>1, StepsOfScript DEF Submits
      <3>3. pc' \in {pc, pc + 1} /\ (said' = said \/ said' \in {"error", "refused"})
        BY <2>2, <3>2 DEF Submit, GoOn, Errs, Ends, Raised
      <3> QED BY <2>0, <3>1, <3>3 DEF HandledInv, HandlersServed, LeftOut, Argument
    <2>3. CASE SubmitAll
      <3>1. pc' \in {pc, pc + 1} /\ (said' = said \/ said' = "error")
        BY <2>3 DEF SubmitAll, GoOn, Errs, Ends
      <3> QED BY <2>0, <3>1 DEF HandledInv, HandlersServed, LeftOut, Argument
    <2>4. CASE Finish
      BY <2>0, <2>4 DEF HandledInv, HandlersServed, Finish, Ends
    <2> QED BY <1>2, <2>1, <2>2, <2>3, <2>4, StepShape
  <1> QED BY <1>1, <1>2

\* Of the argument lists the schema lets through, a handler throws on those only in which
\* one of four optional arguments is left out, or a bundle is to sign as one key: no
\* required argument is ever missing, and no other optional one is needed.
THEOREM HandlersAreServed == CLISpec => []HandlersServed
  <1>1. HandledInv => HandlersServed
    BY DEF HandledInv
  <1> QED BY <1>1, HandledInit, HandledNext, PTL DEF CLISpec

================================================================================
