---------------------------- MODULE CommandSchemas ----------------------------
(***************************************************************************)
(* The commands of the command line: the schema CLI_ARGS of argparse.ts.   *)
(*                                                                         *)
(* An item has its name and the patterns a value may match, any of which   *)
(* will do; an item without patterns takes anything. The first minItems    *)
(* items have to be given.                                                 *)
(***************************************************************************)
EXTENDS Naturals, Sequences

Item(name, patterns) == [name |-> name, patterns |-> patterns]
Takes(min, max, items) == [items |-> items, minItems |-> min, maxItems |-> max]

Anything == {}
NameOrSubdomain == {"name", "subdomain"}
PRIVATE_KEY_PATTERN_ANY == {"key", "multisigKey", "segwitKey", "nosign"}

announce == Takes(2, 2, <<Item("message_hash", {"zonefileHash"}),
    Item("owner_key", PRIVATE_KEY_PATTERN_ANY)>>)
authenticator == Takes(2, 4, <<Item("app_gaia_hub", {"url"}),
    Item("backup_phrase", {"text"}), Item("profile_gaia_hub", {"url"}),
    Item("port", {"leadingDigits"})>>)
balance == Takes(1, 1, <<Item("address", {"address", "stacksAddress"})>>)
can_stack == Takes(4, 4, <<Item("amount", {"digits"}), Item("cycles", {"digits"}),
    Item("pox_address", {"address"}), Item("stx_address", {"stacksAddress"})>>)
call_contract_func == Takes(6, 6, <<Item("contract_address", {"stacksAddress"}),
    Item("contract_name", {"contractName"}), Item("function_name", {"functionName"}),
    Item("fee", {"digits"}), Item("nonce", {"digits"}),
    Item("payment_key", PRIVATE_KEY_PATTERN_ANY)>>)
call_read_only_contract_func == Takes(4, 4, <<
    Item("contract_address", {"stacksAddress"}),
    Item("contract_name", {"contractName"}), Item("function_name", {"functionName"}),
    Item("sender_address", {"stacksAddress"})>>)
decode_cv == Takes(1, 4, <<Item("clarity_value", {"dash", "hex"}),
    Item("format", {"format"})>>)
convert_address == Takes(1, 1, <<Item("address", {"address", "stacksAddress"})>>)
decrypt_keychain == Takes(1, 2, <<Item("encrypted_backup_phrase", {"oneWord"}),
    Item("password", {"text"})>>)
deploy_contract == Takes(5, 5, <<Item("source_file", {"text"}),
    Item("contract_name", {"contractName"}), Item("fee", {"digits"}),
    Item("nonce", {"digits"}), Item("payment_key", PRIVATE_KEY_PATTERN_ANY)>>)
docs == Takes(0, 1, <<Item("format", {"json"})>>)
encrypt_keychain == Takes(1, 2, <<Item("backup_phrase", {"text"}),
    Item("password", {"text"})>>)
faucet == Takes(1, 1, <<Item("address", {"address", "stacksAddress"})>>)
gaia_dump_bucket == Takes(5, 5, <<
    Item("name_or_id_address", {"name", "subdomain", "idAddress"}),
    Item("app_origin", {"url"}), Item("gaia_hub", {"url"}),
    Item("backup_phrase", Anything), Item("dump_dir", {"text"})>>)
gaia_getfile == Takes(3, 6, <<Item("blockstack_id", NameOrSubdomain),
    Item("app_origin", {"url"}), Item("filename", {"text"}),
    Item("app_private_key", {"uncompressedKey"}), Item("decrypt", {"boolean"}),
    Item("verify", {"boolean"})>>)
gaia_putfile == Takes(4, 6, <<Item("gaia_hub", {"url"}),
    Item("app_private_key", {"uncompressedKey"}), Item("data_path", {"text"}),
    Item("gaia_filename", {"text"}), Item("encrypt", {"boolean"}),
    Item("sign", {"boolean"})>>)
gaia_deletefile == Takes(3, 4, <<Item("gaia_hub", {"url"}),
    Item("app_private_key", {"uncompressedKey"}), Item("gaia_filename", {"text"}),
    Item("was_signed", {"boolean"})>>)
gaia_listfiles == Takes(2, 3, <<Item("gaia_hub", {"url"}),
    Item("app_private_key", {"uncompressedKey"})>>)
gaia_restore_bucket == Takes(5, 5, <<
    Item("name_or_id_address", {"name", "subdomain", "idAddress"}),
    Item("app_origin", {"url"}), Item("gaia_hub", {"url"}),
    Item("backup_phrase", Anything), Item("dump_dir", {"text"})>>)
gaia_sethub == Takes(5, 5, <<Item("blockstack_id", NameOrSubdomain),
    Item("owner_gaia_hub", {"url"}), Item("app_origin", {"url"}),
    Item("app_gaia_hub", {"url"}), Item("backup_phrase", Anything)>>)
get_account_history == Takes(2, 2, <<Item("address", {"stacksAddress"}),
    Item("page", {"digits"})>>)
get_account_at == Takes(2, 2, <<Item("address", {"stacksAddress"}),
    Item("blocknumber", {"digits"})>>)
get_address == Takes(1, 1, <<Item("private_key", PRIVATE_KEY_PATTERN_ANY)>>)
get_blockchain_record == Takes(1, 1, <<Item("blockstack_id", NameOrSubdomain)>>)
get_blockchain_history == Takes(1, 2, <<Item("blockstack_id", NameOrSubdomain),
    Item("page", {"digits"})>>)
get_confirmations == Takes(1, 1, <<Item("txid", {"txid"})>>)
get_namespace_blockchain_record == Takes(1, 1, <<Item("namespace_id", {"namespace"})>>)
get_app_keys == Takes(3, 3, <<Item("backup_phrase", Anything),
    Item("index", {"digits"}), Item("app_origin", {"url"})>>)
get_owner_keys == Takes(1, 2, <<Item("backup_phrase", Anything),
    Item("index", {"digits"})>>)
get_payment_key == Takes(1, 1, <<Item("backup_phrase", Anything)>>)
get_stacks_wallet_key == Takes(1, 2, <<Item("backup_phrase", Anything),
    Item("derivation_path", Anything)>>)
migrate_subdomains == Takes(1, 2, <<Item("backup_phrase", Anything),
    Item("registrar_url", Anything)>>)
get_zonefile == Takes(1, 1, <<Item("zonefile_hash", {"zonefileHash"})>>)
help == Takes(0, 1, <<Item("command", Anything)>>)
lookup == Takes(1, 1, <<Item("blockstack_id", NameOrSubdomain)>>)
names == Takes(1, 1, <<Item("id_address", {"idAddress"})>>)
make_keychain == Takes(0, 2, <<Item("backup_phrase", Anything),
    Item("derivation_path", Anything)>>)
make_zonefile == Takes(3, 4, <<Item("blockstack_id", NameOrSubdomain),
    Item("id_address", {"idAddress"}), Item("gaia_url_prefix", {"text"}),
    Item("resolver_url", {"text"})>>)
name_import == Takes(4, 6, <<Item("blockstack_id", {"name"}),
    Item("id_address", {"idAddress"}), Item("gaia_url_prefix", {"text"}),
    Item("reveal_key", PRIVATE_KEY_PATTERN_ANY), Item("zonefile", {"text"}),
    Item("zonefile_hash", {"zonefileHash"})>>)
namespace_preorder == Takes(3, 3, <<Item("namespace_id", {"namespace"}),
    Item("reveal_address", {"address"}), Item("payment_key", PRIVATE_KEY_PATTERN_ANY)>>)
namespace_reveal == Takes(10, 10, <<Item("namespace_id", {"namespace"}),
    Item("reveal_address", {"address"}), Item("version", {"integer"}),
    Item("lifetime", {"integer"}), Item("coefficient", {"integer"}),
    Item("base", {"integer"}), Item("price_buckets", {"buckets"}),
    Item("nonalpha_discount", {"integer"}), Item("no_vowel_discount", {"integer"}),
    Item("payment_key", PRIVATE_KEY_PATTERN_ANY)>>)
namespace_ready == Takes(2, 2, <<Item("namespace_id", {"namespace"}),
    Item("reveal_key", PRIVATE_KEY_PATTERN_ANY)>>)
price == Takes(1, 1, <<Item("blockstack_id", {"name"})>>)
price_namespace == Takes(1, 1, <<Item("namespace_id", {"namespace"})>>)
profile_sign == Takes(2, 2, <<Item("profile", Anything), Item("owner_key", {"key"})>>)
profile_store == Takes(4, 4, <<Item("user_id", {"name", "subdomain", "idAddress"}),
    Item("profile", Anything), Item("owner_key", {"key"}), Item("gaia_hub", Anything)>>)
profile_verify == Takes(2, 2, <<Item("profile", Anything),
    Item("id_address", {"idAddress", "publicKey"})>>)
renew == Takes(3, 6, <<Item("blockstack_id", {"name"}),
    Item("owner_key", PRIVATE_KEY_PATTERN_ANY),
    Item("payment_key", PRIVATE_KEY_PATTERN_ANY), Item("new_id_address", {"idAddress"}),
    Item("zonefile", Anything), Item("zonefile_hash", {"zonefileHash"})>>)
register == Takes(4, 4, <<Item("fully-qualified-name", {"name"}),
    Item("owner_key", {"key"}), Item("salt", Anything), Item("zonefile", Anything)>>)
register_addr == Takes(4, 5, <<Item("blockstack_id", {"name"}),
    Item("id-address", {"idAddress"}), Item("payment_key", PRIVATE_KEY_PATTERN_ANY),
    Item("gaia_url_prefix", Anything), Item("zonefile", Anything)>>)
revoke == Takes(3, 3, <<Item("blockstack_id", {"name"}),
    Item("owner_key", PRIVATE_KEY_PATTERN_ANY),
    Item("payment_key", PRIVATE_KEY_PATTERN_ANY)>>)
send_btc == Takes(3, 3, <<Item("recipient_address", {"address"}),
    Item("amount", {"integer"}), Item("payment_key", PRIVATE_KEY_PATTERN_ANY)>>)
send_tokens == Takes(5, 6, <<Item("address", {"stacksAddress"}),
    Item("amount", {"digits"}), Item("fee", {"digits"}), Item("nonce", {"digits"}),
    Item("payment_key", PRIVATE_KEY_PATTERN_ANY), Item("memo", {"memo"})>>)
infer == Takes(7, 9, <<Item("address", {"stacksAddress"}), Item("amount", {"digits"}),
    Item("userInput", {"prompt"}), Item("context", {"prompt"}),
    Item("modelName", {"prompt"}), Item("fee", {"digits"}), Item("nonce", {"digits"}),
    Item("payment_key", PRIVATE_KEY_PATTERN_ANY), Item("encrypt", {"boolean"})>>)
infer_status == Takes(2, 2, <<Item("task_id", {"text"}),
    Item("private_key", PRIVATE_KEY_PATTERN_ANY)>>)
infer_wait == Takes(2, 3, <<Item("task_id", {"text"}),
    Item("private_key", PRIVATE_KEY_PATTERN_ANY), Item("timeout_seconds", {"digits"})>>)
infer_stake == Takes(4, 6, <<Item("amount", {"digits"}),
    Item("lock_period", {"digits"}), Item("node_id", {"text"}),
    Item("private_key", PRIVATE_KEY_PATTERN_ANY), Item("fee", {"digits"}),
    Item("nonce", {"digits"})>>)
infer_stake_info == Takes(1, 1, <<Item("address", {"stacksAddress"})>>)
infer_unlock == Takes(1, 3, <<Item("private_key", PRIVATE_KEY_PATTERN_ANY),
    Item("fee", {"digits"}), Item("nonce", {"digits"})>>)
stack == Takes(4, 6, <<Item("amount", {"digits"}), Item("cycles", {"digits"}),
    Item("pox_address", {"address"}), Item("private_key", PRIVATE_KEY_PATTERN_ANY),
    Item("fee", {"digits"}), Item("nonce", {"digits"})>>)
stacking_status == Takes(1, 1, <<Item("pox_address", {"stacksAddress"})>>)
stack_extend == Takes(3, 3, <<Item("extendCycles", {"digits"}),
    Item("pox_address", {"address"}), Item("private_key", PRIVATE_KEY_PATTERN_ANY)>>)
transfer == Takes(5, 5, <<Item("blockstack_id", {"name"}),
    Item("new_id_address", {"idAddress"}), Item("keep_zonefile", {"trueOrFalse"}),
    Item("owner_key", PRIVATE_KEY_PATTERN_ANY),
    Item("payment_key", PRIVATE_KEY_PATTERN_ANY)>>)
tx_preorder == Takes(4, 4, <<Item("fully-qualified-name", {"name"}),
    Item("payment_key", PRIVATE_KEY_PATTERN_ANY), Item("salt", Anything),
    Item("stx_to_burn", Anything)>>)
tx_register == Takes(3, 5, <<Item("blockstack_id", {"name"}),
    Item("id_address", {"idAddress"}), Item("payment_key", PRIVATE_KEY_PATTERN_ANY),
    Item("zonefile", Anything), Item("zonefile_hash", {"zonefileHash"})>>)
update == Takes(4, 5, <<Item("blockstack_id", {"name"}), Item("zonefile", Anything),
    Item("owner_key", PRIVATE_KEY_PATTERN_ANY),
    Item("payment_key", PRIVATE_KEY_PATTERN_ANY),
    Item("zonefile_hash", {"zonefileHash"})>>)
whois == Takes(1, 1, <<Item("blockstack_id", NameOrSubdomain)>>)
zonefile_push == Takes(1, 1, <<Item("zonefile", Anything)>>)
get_did_configuration == Takes(3, 3, <<Item("blockstack_id", NameOrSubdomain),
    Item("domain", NameOrSubdomain), Item("owner_key", {"key"})>>)

CLI_ARGS == [
    announce |-> announce, authenticator |-> authenticator, balance |-> balance,
    can_stack |-> can_stack, call_contract_func |-> call_contract_func,
    call_read_only_contract_func |-> call_read_only_contract_func,
    decode_cv |-> decode_cv, convert_address |-> convert_address,
    decrypt_keychain |-> decrypt_keychain, deploy_contract |-> deploy_contract,
    docs |-> docs, encrypt_keychain |-> encrypt_keychain, faucet |-> faucet,
    gaia_dump_bucket |-> gaia_dump_bucket, gaia_getfile |-> gaia_getfile,
    gaia_putfile |-> gaia_putfile, gaia_deletefile |-> gaia_deletefile,
    gaia_listfiles |-> gaia_listfiles, gaia_restore_bucket |-> gaia_restore_bucket,
    gaia_sethub |-> gaia_sethub, get_account_history |-> get_account_history,
    get_account_at |-> get_account_at, get_address |-> get_address,
    get_blockchain_record |-> get_blockchain_record,
    get_blockchain_history |-> get_blockchain_history,
    get_confirmations |-> get_confirmations,
    get_namespace_blockchain_record |-> get_namespace_blockchain_record,
    get_app_keys |-> get_app_keys, get_owner_keys |-> get_owner_keys,
    get_payment_key |-> get_payment_key,
    get_stacks_wallet_key |-> get_stacks_wallet_key,
    migrate_subdomains |-> migrate_subdomains, get_zonefile |-> get_zonefile,
    help |-> help, lookup |-> lookup, names |-> names, make_keychain |-> make_keychain,
    make_zonefile |-> make_zonefile, name_import |-> name_import,
    namespace_preorder |-> namespace_preorder, namespace_reveal |-> namespace_reveal,
    namespace_ready |-> namespace_ready, price |-> price,
    price_namespace |-> price_namespace, profile_sign |-> profile_sign,
    profile_store |-> profile_store, profile_verify |-> profile_verify, renew |-> renew,
    register |-> register, register_addr |-> register_addr, revoke |-> revoke,
    send_btc |-> send_btc, send_tokens |-> send_tokens, infer |-> infer,
    infer_status |-> infer_status, infer_wait |-> infer_wait,
    infer_stake |-> infer_stake, infer_stake_info |-> infer_stake_info,
    infer_unlock |-> infer_unlock, stack |-> stack, stacking_status |-> stacking_status,
    stack_extend |-> stack_extend, transfer |-> transfer, tx_preorder |-> tx_preorder,
    tx_register |-> tx_register, update |-> update, whois |-> whois,
    zonefile_push |-> zonefile_push, get_did_configuration |-> get_did_configuration]

(***************************************************************************)
(* help COMMAND prints the usage line, an item per argument. A name in     *)
(* brackets is one that need not be given.                                 *)
(***************************************************************************)
formatCommandHelpLines(command) ==
    [i \in DOMAIN CLI_ARGS[command].items |->
        [name |-> CLI_ARGS[command].items[i].name,
         optional |-> i > CLI_ARGS[command].minItems]]

\* One command, the list of all commands, or the help of each.
makeCommandUsageString(word) ==
    CASE word = <<"all">> -> <<"helps", DOMAIN CLI_ARGS>>
      [] word # <<>> /\ word[1] \in DOMAIN CLI_ARGS \ {"help"} ->
            <<"usage", {word[1]}>>
      [] OTHER -> <<"list", DOMAIN CLI_ARGS>>

================================================================================
