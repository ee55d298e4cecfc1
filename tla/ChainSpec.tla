----------------------------- MODULE ChainSpec -----------------------------
(***************************************************************************)
(* Chain specifications of the node (node/src/chain_spec.rs, load_spec of   *)
(* command.rs) and the genesis presets of the runtime they name             *)
(* (runtime/src/genesis_config_presets.rs).                                 *)
(***************************************************************************)
EXTENDS Naturals

CONSTANTS
    EXISTENTIAL_DEPOSIT,
    EndowedWith,        \* 1 << 60, in the same unit
    ChainSpecFile,      \* files a --chain argument may name
    None                \* Option::None, or an Err

RELAY_CHAIN == "rococo-local"

PARACHAIN_ID == 1000

\* Sr25519Keyring::well_known, as far as the presets and the demo name it.
well_known == {"Alice", "Bob", "Charlie"}

-----------------------------------------------------------------------------
(* The runtime's presets. *)

template_session_keys(keys) == [aura |-> keys]

\* Faulty variant: every collator gets the same session key.
genesis_one_key(invulnerables, endowed_accounts, root, id) ==
    [balances |-> [a \in endowed_accounts |-> EndowedWith],
     parachain_id |-> id,
     invulnerables |-> {pair[1] : pair \in invulnerables},
     candidacy_bond |-> EXISTENTIAL_DEPOSIT * 16,
     session_keys |-> {<<pair[1], template_session_keys("AliceAura")>> : pair \in invulnerables},
     sudo |-> root]

\* invulnerables is a set of pairs of an account and its Aura key.
testnet_genesis(invulnerables, endowed_accounts, root, id) ==
    [balances |-> [a \in endowed_accounts |-> EndowedWith],
     parachain_id |-> id,
     invulnerables |-> {pair[1] : pair \in invulnerables},
     candidacy_bond |-> EXISTENTIAL_DEPOSIT * 16,
     session_keys |-> {<<pair[1], template_session_keys(pair[2])>> : pair \in invulnerables},
     sudo |-> root]

local_testnet_genesis ==
    testnet_genesis({<<"Alice", "AliceAura">>, <<"Bob", "BobAura">>},
                    well_known, "Alice", PARACHAIN_ID)

development_config_genesis ==
    testnet_genesis({<<"Alice", "AliceAura">>, <<"Bob", "BobAura">>},
                    well_known, "Alice", PARACHAIN_ID)

\* Faulty variant: the arm for the development preset is missing.
get_local_preset(id) == IF id = "local_testnet" THEN local_testnet_genesis ELSE None

get_preset(id) ==
    CASE id = "local_testnet" -> local_testnet_genesis
      [] id = "development" -> development_config_genesis
      [] OTHER -> None

-----------------------------------------------------------------------------
(* The node's chain specifications. *)

development_chain_spec ==
    [id |-> "dev", preset |-> "development", relay_chain |-> RELAY_CHAIN]

local_chain_spec ==
    [id |-> "local_testnet", preset |-> "local_testnet", relay_chain |-> RELAY_CHAIN]

\* A file holds any specification, with its genesis in it, or fails to parse.
from_json_file(path) == ChainSpecFile[path]

load_spec(id) ==
    CASE id = "dev" -> development_chain_spec
      [] id \in {"template-rococo", "", "local"} -> local_chain_spec
      [] OTHER -> from_json_file(id)

\* Chains that need no file.
Builtin == {"dev", "template-rococo", "", "local"}

\* The endowment of the presets is many times the bond of 16 existential deposits.
ASSUME ChainSpecAssumption ==
    /\ EXISTENTIAL_DEPOSIT \in Nat /\ EndowedWith \in Nat
    /\ EndowedWith >= EXISTENTIAL_DEPOSIT * 16
    /\ None \notin {development_chain_spec, local_chain_spec,
                   development_config_genesis, local_testnet_genesis}
=============================================================================
