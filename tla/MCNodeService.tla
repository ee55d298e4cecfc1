--------------------------- MODULE MCNodeService ---------------------------
(* Command lines for NodeService: every chain and subcommand with the default *)
(* options, and every combination of options on the default chain.            *)
EXTENDS NodeService

MCChainSpecFile ==
    [p \in {"plain.json", "elsewhere.json", "missing.json"} |->
        CASE p = "plain.json" -> [id |-> "local_testnet", preset |-> "raw", relay_chain |-> RELAY_CHAIN]
          [] p = "elsewhere.json" -> [id |-> "other", preset |-> "raw", relay_chain |-> "unknown"]
          [] OTHER -> None]

MCSdkEssential == {"relay-chain-node", "cumulus-consensus"}

MCKnownRelayChain == {"rococo-local", "westend-local"}

Command(cmd, chain, relay_chain) ==
    [cmd |-> cmd, chain |-> chain, relay_chain |-> relay_chain, role |-> "Full",
     relay_mode |-> "Embedded", telemetry |-> FALSE, offchain |-> TRUE,
     no_hardware_benchmarks |-> FALSE]

Chains == Builtin \cup DOMAIN MCChainSpecFile

MCArgs ==
    {Command("None", chain, relay) : chain \in Chains, relay \in {"", "westend-local", "unknown"}}
    \cup {Command(cmd, chain, "") : cmd \in Subcommand, chain \in {"dev", "elsewhere.json", "missing.json"}}
    \cup [cmd : {"None"}, chain : {""}, relay_chain : {""}, role : {"Full", "Authority"},
          relay_mode : {"Embedded", "Rpc"}, telemetry : BOOLEAN, offchain : BOOLEAN,
          no_hardware_benchmarks : BOOLEAN]
=============================================================================
