---------------------------- MODULE NodeService ----------------------------
(***************************************************************************)
(* The node process: the command line (node/src/command.rs, cli.rs) and     *)
(* start_parachain_node (node/src/service.rs).                              *)
(*                                                                         *)
(* Start-up is one step per call that can fail or that starts tasks.  The   *)
(* tasks run from the moment they are spawned, so they may end while start- *)
(* up is still going on.  A value that is dropped on an early return takes  *)
(* its tasks with it: the TaskManager owns them all.                        *)
(***************************************************************************)
EXTENDS ChainSpec, FiniteSets

CONSTANTS
    Args,               \* command lines
    KnownRelayChain,    \* chains the relay chain node knows
    SdkEssential,       \* essential tasks among those the SDK's starters spawn
    MaxEnded            \* bound: tasks that end by themselves in one process

VARIABLES
    pc,         \* the call the process is at; "down" when there is no process
    cli,        \* Cli: the arguments of the process
    handles,    \* what start-up has obtained
    tasks,      \* tasks that run
    ended,      \* tasks that have ended by themselves
    signalled,  \* SIGINT or SIGTERM has arrived
    outcome     \* how the last process ended

nodeVars == <<pc, cli, handles, tasks, ended, signalled, outcome>>

Subcommand ==
    {"BuildSpec", "CheckBlock", "ExportBlocks", "ExportState", "ImportBlocks", "Revert",
     "ExportChainSpec", "PurgeChain", "ExportGenesisHead", "ExportGenesisWasm",
     "BenchmarkPallet", "BenchmarkStorage", "BenchmarkOther", "BenchmarkBlock",
     "BenchmarkMachine"}

\* chain and relay_chain are the --chain arguments of the node and of its relay chain
\* node, "" without one.
Cli ==
    [cmd : Subcommand \cup {"None"}, chain : Builtin \cup DOMAIN ChainSpecFile,
     relay_chain : STRING, role : {"Full", "Authority"},
     relay_mode : {"Embedded", "Rpc"}, telemetry : BOOLEAN, offchain : BOOLEAN,
     no_hardware_benchmarks : BOOLEAN]

ASSUME NodeServiceAssumption ==
    /\ RELAY_CHAIN \in KnownRelayChain
    /\ Args \subseteq Cli /\ Args # {}
    /\ MaxEnded \in Nat

spec == load_spec(cli.chain)

is_authority == cli.role = "Authority"

-----------------------------------------------------------------------------
(* Leaving.  Whatever start-up has built goes out of scope. *)

exit(result) ==
    /\ pc' = "down" /\ outcome' = result /\ signalled' = FALSE
    /\ handles' = {} /\ ended' = {} /\ tasks' = {}
    /\ UNCHANGED cli

\* One step of start-up: what it obtains, what it spawns, and the step after it.
proceed(next, obtained, spawned) ==
    /\ pc' = next
    /\ handles' = handles \cup obtained
    /\ tasks' = tasks \cup spawned
    /\ UNCHANGED <<cli, ended, signalled, outcome>>

-----------------------------------------------------------------------------
(* command.rs: run. *)

start(args) ==
    /\ pc = "down"
    /\ pc' = "run" /\ cli' = args /\ outcome' = "None"
    /\ UNCHANGED <<handles, tasks, ended, signalled>>

\* construct_async_run!: new_partial, then the command on its parts.
async_run == {"CheckBlock", "ExportBlocks", "ExportState", "ImportBlocks", "Revert"}

\* sync_run with new_partial in the closure.
with_partials == {"ExportGenesisHead", "BenchmarkBlock"}

\* What is refused: the runtime-benchmarks feature is off.
unsupported == {"BenchmarkPallet", "BenchmarkStorage", "BenchmarkOther"}

after_runner(cmd) ==
    CASE cmd \in async_run \cup with_partials -> "new_partial"
      [] cmd \in {"None", "PurgeChain"} -> "relay_config"
      [] OTHER -> "command"

\* create_runner loads the chain specification; export-chain-spec loads it itself.
run ==
    /\ pc = "run"
    /\ \/ spec = None /\ exit("ConfigError")
       \/ spec # None /\ cli.cmd \in unsupported /\ exit("Unsupported")
       \/ /\ spec # None /\ cli.cmd \notin unsupported
          /\ proceed(after_runner(cli.cmd), {}, {})

\* RelayChainCli::new: the chain that the extension of the parachain's specification names.
extension_chain_id == spec.relay_chain

\* The relay chain's own --chain goes before it.
chain_id == IF cli.relay_chain = "" THEN extension_chain_id ELSE cli.relay_chain

\* create_configuration of the relay chain node.
relay_config ==
    /\ pc = "relay_config"
    /\ \/ chain_id \notin KnownRelayChain /\ exit("ConfigError")
       \/ /\ chain_id \in KnownRelayChain
          /\ \/ cli.cmd = "None" /\ proceed("new_partial", {}, {})
             \/ cli.cmd # "None" /\ proceed("command", {}, {})

\* A subcommand runs to its end, or to a signal where it is asynchronous; nothing
\* watches the essential tasks meanwhile.
command ==
    /\ pc = "command"
    /\ \/ exit("Ok")
       \/ exit("Error")

-----------------------------------------------------------------------------
(* service.rs: start_parachain_node. *)

\* The transaction pool gets spawn_essential_handle; telemetry, before it, spawn_handle.
new_partial_essential == {"txpool"}

\* So does the import queue.
build_import_queue_essential == {"import-queue"}

\* Faulty variant: Aura is spawned with spawn_handle.
start_consensus_inessential == {}

\* Aura is spawned with it; the proposer and the collator service get spawn_handle.
start_consensus_essential == {"aura"}

\* The tasks whose end stops the node.  The starters of the SDK get the TaskManager and
\* choose for themselves.
essential ==
    new_partial_essential \cup build_import_queue_essential \cup start_consensus_essential
    \cup SdkEssential

\* sc_service::new_full_parts builds the genesis block: a preset the runtime does not
\* have is an error, like a database that cannot be opened.
new_full_parts_fails == spec.preset # "raw" /\ get_preset(spec.preset) = None

build_import_queue == {"import-queue"}

partial_tasks ==
    {"txpool"} \cup build_import_queue \cup (IF cli.telemetry THEN {"telemetry"} ELSE {})

after_partial == IF cli.cmd = "None" THEN "relay_interface" ELSE "command"

new_partial ==
    /\ pc = "new_partial"
    /\ \/ new_full_parts_fails /\ exit("ConfigError")
       \/ exit("Error")
       \/ /\ ~new_full_parts_fails
          /\ proceed(after_partial, {"client", "import_queue"}, partial_tasks)

\* The relay chain node, full or minimal, is a child of the TaskManager.  In process,
\* only an authority gets a collator key.
relay_interface_parts ==
    {"relay_chain_interface"} \cup
    (IF is_authority \/ cli.relay_mode = "Rpc" THEN {"collator_key"} ELSE {})

build_relay_chain_interface ==
    /\ pc = "relay_interface"
    /\ \/ exit("Error")
       \/ proceed("parachain_id", relay_interface_parts, {"relay-chain-node"})

parachain_id ==
    /\ pc = "parachain_id"
    /\ exit("Error") \/ proceed("network", {"para_id"}, {})

build_network ==
    /\ pc = "network"
    /\ exit("Error") \/ proceed("offchain", {"network", "sync_service"}, {"network"})

offchain_workers ==
    /\ pc = "offchain"
    /\ \/ cli.offchain /\ (exit("Error") \/ proceed("spawn_tasks", {}, {"offchain-workers"}))
       \/ ~cli.offchain /\ proceed("spawn_tasks", {}, {})

\* The RPC modules.
create_full == {"rpc_system", "rpc_payment"}

\* spawn_tasks runs rpc_builder, and with it create_full.
spawn_tasks ==
    /\ pc = "spawn_tasks"
    /\ exit("Error") \/ proceed("hwbench", create_full, {"informant"})

hwbench_tasks ==
    IF ~cli.no_hardware_benchmarks /\ cli.telemetry THEN {"telemetry_hwbench"} ELSE {}

\* A failing hardware check is only logged.
hwbench ==
    /\ pc = "hwbench"
    /\ proceed("overseer_handle", {}, hwbench_tasks)

overseer_handle ==
    /\ pc = "overseer_handle"
    /\ exit("Error") \/ proceed("relay_chain_tasks", {"overseer_handle"}, {})

start_relay_chain_tasks ==
    /\ pc = "relay_chain_tasks"
    /\ exit("Error") \/ proceed("bootnode", {"relay_chain_tasks"}, {"cumulus-consensus"})

start_bootnode_tasks ==
    /\ pc = "bootnode"
    /\ proceed("consensus", {}, {"bootnode"})

\* The body of start_consensus; collator_key.expect panics without a key.
collate ==
    IF "collator_key" \in handles THEN proceed("running", {}, {"aura"}) ELSE exit("Panic")

\* Faulty variant: every node collates.
start_consensus_always ==
    /\ pc = "consensus"
    /\ collate

\* Faulty variant: the condition on the role is inverted.
start_consensus_inverted ==
    /\ pc = "consensus"
    /\ \/ ~is_authority /\ collate
       \/ is_authority /\ proceed("running", {}, {})

start_consensus ==
    /\ pc = "consensus"
    /\ \/ is_authority /\ collate
       \/ ~is_authority /\ proceed("running", {}, {})

start_parachain_node ==
    \/ new_partial
    \/ build_relay_chain_interface
    \/ parachain_id
    \/ build_network
    \/ offchain_workers
    \/ spawn_tasks
    \/ hwbench
    \/ overseer_handle
    \/ start_relay_chain_tasks
    \/ start_bootnode_tasks
    \/ start_consensus

-----------------------------------------------------------------------------
(* Running. *)

\* Faulty variant: an ended task is still counted as running.
task_ends_unnoticed(t) ==
    /\ t \in tasks
    /\ Cardinality(ended) < MaxEnded
    /\ ended' = ended \cup {t}
    /\ UNCHANGED <<pc, cli, handles, tasks, signalled, outcome>>

\* A task returns or panics.
task_ends(t) ==
    /\ t \in tasks
    /\ Cardinality(ended) < MaxEnded
    /\ tasks' = tasks \ {t} /\ ended' = ended \cup {t}
    /\ UNCHANGED <<pc, cli, handles, signalled, outcome>>

signal ==
    /\ pc \notin {"down", "run"} /\ ~signalled
    /\ signalled' = TRUE
    /\ UNCHANGED <<pc, cli, handles, tasks, ended, outcome>>

\* run_node_until_exit waits for a signal or for an essential task to end; before the
\* node is up it waits for nothing.
run_node_until_exit ==
    /\ pc = "running"
    /\ \/ signalled /\ exit("Ok")
       \/ ended \cap essential # {} /\ exit("Error")

-----------------------------------------------------------------------------
NoArgs == CHOOSE args \in Args : TRUE

NodeInit ==
    /\ pc = "down" /\ cli = NoArgs
    /\ handles = {} /\ tasks = {} /\ ended = {}
    /\ signalled = FALSE /\ outcome = "None"

Step == run \/ relay_config \/ command \/ start_parachain_node \/ run_node_until_exit

NodeNext ==
    \/ \E args \in Args : start(args)
    \/ Step
    \/ \E t \in tasks : task_ends(t)
    \/ signal

\* Every call start-up awaits returns, with a result or an error, and the executor polls
\* run_node_until_exit when a task has ended.
NodeSpec == NodeInit /\ [][NodeNext]_nodeVars /\ WF_nodeVars(Step)

-----------------------------------------------------------------------------
Results == {"None", "Ok", "Error", "ConfigError", "Unsupported", "Panic"}

\* A task either runs or has ended, and the arguments are ones run was given.
TypeOK ==
    /\ cli \in Cli /\ outcome \in Results /\ signalled \in BOOLEAN
    /\ tasks \cap ended = {}
    /\ Cardinality(ended) <= MaxEnded

\* What a node needs of the tasks spawned here in order to follow the chain, and a
\* collator to extend it.
Vital == {"txpool", "import-queue"} \cup (IF is_authority THEN {"aura"} ELSE {})

\* The expect in start_parachain_node: "Command line arguments do not allow this".  No
\* combination of role and relay chain connection reaches start_consensus without a key.
NoPanic == outcome # "Panic"

\* A node that is up does what its role asks for: the tasks that follow the relay chain and
\* the parachain, and on an authority the one that extends it, all run unless one of them
\* has ended since; and no other node collates.  They are spawned in four calls,
\* and tasks may end between them.
UpMeansServing ==
    LET serving == Vital \cup {"relay-chain-node", "cumulus-consensus"}
    IN  pc = "running" /\ ended \cap serving = {} =>
            serving \subseteq tasks /\ ("aura" \in tasks => is_authority)

\* The chains built into load_spec start without any file: a configuration error is
\* always about a file or about the relay chain the user asks for.
BuiltinChainsStart ==
    outcome = "ConfigError" /\ cli.chain \in Builtin =>
        cli.relay_chain \notin {""} \cup KnownRelayChain

\* The chain of a built-in specification can produce blocks: testnet_genesis gives each
\* first collator one session key of its own and funds it, beyond the bond it asks of
\* later ones, and it funds the sudo key.
GenesisCollates ==
    "client" \in handles /\ cli.chain \in Builtin =>
        LET genesis == get_preset(spec.preset)
            funded(a) == a \in DOMAIN genesis.balances
                         /\ genesis.balances[a] >= genesis.candidacy_bond
            keys == genesis.session_keys
        IN  /\ genesis.invulnerables # {}
            /\ {k[1] : k \in keys} = genesis.invulnerables
            /\ \A k, l \in keys : k[1] = l[1] <=> k[2] = l[2]
            /\ \A a \in genesis.invulnerables \cup {genesis.sudo} : funded(a)

\* A node never carries on half dead: when a vital task has ended, even while start-up
\* was still going on, the process ends.
VitalEndStops == (cli.cmd = "None" /\ ended \cap Vital # {}) ~> (pc = "down")
=============================================================================
