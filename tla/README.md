# Verification of pallet-sponsored-tx

TLA+ models of the sponsored-transaction pallet and its transaction extension, of the
fees, the pool and the blocks around them, of the node's start-up and of the example
client, with TLC runs on small instances and TLAPS proofs for every value of the
constants. Paths are relative to `src/`.

## The system

| part | source | what it does |
|---|---|---|
| sponsor registry | `pallets/sponsored-tx/src/lib.rs`, `types.rs` | seven dispatchables over `Sponsors` and two holds on the sponsor's account: the *budget* and the *pending* hold |
| payment extension | `pallets/sponsored-tx/src/extension.rs` | `validate` decides who pays, `prepare` reserves the worst-case fee (or withdraws it from the signer), `post_dispatch_details` settles |
| extension weight | `extension.rs` | `weight()` before dispatch, the weight returned after settlement |
| runtime | `runtime/src/lib.rs`, `configs/mod.rs`, `apis.rs` | extension order, `Executive`, fee conversion, balances, sudo, the pool's view |
| genesis | `runtime/src/genesis_config_presets.rs` | endowments, sudo key |
| template pallet | `pallets/template/src/lib.rs` | a stored value, set and incremented |
| client | `examples/subxt-sponsor-client/src/main.rs` | registers a sponsor and sends sponsored extrinsics, waiting for finality |
| node | `node/src/*` | service start-up, block import, CLI, RPC |

An extrinsic goes through three stages, and funds through three places:

    validate_and_prepare      dispatch of the call      post_dispatch_details
    budget -> free -> pending      (any call)       slash pending, rest -> free -> budget

The dispatched call may be any call, also one that acts on the sponsor paying for
it: a sponsor may be on its own allowlist, and the sudo key may act for anybody.
Most of what can go wrong lies there, and in the two moves that pass through the
free balance. `PROJECT.json` lists these hazards with the line each one bites at.

## Modules

**Balances** is the part of `pallet_balances` the pallet uses, written from how it
is used: an account is a free balance and one balance per hold reason. Holding keeps
the existential deposit `ED` free, releasing must leave a live account, a slash takes
what there is, a transfer may reap the sender unless it has holds. It is external
code; so are `CheckNonce` and `base_validate` in SponsorValidation, and `refund_signer`
and `transfer_allow_death` in SponsoredTx.

**SponsorValidation** is `validate` on a state of the accounts and of the registry.
SponsoredTx extends it for the block being built; TransactionPool also instantiates it
with the state of the best block, which is what the pool validates against.

**SponsoredTx** is the pallet and the extension.

| state | code |
|---|---|
| `account` | `System.Account` and `Balances.Holds` |
| `Sponsors` | the storage map of the same name |
| `xt` | the extrinsic being applied: `SponsoredPre` and its phase |
| `event` | the last `SponsoredTransactionFeePaid`; cleared when the next extrinsic starts |

| action | code |
|---|---|
| `validate_and_prepare` | `validate` and `prepare`, on the sponsored and the unsponsored path |
| `register_sponsor`, `increase_budget`, `decrease_budget`, `set_policy`, `pause`, `resume`, `unregister` | the dispatchables |
| `transfer_allow_death` | a balances transfer beside the pallet |
| `dispatch_without_effect` | a call that fails (its storage layer is rolled back) or has no effect here |
| `post_dispatch_details` | `settle_sponsored_fee`, or the refund of the unsponsored path |

A rejected extrinsic changes nothing and is not a step. `compute_actual_fee` may find
any fee, larger than the estimate included, since the code clamps it. Names with
the comment "Faulty variant" are plausible mistakes, used to see that a property
notices them; nothing else refers to them.

**SponsorEscrow** is the promise to a sponsor: escrowed money returns to the
sponsor or pays for a reservation made within the terms set at that time; a charge
takes no more than was reserved. `SponsoredTx!KeepsEscrow` maps the free balance, the
sum of the holds, the pending hold and the cap of an active sponsor to its variables.

**ExtensionWeight** is the block's weight accounting around the extension, `block`
being what is registered and `work` what is done. An extrinsic takes one of three paths:
sponsored, unsponsored, or without a signer to charge (`NoCharge`, which `AuthorizeCall`
makes possible). `weight` is what is declared, `overhead` what `validate` and `prepare` do,
`settlement_weight` what settlement does and `unspent` what is returned; what
`ChargeTransactionPayment` returns is the SDK's. `sponsored` counts the settled sponsored
extrinsics of the block and decides nothing but the bound. Only reference time is modelled.

**TransactionFee** is the fee from the estimate in `validate` to the settlement:
`WeightToFee::polynomial` with the rounding of `Perbill`, the length fee and the
multiplier, which `on_finalize` may set to any of `Multiplier`. That it does so only when no
extrinsic is being applied is the SDK's doing and is taken from it. Where SponsoredTx lets
`compute_actual_fee` find any fee, this module says which fees it finds.

**TransactionPool** extends SponsoredTx with what happens around it. An extrinsic is
validated on the best block (`validate_transaction`) and again in the block being built
(`apply_extrinsic`); the state of SponsoredTx is that of the block being built.
`building` says whether a block is being built and `extrinsics` is what it holds so far;
`chain` is the blocks from the last finalized one to the best one, each with the state it
leaves, and `final` is what the finalized blocks hold.

| action | code |
|---|---|
| `initialize_block`, `apply_extrinsic`, `finalize_block` | the runtime APIs; `apply_extrinsic` goes on in `dispatch_call` and `settle` |
| `can_build_upon` (guard) | `FixedVelocityConsensusHook` and its capacity |
| `sign_and_submit`, `resubmit`, `maintain`, `revalidate` | users, the network and the SDK's pool (external) |
| `finalize`, `retract` | finality and forks (external) |

An extrinsic carries its nonce, its era (`age` counts finalized blocks since it was
signed) and an `id`: two signatures are never the same. `expired` is the check of `CheckEra` in
the block after the best one.

*Calls.* `RuntimeCall` has the seven calls of the pallet, `transfer_allow_death`, and
`remark`, each of which may be wrapped in `sudo_as`. All other calls of the runtime, the
template pallet's among them, neither touch the registry nor, with the exceptions listed under
"Not modelled", balances: `remark` stands for them. Which calls users sign is the constant
`Offers`, which each run chooses (see its bounds) and the proofs leave open.

*Lives.* The nonce of an account is part of its entry in `System.Account`. When a call reaps
the account (`is_killed`) the nonce is gone, and an account endowed again starts at 0.
`deaths` counts how often that has happened, and an extrinsic that is applied records it as
its `life`. Only calls reap: payment keeps the existential deposit, and settlement only
takes what is on hold, which a live account has beside it. `gossip` has the
signed extrinsics that the network may deliver again until their era ends.

**DemoClient** extends TransactionPool with the example client: the builder, the four
extrinsics of `main`, the queries on the last finalized block, and every `await` as a step
of its own that may fail. subxt takes nonce and era from the last finalized block.
The run assumes that nobody else signs for Alice and Bob, and that nobody submits what
they signed a second time. No extrinsic of the client transfers money, so nobody is reaped.

**ChainSpec** has the presets and the chain specifications; **NodeService** extends it
with the command line and `start_parachain_node`, one action per call that can fail or
spawn a task. `tasks` and `ended` are the tasks that run and those that ended by
themselves. `new_partial_essential`, `build_import_queue_essential` and
`start_consensus_essential` say which of them the code spawns with `spawn_essential_handle`.
What the SDK's own starters spawn as essential is the constant `SdkEssential`, and so is the
set of relay chains the relay chain node knows.

**TemplatePallet** is the template pallet.

**TransactionPoolInvariant** and **DemoClientInvariant** define the inductive invariants of
the pool and of the client. **...Proofs** modules hold the theorems, ComponentProofs those about
TransactionFee, ExtensionWeight, TemplatePallet and NodeService. **TransactionPoolChain** holds
the lemmas on which TransactionPoolProofs rests, and **DemoClientChain**, **DemoClientBlocks**
and **DemoClientSteps** those on which DemoClientProofs rests.
**MC...** modules give the constants their values.

## Runs

| run | question | result |
|---|---|---|
| `sponsored_tx` | do holds, registry, settlement and escrow stay consistent in every interleaving of calls and stages? | holds, 69,473 states |
| `weight` | how much of its work can a block leave unregistered? | settlements only, 292,189 states |
| `weight_sponsored` | is all work registered? | violated |
| `fee` | is the reserved estimate the worst case? | holds, 15,162 states |
| `fee_scale` | does the base weight cost what the comment says? | violated |
| `template` | does the stored number account for every call? | holds, 579 states |
| `node` | does every command line end in a node that serves its role, or in an exit? | holds, 20,180 states |
| `pool` | what do waiting extrinsics and retracted blocks do to a sponsor? | holds, 611,364 states |
| `pool_fees` | and a fee that changes between validation, reservation and settlement? | holds, 171,182 states |
| `pool_transfers` | and an account that is reaped and endowed again? | holds, 331,309 states |
| `pool_leaves` | does every mortal extrinsic leave the pool? | holds, 278,783 states |
| `client` | what does the demo report, interrupted anywhere and run twice? | holds, 220,534 states |

### `sponsored_tx` and the weight runs

Properties of `sponsored_tx`:

- `PendingIsReservation`: the pending hold is exactly the reservation of the
  extrinsic in flight. The hold is kept per sponsor and `restore_pending_to_budget`
  returns all of it, so settlement is right only because of this.
- `UnregisteredHoldsNothing`: no funds on hold without a registry entry.
- `ValidatedIsPreparable`: a sponsored extrinsic with a fee that passes `validate`
  passes `prepare`. (One without a fee may fail: `hold(0)` fails on a reaped account.)
- `ExitAlwaysPossible`: between extrinsics a sponsor can unregister and gets
  everything back.
- `SponsorPaysExactly` (every step): payment leaves all free balances alone, and the
  event reports what left the sponsor's account, at most the estimate.
- `KeepsEscrow`: SponsoredTx implements SponsorEscrow.
- `PendingIsTransient`: reserved funds do not stay reserved.
- `TypeOK`, and `IInv`, the inductive invariant of the proofs.

*Bounds.* Two accounts, each of which may sponsor itself or the other; one is the sudo
key, so every call can hit the sponsor in flight. `ED = 2` with endowments 5 and 3
makes balances of 0, exactly `ED` and above it all occur, reaped accounts included.
Fees of 0 to 2 and tips of 0 and 1 give estimates below, at and above the caps (1, 2)
and the budget, and actual fees below, at and above the estimate. One empty and one
duplicated allowlist exercise `ensure_valid_policy`. Extrinsics are applied one at a
time, so a third account would add no interleaving with the two that matter. The
model has no step bound: money only leaves, so it is finite.

*Fairness.* Weak fairness of `dispatch` and of `post_dispatch_details`:
`Executive::apply_extrinsic` runs the stages of an extrinsic in one call, so one that
has been prepared is dispatched and settled. Nothing is assumed about new extrinsics.

*The violation.* `post_dispatch_details` returns 7 reads and 7 writes after settlement.
The trait takes the returned weight for declared weight that was *not* used and
subtracts it. A block therefore registers less than before the change that
`docs/security_review.md` (S-07) records as the fix, and the settlement is still not
registered. `extension.rs:107` describes the same intention.
The meaning of the returned weight is the SDK's, whose source is not in this repository:
`ExtensionWeight!post_dispatch` is marked external, and the result rests on it.

`weight` says how far that goes, with all three paths in every order:

- `ShortfallIsSettlement`: a sponsored extrinsic hides at most twice its settlement weight,
  once because it is not declared and once because it is given back; no other extrinsic
  hides anything.
- `OverrunIsSettlement`: and the work of a block exceeds its limit by no more than that.

*Bounds.* A write is four reads, as with RocksDB. Calls of weight 0, 1, 5, 12 and 40 are
lighter and heavier than what is given back, so that the subtraction saturates and does not.
The limit of 150 holds several extrinsics of each kind, and `MaxSponsored = 3` of them are
sponsored: light ones register nothing, so that without a bound there could be any number.
In the code the length of the block is that bound.

### `fee` and `fee_scale`

- `EstimateIsWorstCase`: the fee found after dispatch lies between the tip and the
  estimate. The clamp of `settle_sponsored_fee` is therefore never needed with this fee
  conversion.

*Bounds.* Prices are scaled down so that the products stay below 2^31. The coefficient is a
fraction, as in the runtime; the weights include ones around its rounding steps, the base
weight and one above the cap.

*The violation.* The comment at `runtime/src/lib.rs:121` maps the base weight to 1/10
`MILLI_UNIT`. The divisor at line 124 has a factor of 100, and the base weight costs
1/1000 `MILLI_UNIT`.

### `template`

- `StoredIsAccounted`: the stored number is the one last announced by an event plus the
  successful increments since. `MAX = 15` stands for the largest block number.

### `node`

- `NoPanic`: `collator_key.expect` is never reached without a key.
- `UpMeansServing`: in a running node the pool, the import queue, the relay chain node and the
  consensus task run, and Aura on an authority and nowhere else, unless one of them has
  ended. Network, informant, bootnode and telemetry are not part of it.
- `BuiltinChainsStart`, `GenesisCollates`: the chains built into `load_spec` find their
  preset, and its collators have keys and funds.
- `VitalEndStops`: the process ends when the pool, the import queue or, on an authority, Aura
  has ended, also when that was during start-up.

*Bounds.* All subcommands, all built-in chains, files that parse, that name an unknown
relay chain and that do not parse, and all combinations of role, relay chain connection,
telemetry, offchain workers and hardware benchmarks. `MaxEnded = 2` tasks end in one
process: one that matters and one that does not.

*Fairness.* Weak fairness of the process's own steps: the calls of start-up return, and
the executor polls what is ready. A relay chain that never answers is not covered by
`VitalEndStops`. Nothing is assumed about signals or about tasks ending.

### `pool`, `pool_fees`, `pool_transfers` and `pool_leaves`

Four configurations of MCTransactionPool. `pool` checks:

- `IncludedOnce`: on the best chain no nonce of an account is used twice in one life of the
  account, whatever was retracted, pooled again, replaced or delivered again. Across lives it
  does not hold, and is not claimed: what was signed before the account was reaped can be
  used once more, until its era ends.
- `BlockRespectsSponsor`: a block charges a sponsor only as its parent state allows,
  however old the pool's validation is, and takes from its holds exactly the fees
  reported. It speaks of sponsors for which no call is dispatched in the block; a call of the
  sudo key in a sponsor's name counts as one.
- `BlocksKeepEscrow` (every step): while blocks are built from a pool that was validated on
  other states, imported and finalized, escrow moves as SponsorEscrow says, and only a
  reorganisation puts another state in its place.
- `PoolTypeOK`.

`pool_fees` checks `BlockRespectsSponsor` and `BlocksKeepEscrow`, `pool_transfers` checks
`IncludedOnce` and `BlockRespectsSponsor`, and `pool_leaves` checks
`PooledLeaves`: a mortal extrinsic leaves the pool even if nobody includes it.

*Bounds.* One sponsor and one user. Two unfinalized blocks (one in `pool_transfers`) and an
era of 3 blocks, the one it starts at included, let an extrinsic expire in the pool, or wait
there while a block is retracted. One retraction may take all of them. An extrinsic is
signed with the nonce of the best block or the next one. `Redelivered` is the user's
extrinsics: they may be submitted again at any time; the sponsor's come back by
retraction alone.

- `pool` and `pool_leaves`: three extrinsics, of a sponsor that may register, pause and leave
  and of a user that signs a sponsored remark, so that replacement, gaps, and a sponsor
  that pauses or leaves while an extrinsic waits all occur. The fee is always 2. In `pool`
  the budget is 3 or 4: with 3, two extrinsics that are both valid in the pool compete for
  it, with 4 a block can include both. `pool_leaves` has the budget of 3 alone, since
  liveness costs TLC more per state.
- `pool_fees`: two extrinsics, the registration and one more, with fees of 1, 2 and 3 under caps
  of 1 and 2. So an extrinsic the pool has accepted is refused in the block, or reserves more
  than it costs and is refunded. The second extrinsic changes the sponsor's policy or budget,
  or is one the sponsor pays for: a remark, or, since the user has the sudo key, a decrease of
  the sponsor's own budget with `sudo_as`.
- `pool_transfers`: three extrinsics with a fee of 1. The user has exactly `ED`, transfers it
  to the sponsor in a sponsored extrinsic and is reaped; the sponsor endows it again, and its
  first extrinsic, delivered again, meets a nonce of 0. The sponsor may also pause and resume.

No run combines three extrinsics with a changing fee. The theorems about `IncludedOnce`,
`BlockRespectsSponsor` and `BlocksKeepEscrow` below do, for any number and any fees.

*Fairness.* A collator authors in its slots, so block production goes on; the pool is
maintained on every imported block; the relay chain finalizes. Including an extrinsic
is not fair: a collator may leave any extrinsic out for ever.

### `client`

- `NeverUnexpected`: the error "paused sponsored transaction unexpectedly succeeded" is
  never returned. It needs the wait for *finality* of the pause.
- `ReportsAddUp`: the states and the fee that one run prints agree with each other.
- `BudgetTakenOnce`: a second run never takes a second budget. It stops at the
  registration, which fails, unless the first registration was lost.
- `DemoInv`: the inductive invariant of the proofs below, with that of the pool in it.
- `ClientEnds`: every run ends. `wait_for_finalized_success` has no timeout: only the
  mortal era of each extrinsic makes this hold.

At the last extrinsic the client takes any error for the rejection it expects, a lost
connection included, and so does the model.

*Bounds.* Two runs of the client, one retraction of up to three blocks, an era of 4
blocks in place of 32, and fees below and at the cap. Two runs are enough for an
extrinsic of an earlier run to be in the pool, in a block, finalized or gone when the
next one signs.

*Fairness.* That of `pool_leaves`, and each `await` returns once there is an answer.

## Proofs

For any set of accounts, any amounts, fees, tips, policies and any `ED > 0`, under
`EDAssumption` and `SponsoredTxAssumption` (types of the constants, and endowments of
zero or at least `ED`):

| theorem | states |
|---|---|
| `Invariance` | `Spec => []IInv` |
| `TypeCorrect`, `PendingIsolated`, `NothingOrphaned` | the conjuncts of `IInv` the runs check |
| `PrepareSucceeds`, `ExitPossible` | `[]ValidatedIsPreparable`, `[]ExitAlwaysPossible` |
| `PaymentExact` | `SponsorPaysExactly` |
| `RefinesEscrow` | `Spec => KeepsEscrow` |

`PendingIsReservation` is not inductive alone. Settlement empties the pending hold only
if both halves of `restore_pending_to_budget` succeed, and they do because a live
account has at least `ED` free and any other has nothing on hold: `NoDust`. `NoDust`
needs the types. `FlightOK` (a sponsored extrinsic has a signer, the tip is part of
the fee, nothing lingers between extrinsics) is needed for the event and for
`PendingIsReservation` when idle. `UnregisteredHoldsNothing` needs
`PendingIsReservation` in `unregister`: the budget is all there is on hold once nothing
is pending. Lemmas first say what each balances operation does to an account, then
what each move between holds does; the step lemma has one case per action.

The other theorems, each for every value of its module's constants:

| theorem | states | argument |
|---|---|---|
| `ReservationSuffices` | `[]EstimateIsWorstCase` | inductive together with `EstimateCurrent`: the estimate is what `compute_fee` would still find, and at one multiplier the fee is monotone in the weight because rounding to the nearest `Perbill` is |
| `ShortfallBounded`, `OverrunBounded` | `[]ShortfallIsSettlement`, `[]OverrunIsSettlement`, for any paths and any mix of them | `MeteredInv` also says how far registration is ahead of the work in each phase; on each path the settlement and what is given back are covered by `weight`, but for `hides` |
| `Accounted` | `[]StoredIsAccounted` | inductive as it stands |
| `NeverPanics`, `RunningServes` | `[]NoPanic`, `[]UpMeansServing` | `Wired`: at each call of start-up, which tasks have been spawned and that an authority has its key |
| `TypeCorrect` of NodeService | `[]TypeOK` | inductive as it stands; a finite set of tasks grows by one at a time |
| `BuiltinChainsAlwaysStart`, `GenesisAlwaysCollates` | `[]BuiltinChainsStart`, `[]GenesisCollates` | the state only chooses the command line: that each built-in specification names its own preset and a known relay chain, and that the preset's collators are keyed and endowed, follows from the definitions |

### The pool and the chain

For any offers, any of them redelivered, any fees, numbers of signatures and of
reorganisations, any era and any capacity of the unincluded segment:

| theorem | states |
|---|---|
| `PoolInvariance` | `PoolSpec => []PoolInv` |
| `PoolTypeCorrect`, `NoSecondInclusion`, `BlocksRespectSponsors` | `[]PoolTypeOK`, `[]IncludedOnce`, `[]BlockRespectsSponsor` |
| `ReorganisationsKeepHolds` | `[]PendingIsReservation` and `[]UnregisteredHoldsNothing`, now with blocks that are retracted and rebuilt |
| `BlocksPayExactly` | `SponsorPaysExactly`, for extrinsics that come from the pool |
| `BlocksHonourEscrow` | `BlocksKeepEscrow`: between reorganisations the node implements SponsorEscrow |

`IInv` holds of the state of the block being built, but `retract` puts an earlier state in
its place. So `PoolInv` says the same of every block the node keeps (`BlocksSettled`: a
block ends between two extrinsics, with nothing pending). `IncludedOnce` is not
inductive: it needs that the pair of deaths and nonce of each account grows along the
chain in lexicographic order, since a reaped account starts at nonce 0 in its next life, and
that each extrinsic of a block lies between its signer's pairs before and after the block
(`NoncesGrow`), and the same of the open block (`NoncesGrowHere`). `BlockRespectsSponsor` compares a block with its
parent; `ChargesAllowed` is the part of it that holds while the block is still being
built, with the fee in flight under the cap. `CurrentInFlight` ties the extrinsic that
`apply_extrinsic` included to the reservation `xt`.

The two action properties rest on `NodeRunsPallet`: every step of the node is
`validate_and_prepare`, `dispatch` or `post_dispatch_details` of the pallet, leaves the
pallet's state alone, or is a reorganisation. With it the step lemmas of SponsoredTxProofs, which
`PaymentExact` and `RefinesEscrow` also use, carry over to the blocks.

The sum of the fees is a fold over a set, and the proof needs that adding an
extrinsic adds its fee, and that a body of older copies has the same sum. Both are shown
without an induction scheme: a counterexample of least cardinality is a contradiction
(`LeastNat`). `dispatch_call` tests whether a call succeeds with `ENABLED`. The proof never
looks at that condition: it holds whichever way the test goes.

### The client

For any fees above zero, any tips, balances, eras, numbers of runs and reorganisations:

| theorem | states |
|---|---|
| `DemoInvariance` | `DemoSpec => []DemoInv` |
| `PauseIsRespected` | `[]NeverUnexpected` |
| `ReportsAlwaysAddUp` | `[]ReportsAddUp` |
| `OneBudgetOnly` | `[]BudgetTakenOnce` |
| `ClientHonoursEscrow` | `BlocksKeepEscrow`, with the client in place of arbitrary signers |

`DemoInv` adds three layers to `PoolInv`, and that nobody is reaped (`NobodyDies`), so that
nonces only grow:

1. *What a block tells of Alice.* `Follows`: compared with its parent, a block keeps a
   registration and a pause, Bob pays nothing, Alice never gets money back, and a new
   registration costs her the budget and a fee. `Explained`: her registry entry and her
   holds are what the extrinsics of the block make of those of its parent, with at
   most one paid remark. Both are said of every block of the chain, of the block being
   built at each stage, and `Explained` of all finalized blocks together, so that
   `finalize` can drop the oldest block and `retract` the newest ones.
2. *Which extrinsics there can be* (`ScriptOrder`). Every run signs the same script, so an
   extrinsic of an interrupted run may still be in the pool or come back by a
   reorganisation. Since the client signs a remark only after a *finalized* registration
   and the last remark only after a *finalized* pause, two different remarks exist only
   once the pause is final.
3. *Which of them the client can mistake for its own* (`RunSlots`). While it waits, any
   other extrinsic of its signature count has its nonce used up in the finalized block.

The last remark has a nonce of Bob's that is not used up, and a paused sponsor's blocks
leave Bob's nonce where it is: it is never included, which is `NeverUnexpected`.
A registration or a pause reaches every later block of the chain by the same
least-counterexample argument (`StatusKept`).

TransactionPoolChain has the sums of fees and what the beginning and the end of a block,
finality and a reorganisation do to `PoolInv`; TransactionPoolProofs has the stages of an
extrinsic and the theorems. DemoClientChain has the facts about the script and what the end of a block, a
reorganisation and finality do to the invariant, DemoClientBlocks what the stages of an
extrinsic do, and DemoClientSteps what the client does. Their lemmas assume that the step
keeps `PoolInv` and, for the stages that move money, what `PaysExactly` and `StatusKept` say
of it; DemoClientProofs discharges those assumptions from the theorems about the pool and
the pallet.

### Checking the proofs

`tlapm M.tla` takes three to ten minutes for each of the eight modules. Most of it is
tlapm's own preparation of obligations in a large context, which it gives up after five
seconds. The modules of the pool and of the client therefore start with a `USE` that gives
a leaf to Zenon first, for three seconds, and then to SMT and to Z3.

### Assumptions

The named `ASSUME`s of the modules are types and signs of the constants, that `None` is
none of the values it stands beside, and:

- NodeService: the relay chain node knows `RELAY_CHAIN`.
- ChainSpec: the endowment of the presets (`1 << 60`) covers the collators' bond of 16
  existential deposits.
- DemoClient: Alice and Bob are different accounts, and no extrinsic is free
  (`0 \notin Fee`). The length fee of an extrinsic is positive: `TransactionByteFee` is,
  and a signed extrinsic has bytes. Without it Alice's balance would not have to drop by
  more than the budget, as `ReportsAddUp` says.

### Model-checked only

All liveness (`PendingIsTransient`, `PooledLeaves`, `ClientEnds`, `VitalEndStops`), which is
out of the prover's reach. Every safety property of a passing
run is proved; the two violations are of course only model-checked.

## Not modelled

- Freezes, reserves, collator bonds, `force_set_balance` and other root calls: they
  change balances outside the pallet's control.
- `TotalIssuance` and where fees go (`FeeDestination = ()` burns them).
- Error values, and every event but the settlement's and the template pallet's.
- Priorities and limits of the pool, and block weight together with the pool: the code
  that decides them is the SDK's.
- What the tasks of a node do once they run, and forks of the relay chain beyond
  `retract`: the SDK's. Relay chain options of the command line that only delegate.
- The remaining runtime APIs, which read state or delegate to SDK pallets, and the
  runtime's configuration of XCM, queues and sessions: declarative.
- Benchmarks, mocks and generated weight tables.
