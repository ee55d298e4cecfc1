----------------------------- MODULE DemoClient -----------------------------
(***************************************************************************)
(* The demonstration client (examples/subxt-sponsor-client/src/main.rs)     *)
(* against a node: Alice registers as a sponsor, Bob sends a remark she     *)
(* pays for, Alice pauses, and another remark of Bob's must be rejected.    *)
(*                                                                         *)
(* Every call to the node is a step of its own: the chain moves between     *)
(* them.  Any of them may fail; before the last extrinsic that ends the     *)
(* process.  The user may run the client again on the same chain.           *)
(* Nobody submits its extrinsics a second time.                             *)
(***************************************************************************)
EXTENDS TransactionPool

CONSTANTS
    Alice, Bob, Charlie,
    INITIAL_BUDGET,
    MAX_FEE_PER_TX,
    MaxRuns             \* bound: how often the client is run

VARIABLES
    at,         \* the await the client is at
    step,       \* which extrinsic of the script comes next
    extrinsic,  \* the extrinsic signed last, or None
    states,     \* the DemoStates queried in this run, to be states
    paid,       \* SponsoredFeePaid: the actual_fee of the event found, or None
    result      \* how the last run ended

clientVars == <<at, step, extrinsic, states, paid, result>>

demoVars == <<poolVars, clientVars>>

\* Every run signs anew: "signatures" numbers the runs.
run == signatures

-----------------------------------------------------------------------------
(* What the client builds. *)

policy_of_demo ==
    [allowed_callers |-> <<Bob, Charlie>>, max_fee_per_tx |-> MAX_FEE_PER_TX]

\* The keys of the script are different ones, and no extrinsic is free: base_fee is the fee
\* of the base weight.
ASSUME DemoClientAssumption ==
    /\ {Alice, Bob, Charlie} \subseteq AccountId /\ Alice # Bob
    /\ INITIAL_BUDGET \in Amount /\ MAX_FEE_PER_TX \in Nat /\ MaxRuns \in Nat
    /\ policy_of_demo \in SponsorPolicy /\ 0 \in Tip /\ 0 \notin Fee
    /\ None \notin BOOLEAN

dynamic_tx(name) ==
    [name |-> name, sudo_as |-> None, amount |-> INITIAL_BUDGET, policy |-> policy_of_demo,
     dest |-> None]

register_sponsor_call == dynamic_tx("register_sponsor")

sponsored_remark_call == dynamic_tx("remark")

pause_call == dynamic_tx("pause")

\* SponsoredParamsBuilder.
new_params == [tip |-> 0, sponsor |-> None, mortal |-> FALSE]

sponsor(builder, account_id) == [builder EXCEPT !.sponsor = account_id]

unsponsored(builder) == [builder EXCEPT !.sponsor = None]

tip(builder, amount) == [builder EXCEPT !.tip = amount]

\* Faulty variant: the extrinsic is left immortal.
immortal(builder) == [builder EXCEPT !.mortal = FALSE]

\* for_n_blocks is Period.
mortal(builder) == [builder EXCEPT !.mortal = TRUE]

\* SponsoredChargeTransactionPayment takes the place of the standard payment extension,
\* and is encoded as its two fields in this order.
encode_value_to(extension) == <<extension.tip, extension.sponsor>>

build(builder) ==
    [mortal |-> builder.mortal,
     payment |-> encode_value_to([tip |-> builder.tip, sponsor |-> builder.sponsor])]

\* The runtime decodes the fields of its own SponsoredChargeTransactionPayment.
decode(payment) == [tip |-> payment[1], sponsor |-> payment[2]]

\* What the node gets of a call that is signed with built parameters.
sign_with(signer, c, params) ==
    [signer |-> signer, call |-> c, mortal |-> params.mortal,
     tip |-> decode(params.payment).tip, sponsor |-> decode(params.payment).sponsor]

TIP == 0

script == <<
    sign_with(Alice, register_sponsor_call, build(unsponsored(mortal(new_params)))),
    sign_with(Bob, sponsored_remark_call, build(sponsor(tip(mortal(new_params), TIP), Alice))),
    sign_with(Alice, pause_call, build(unsponsored(mortal(new_params)))),
    sign_with(Bob, sponsored_remark_call, build(sponsor(mortal(new_params), Alice)))>>

\* The one extrinsic of the script that is to fail.
rejected == 4

-----------------------------------------------------------------------------
(* query_demo_state, on the last finalized block. *)

\* Balances.Holds: an entry for each reason with a balance.
Holds(block, who) ==
    {[id |-> r, amount |-> block.account[who][r]] :
        r \in {h \in HoldReason : block.account[who][h] > 0}}

\* collect_sponsor_holds: the amount of the entry with the reason, 0 without one.
collect_sponsor_holds(holds, reason) ==
    IF \E h \in holds : h.id = reason
    THEN (CHOOSE h \in holds : h.id = reason).amount
    ELSE 0

sponsor_holds(block, reason) == collect_sponsor_holds(Holds(block, Alice), reason)

account_free_balance(block, who) == block.account[who]["free"]

query_demo_state(block) ==
    [sponsor_active |-> IF block.Sponsors[Alice] = None THEN None
                        ELSE block.Sponsors[Alice].active,
     alice_free |-> account_free_balance(block, Alice),
     bob_free |-> account_free_balance(block, Bob),
     budget_hold |-> sponsor_holds(block, "SponsorshipBudget"),
     pending_hold |-> sponsor_holds(block, "SponsorshipPending")]

-----------------------------------------------------------------------------
(* main *)

connect ==
    /\ at = "down" /\ run < MaxRuns
    /\ signatures' = signatures + 1
    /\ at' = "query" /\ step' = 1 /\ extrinsic' = None
    /\ states' = <<>> /\ paid' = None /\ result' = "None"
    /\ UNCHANGED <<vars, chainVars, pool, gossip>>

exit(how) ==
    /\ at' = "down" /\ result' = how
    /\ UNCHANGED <<step, extrinsic, states, paid>>

\* The state is queried before every extrinsic and at the end.
query ==
    /\ at = "query"
    /\ states' = Append(states, query_demo_state(Finalized))
    /\ \/ step <= Len(script) /\ at' = "sign" /\ UNCHANGED result
       \/ step > Len(script) /\ at' = "down" /\ result' = "Ok"
    /\ UNCHANGED <<poolVars, step, extrinsic, paid>>

\* sign_and_submit_then_watch first asks for the nonce and the start of the era, both
\* from the last finalized block.
sign ==
    /\ at = "sign"
    /\ extrinsic' = signed(script[step], Finalized.nonce[script[step].signer], run)
    /\ at' = "submit"
    /\ UNCHANGED <<poolVars, step, states, paid, result>>

\* The question mark after an await, and the match on the last one.
failed ==
    \/ step # rejected /\ exit("Error")
    \/ /\ step = rejected
       /\ at' = "query" /\ step' = step + 1
       /\ UNCHANGED <<extrinsic, states, paid, result>>

\* find_sponsored_fee_paid, on the events of the extrinsic.
find_sponsored_fee_paid(t) == IF step = 2 THEN t.paid ELSE paid

succeeded(t) ==
    IF step = rejected
    THEN exit("UnexpectedSuccess")
    ELSE /\ at' = "query" /\ step' = step + 1
         /\ paid' = find_sponsored_fee_paid(t)
         /\ UNCHANGED <<extrinsic, states, result>>

\* The pool refuses what is invalid, and may refuse to replace an extrinsic.
refused ==
    \/ \E fee \in Fee : ~validate_transaction(extrinsic, fee)
    \/ \E t \in pool : same_slot(t, extrinsic)

sign_and_submit_then_watch ==
    /\ at = "submit"
    /\ \/ /\ submit(extrinsic) /\ UNCHANGED <<gossip, signatures>>
          /\ at' = "watch"
          /\ UNCHANGED <<step, extrinsic, states, paid, result>>
       \/ refused /\ failed /\ UNCHANGED poolVars

is_mine(t) == same_slot(t, extrinsic) /\ t.id = extrinsic.id

known == pool \cup final \cup UNION {chain[i].body : i \in DOMAIN chain}

\* Faulty variant: the client is content with a block that is not finalized.
wait_for_in_block_success ==
    /\ at = "watch"
    /\ \/ \E t \in known \ pool : is_mine(t) /\ t.ok /\ succeeded(t)
       \/ \E t \in known \ pool : is_mine(t) /\ ~t.ok /\ failed
       \/ (\A t \in known : ~is_mine(t)) /\ failed
    /\ UNCHANGED poolVars

\* The watched extrinsic is in a finalized block, with success or with an error, or it
\* has left the pool without one.
wait_for_finalized_success ==
    /\ at = "watch"
    /\ \/ \E t \in final : is_mine(t) /\ t.ok /\ succeeded(t)
       \/ \E t \in final : is_mine(t) /\ ~t.ok /\ failed
       \/ (\A t \in known : ~is_mine(t)) /\ failed
    /\ UNCHANGED poolVars

\* The connection fails at an await.  At the last extrinsic any error will do: the client
\* takes it for the rejection it expects.
disconnect ==
    /\ \/ at = "query" /\ exit("Error")
       \/ at \in {"sign", "submit", "watch"} /\ failed
    /\ UNCHANGED poolVars

-----------------------------------------------------------------------------
DemoInit ==
    /\ PoolInit
    /\ at = "down" /\ step = 1 /\ extrinsic = None
    /\ states = <<>> /\ paid = None /\ result = "None"

Client == query \/ sign \/ sign_and_submit_then_watch \/ wait_for_finalized_success

\* A signed extrinsic ages while it is on its way to the pool.
Finalize ==
    /\ finalize
    /\ extrinsic' = IF at = "submit" THEN older(extrinsic) ELSE extrinsic
    /\ UNCHANGED <<at, step, states, paid, result>>

Node ==
    /\ \/ \E t \in pool : revalidate(t)
       \/ maintain
       \/ Include
       \/ Produce
       \/ Reorganise
    /\ UNCHANGED clientVars

DemoNext == connect \/ Client \/ disconnect \/ Finalize \/ Node

\* Every await of the client gets its answer once there is one.
DemoSpec == DemoInit /\ [][DemoNext]_demoVars /\ ChainFairness /\ WF_demoVars(Client)

-----------------------------------------------------------------------------
(* Properties. *)

\* "paused sponsored transaction unexpectedly succeeded" is never returned: whatever is
\* retracted or delayed, main submits the last remark to a chain on which the pause
\* cannot be undone.
NeverUnexpected == result # "UnexpectedSuccess"

\* What a run reports tells one story.  Alice becomes a sponsor with the whole budget on
\* hold, the budget then drops by the fee of the event and by nothing else, she is paused
\* at the end, nothing is ever pending and Bob's balance never moves, in every run and
\* whatever earlier runs have left behind.
ReportsAddUp ==
    \A i \in DOMAIN states :
        LET state == states[i]
        IN  /\ state.pending_hold = 0
            /\ state.bob_free = states[1].bob_free
            /\ i > 1 => states[1].sponsor_active = None
            /\ i \in {2, 3} => state.sponsor_active = TRUE
            /\ i > 3 => state.sponsor_active = FALSE
            /\ i > 1 => state.budget_hold + (IF i > 2 THEN paid ELSE 0) = INITIAL_BUDGET
            /\ i > 1 => state.alice_free + INITIAL_BUDGET < states[1].alice_free

\* Running the client again, after a failure at any await, never takes a second budget
\* from Alice.
BudgetTakenOnce ==
    \A i \in DOMAIN chain : OnHold(chain[i].account[Alice]) <= INITIAL_BUDGET

\* Every run ends, even if no collator ever includes its extrinsics: wait_for_finalized_success
\* has nothing but the era of the extrinsic to stop it.
ClientEnds == []<>(at = "down")
=============================================================================
