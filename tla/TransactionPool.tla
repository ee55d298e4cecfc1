-------------------------- MODULE TransactionPool --------------------------
(***************************************************************************)
(* Sponsored extrinsics between the pool and the chain.  The runtime APIs   *)
(* (runtime/src/apis.rs) validate an extrinsic twice, against different     *)
(* states: validate_transaction for the pool, on the best block, and again  *)
(* apply_extrinsic, in the block being built.  In between a sponsor may     *)
(* pause, change its policy or spend its budget, blocks may be retracted,   *)
(* and the fee may change.                                                  *)
(*                                                                         *)
(* The state of SponsoredTx is that of the block being built.  A block is   *)
(* built on the best block and nothing happens to the chain meanwhile: a    *)
(* block on a parent that is retracted under it is lost with it.            *)
(***************************************************************************)
EXTENDS SponsoredTx, FiniteSetsExt

CONSTANTS
    UNINCLUDED_SEGMENT_CAPACITY,
    Period,             \* the era of a mortal extrinsic, in blocks
    Offers,             \* what users may sign: signer, call, sponsor, tip, mortality
    Redelivered,        \* bound: those of the offers that may be submitted again once signed
    MaxSubmissions,     \* bound: extrinsics that are signed
    MaxRetractions      \* bound: reorganisations of the chain

\* The calls users sign, with their arguments: those of the pallet, a transfer, and a
\* remark for every other call.  Each may be wrapped in sudo_as, for another account.
RuntimeCall ==
    [name : {"register_sponsor", "increase_budget", "decrease_budget", "set_policy",
             "pause", "resume", "unregister", "transfer_allow_death", "remark"},
     sudo_as : Option(AccountId), amount : Amount, policy : SponsorPolicy,
     dest : Option(AccountId)]

\* A signed extrinsic.  "age" counts the blocks finalized since the one its era starts at;
\* "ok" and "paid" are what the events of its block say of it, and "life" is the number of
\* times its signer's account had been reaped when it was applied.
SignedExtrinsic ==
    [signer : AccountId, sponsor : Option(AccountId), tip : Tip, mortal : BOOLEAN,
     call : RuntimeCall, nonce : Nat, id : Nat, age : Nat, ok : BOOLEAN, paid : Nat,
     life : Nat]

ASSUME TransactionPoolAssumption ==
    /\ UNINCLUDED_SEGMENT_CAPACITY \in Nat \ {0}
    /\ Period \in Nat /\ MaxSubmissions \in Nat
    /\ MaxRetractions \in Nat
    /\ Offers \subseteq [signer : AccountId, sponsor : Option(AccountId), tip : Tip,
                         mortal : BOOLEAN, call : RuntimeCall]
    /\ None \notin FeePaid /\ None \notin SignedExtrinsic

VARIABLES
    nonce,      \* System.Account: nonces, in the block being built
    deaths,     \* history: how often each account has been reaped
    building,   \* whether a block is being built
    extrinsics, \* the extrinsics applied so far in the block being built
    current,    \* the extrinsic being applied, or None
    chain,      \* the blocks from the last finalized one to the best one
    final,      \* extrinsics of finalized blocks
    pool,       \* extrinsics in the pool
    gossip,     \* signed extrinsics that the network may deliver again
    signatures, \* how many extrinsics have been signed
    retractions

chainVars == <<nonce, deaths, building, extrinsics, current, chain, final, retractions>>

poolVars == <<vars, chainVars, pool, gossip, signatures>>

-----------------------------------------------------------------------------
(* Extrinsics.  The era of one starts at the block that was the last         *)
(* finalized one when it was signed.                                        *)

Best == chain[Len(chain)]

Finalized == Head(chain)

AtBest == INSTANCE SponsorValidation WITH account <- Best.account, Sponsors <- Best.Sponsors

charged(tx, fee) == [signer |-> tx.signer, sponsor |-> tx.sponsor, fee |-> fee, tip |-> tx.tip]

older(tx) == [tx EXCEPT !.age = Lesser(@ + 1, Period)]

\* Faulty variant: extrinsics are immortal.
never_expired(tx) == FALSE

\* CheckEra in the block after the best one, which is tx.age + Len(chain) blocks after the
\* one the era starts at.
expired(tx) == tx.mortal /\ tx.age + Len(chain) >= Period

same_slot(t, u) == t.signer = u.signer /\ t.nonce = u.nonce

-----------------------------------------------------------------------------
(* The pool.  It and the three steps of an extrinsic being applied have no   *)
(* state in common, so it waits for them.                                   *)

\* validate_transaction, at the fee of the moment.  A nonce ahead of the account's is
\* valid in the future.
validate_transaction(tx, fee) ==
    /\ tx.nonce >= Best.nonce[tx.signer]
    /\ ~expired(tx)
    /\ AtBest!validate(charged(tx, fee))

\* An extrinsic with the signer and nonce of another may replace it.
submit(tx) ==
    /\ xt.phase = "idle"
    /\ \E fee \in Fee : validate_transaction(tx, fee)
    /\ tx \notin pool
    /\ pool' = {t \in pool : ~same_slot(t, tx)} \cup {tx}
    /\ UNCHANGED <<vars, chainVars>>

\* What no block can include any more leaves the pool.
maintain ==
    /\ xt.phase = "idle"
    /\ pool' = {t \in pool : t.nonce >= Best.nonce[t.signer] /\ ~expired(t)}
    /\ pool' # pool
    /\ UNCHANGED <<vars, chainVars, gossip, signatures>>

\* Revalidation on the best block.
revalidate(tx) ==
    /\ xt.phase = "idle"
    /\ \E fee \in Fee : ~validate_transaction(tx, fee)
    /\ pool' = pool \ {tx}
    /\ UNCHANGED <<vars, chainVars, gossip, signatures>>

-----------------------------------------------------------------------------
(* Block production. *)

\* FixedVelocityConsensusHook: the unincluded segment has room for a block.
ConsensusHook == Len(chain) - 1 < UNINCLUDED_SEGMENT_CAPACITY

can_build_upon == ConsensusHook

initialize_block ==
    /\ ~building
    /\ can_build_upon
    /\ building' = TRUE
    /\ UNCHANGED <<vars, nonce, deaths, extrinsics, current, chain, final, retractions>>
    /\ UNCHANGED <<pool, gossip, signatures>>

\* Faulty variant: what the pool has validated is not validated again.
apply_prevalidated(tx, fee) ==
    /\ building /\ xt.phase = "idle"
    /\ tx.nonce = nonce[tx.signer]
    /\ ~expired(tx)
    /\ prepare(charged(tx, fee)) /\ event' = None /\ UNCHANGED Sponsors
    /\ nonce' = [nonce EXCEPT ![tx.signer] = @ + 1]
    /\ current' = [tx EXCEPT !.life = deaths[tx.signer]]
    /\ UNCHANGED <<deaths, building, extrinsics, chain, final, retractions>>
    /\ UNCHANGED <<pool, gossip, signatures>>

\* Faulty variant: CheckNonce does not advance the nonce.
apply_same_nonce(tx, fee) ==
    /\ building /\ tx.nonce = nonce[tx.signer]
    /\ ~expired(tx)
    /\ validate_and_prepare(charged(tx, fee))
    /\ current' = [tx EXCEPT !.life = deaths[tx.signer]]
    /\ UNCHANGED nonce
    /\ UNCHANGED <<deaths, building, extrinsics, chain, final, retractions>>
    /\ UNCHANGED <<pool, gossip, signatures>>

\* apply_extrinsic up to the dispatch: CheckNonce, CheckMortality and the payment
\* extension.  One that fails is left out of the block.
apply_extrinsic(tx, fee) ==
    /\ building
    /\ tx.nonce = nonce[tx.signer]
    /\ ~expired(tx)
    /\ validate_and_prepare(charged(tx, fee))
    /\ nonce' = [nonce EXCEPT ![tx.signer] = @ + 1]
    /\ current' = [tx EXCEPT !.life = deaths[tx.signer]]
    /\ UNCHANGED <<deaths, building, extrinsics, chain, final, retractions>>
    /\ UNCHANGED <<pool, gossip, signatures>>

\* Whether the call is wrapped in sudo_as and signed with the sudo key.
is_sudo(tx) == tx.call.sudo_as # None /\ tx.signer = SudoKey

\* The account the call is dispatched for.
origin(tx) == IF tx.call.sudo_as = None THEN tx.signer ELSE tx.call.sudo_as

\* The call of an extrinsic, when it succeeds.
call(tx) ==
    LET who == origin(tx)
        c   == tx.call
    IN  /\ c.sudo_as # None => is_sudo(tx)
        /\ \/ c.name = "register_sponsor" /\ register_sponsor(who, c.amount, c.policy)
           \/ c.name = "increase_budget" /\ increase_budget(who, c.amount)
           \/ c.name = "decrease_budget" /\ decrease_budget(who, c.amount)
           \/ c.name = "set_policy" /\ set_policy(who, c.policy)
           \/ c.name = "pause" /\ pause(who)
           \/ c.name = "resume" /\ resume(who)
           \/ c.name = "unregister" /\ unregister(who)
           \/ /\ c.name = "transfer_allow_death" /\ c.dest # None
              /\ transfer_allow_death(who, c.dest, c.amount)
           \/ c.name = "remark" /\ dispatch_without_effect

\* on_killed_account: an account that loses its last provider is removed from
\* System.Account, its nonce with it.
is_killed(a) == IsLive(account[a]) /\ ~IsLive(account'[a])

\* The call succeeds or its error is recorded.  sudo_as succeeds whatever its call returns.
dispatch_call ==
    /\ xt.phase = "prepared"
    /\ \/ call(current) /\ current' = [current EXCEPT !.ok = TRUE]
       \/ /\ ~ENABLED call(current)
          /\ dispatch_without_effect
          /\ current' = [current EXCEPT !.ok = is_sudo(current)]
    /\ nonce' = [a \in AccountId |-> IF is_killed(a) THEN 0 ELSE nonce[a]]
    /\ deaths' = [a \in AccountId |-> IF is_killed(a) THEN deaths[a] + 1 ELSE deaths[a]]
    /\ UNCHANGED <<building, extrinsics, chain, final, retractions, pool, gossip, signatures>>

\* What the sponsor is reported to have paid goes into the block's events.
settle(fee) ==
    /\ post_dispatch_details(fee)
    /\ extrinsics' = extrinsics \cup
          {[current EXCEPT !.paid = IF event' = None THEN 0 ELSE event'.actual_fee]}
    /\ current' = None
    /\ UNCHANGED <<nonce, deaths, building, chain, final, retractions>>
    /\ UNCHANGED <<pool, gossip, signatures>>

\* The extrinsic as it was submitted.
unapplied(tx) == [tx EXCEPT !.ok = FALSE, !.paid = 0, !.life = 0]

\* finalize_block, and the import of the block as the best one.
finalize_block ==
    /\ building /\ xt.phase = "idle"
    /\ chain' = Append(chain, [account |-> account, Sponsors |-> Sponsors,
                               nonce |-> nonce, deaths |-> deaths, body |-> extrinsics])
    /\ pool' = pool \ {unapplied(tx) : tx \in extrinsics}
    /\ building' = FALSE /\ extrinsics' = {}
    /\ event' = None
    /\ UNCHANGED <<account, Sponsors, xt, nonce, deaths, current, final, retractions>>
    /\ UNCHANGED <<gossip, signatures>>

\* The relay chain finalizes the oldest block of the segment.
finalize ==
    /\ ~building /\ Len(chain) > 1
    /\ final' = final \cup {[tx EXCEPT !.age = 0] : tx \in chain[2].body}
    /\ chain' = [i \in 1 .. Len(chain) - 1 |->
                    [chain[i + 1] EXCEPT !.body = {older(tx) : tx \in @}]]
    /\ pool' = {older(tx) : tx \in pool}
    /\ gossip' = {tx \in {older(t) : t \in gossip} : tx.mortal => tx.age < Period}
    /\ UNCHANGED <<vars, nonce, deaths, building, extrinsics, current, retractions, signatures>>

\* Faulty variant: the nonces of the retracted blocks stay used.
retract_keeping_nonces(k) ==
    /\ ~building /\ k < Len(chain)
    /\ retractions < MaxRetractions
    /\ retractions' = retractions + 1
    /\ chain' = SubSeq(chain, 1, k)
    /\ account' = chain[k].account /\ Sponsors' = chain[k].Sponsors
    /\ UNCHANGED <<xt, event, nonce, deaths, building, extrinsics, current, final>>
    /\ UNCHANGED <<pool, gossip, signatures>>

\* A better fork: the blocks after the k-th are retracted and their extrinsics go back
\* to the pool.
retract(k) ==
    /\ ~building /\ k < Len(chain)
    /\ retractions < MaxRetractions
    /\ retractions' = retractions + 1
    /\ chain' = SubSeq(chain, 1, k)
    /\ account' = chain[k].account /\ Sponsors' = chain[k].Sponsors
    /\ nonce' = chain[k].nonce /\ deaths' = chain[k].deaths
    /\ pool' = pool \cup UNION {{unapplied(tx) : tx \in chain[i].body} : i \in k + 1 .. Len(chain)}
    /\ UNCHANGED <<xt, event, building, extrinsics, current, final, gossip, signatures>>

-----------------------------------------------------------------------------
PoolInit ==
    /\ Init
    /\ nonce = [a \in AccountId |-> 0] /\ deaths = [a \in AccountId |-> 0]
    /\ building = FALSE /\ extrinsics = {} /\ current = None
    /\ chain = <<[account |-> account, Sponsors |-> Sponsors,
                   nonce |-> nonce, deaths |-> deaths, body |-> {}]>>
    /\ final = {} /\ pool = {} /\ gossip = {} /\ retractions = 0 /\ signatures = 0

\* What the node does by itself, whatever the collator puts into its blocks.
Produce ==
    \/ initialize_block
    \/ dispatch_call
    \/ \E fee \in Fee : settle(fee)
    \/ finalize_block

Include == \E tx \in pool, fee \in Fee : apply_extrinsic(tx, fee)

Reorganise == \E k \in 1 .. Len(chain) : retract(k)

\* A freshly signed extrinsic.  Signatures are random: "id" tells them apart.
signed(offer, n, id) ==
    [signer |-> offer.signer, sponsor |-> offer.sponsor, tip |-> offer.tip,
     mortal |-> offer.mortal, call |-> offer.call, nonce |-> n, id |-> id, age |-> 0,
     ok |-> FALSE, paid |-> 0, life |-> 0]

\* A user signs and submits, with the account's nonce at the best block or the next one.
sign_and_submit(offer, ahead) ==
    /\ signatures < MaxSubmissions
    /\ signatures' = signatures + 1
    /\ LET tx == signed(offer, Best.nonce[offer.signer] + ahead, signatures + 1)
       IN  submit(tx) /\ gossip' = IF offer \in Redelivered THEN gossip \cup {tx} ELSE gossip

\* The network delivers an extrinsic again, whether it has left the pool or is in a block:
\* anybody who has it may submit it.
resubmit(tx) == submit(tx) /\ UNCHANGED <<gossip, signatures>>

PoolNext ==
    \/ \E offer \in Offers, ahead \in {0, 1} : sign_and_submit(offer, ahead)
    \/ \E tx \in gossip : resubmit(tx)
    \/ \E tx \in pool : revalidate(tx)
    \/ maintain
    \/ Include
    \/ Produce
    \/ finalize
    \/ Reorganise

\* The collator builds a block whenever it may, the pool is maintained and the relay
\* chain finalizes.  Nobody has to include any extrinsic.
ChainFairness == WF_poolVars(Produce) /\ WF_poolVars(maintain) /\ WF_poolVars(finalize)

PoolSpec == PoolInit /\ [][PoolNext]_poolVars /\ ChainFairness

-----------------------------------------------------------------------------
(* Properties. *)

applied(i) == IF i = 1 THEN final ELSE chain[i].body

\* A block: the state it leaves and the extrinsics in it.
Block ==
    [account : [AccountId -> Account], Sponsors : [AccountId -> Option(SponsorState)],
     nonce : [AccountId -> Nat], deaths : [AccountId -> Nat],
     body : SUBSET SignedExtrinsic]

\* Types of the chain, the pool and the block being built, and of the state that one
\* starts from: between blocks it is the state of the best one.
PoolTypeOK ==
    /\ TypeOK
    /\ nonce \in [AccountId -> Nat] /\ deaths \in [AccountId -> Nat]
    /\ building \in BOOLEAN /\ extrinsics \subseteq SignedExtrinsic
    /\ current \in Option(SignedExtrinsic)
    /\ chain \in Seq(Block)
    /\ Len(chain) \in 1 .. UNINCLUDED_SEGMENT_CAPACITY + 1
    /\ final \subseteq SignedExtrinsic /\ pool \subseteq SignedExtrinsic
    /\ gossip \subseteq SignedExtrinsic
    /\ signatures \in Nat /\ retractions \in Nat
    /\ ~building =>
          /\ account = Best.account /\ Sponsors = Best.Sponsors
          /\ nonce = Best.nonce /\ deaths = Best.deaths

\* A signature is used again in the life of the account it was used in before.
same_use(t, u) == same_slot(t, u) /\ t.life = u.life

\* On the best chain no signature is used twice while its signer's account lives, so that
\* nobody pays for it twice: not after its block was retracted and the extrinsic went back to
\* the pool, not when another one with its nonce replaced it there, and not when the network
\* delivers it again.  An account that is reaped and endowed again starts at nonce 0, and
\* what its owner signed before can be used once more, until its era ends.
IncludedOnce ==
    \A i, j \in DOMAIN chain : \A t \in applied(i), u \in applied(j) :
        same_use(t, u) => i = j /\ t = u

spent(a, body) == MapThenSumSet(LAMBDA tx : tx.paid, {tx \in body : tx.sponsor = a})

\* However long an extrinsic has waited in the pool, a block charges a sponsor only as its
\* own parent state allows.  For a sponsor for which no call is dispatched in the block, its
\* own or one of the sudo key in its name: if it is paused or gone, the block has no extrinsic
\* it sponsors; otherwise what leaves its holds is the sum of the fees reported, each one
\* under its cap.
BlockRespectsSponsor ==
    \A i \in 2 .. Len(chain), a \in AccountId :
        LET parent == chain[i - 1]
            block  == chain[i]
            sponsored == {tx \in block.body : tx.sponsor = a}
        IN  (\A tx \in block.body : origin(tx) # a) =>
              /\ sponsored # {} => parent.Sponsors[a] # None /\ parent.Sponsors[a].active
              /\ \A tx \in sponsored : tx.paid <= parent.Sponsors[a].policy.max_fee_per_tx
              /\ OnHold(block.account[a]) + spent(a, block.body) = OnHold(parent.account[a])

\* What the pallet promises a sponsor extrinsic by extrinsic, the node keeps while it builds,
\* imports and finalizes blocks from a pool that was validated on other states: escrow moves
\* as SponsorEscrow says, and only a reorganisation puts another state in its place.
BlocksKeepEscrow ==
    [][retractions' = retractions =>
          UNCHANGED Escrow!escrowVars \/ Escrow!EscrowNext]_<<account, Sponsors>>

\* A mortal extrinsic never stays in the pool for ever, even when no block includes it: the
\* era that CheckMortality enforces ends its wait.
PooledLeaves ==
    \A id \in 1 .. MaxSubmissions : []<>(\A tx \in pool : tx.mortal => tx.id # id)
=============================================================================
