-------------------------- MODULE DemoClientBlocks --------------------------
(* What the steps of block production make of the client's invariant, given that *)
(* they keep the invariant of the pool and the chain.                            *)
EXTENDS DemoClientChain

\* The contexts are large: a leaf that names no prover is given to Zenon, whose translation is
\* the lightest, then to the SMT solver and to Z3 under its own name.
USE ZenonT(3), SMTT(20), Z3T(20)

-----------------------------------------------------------------------------
(* Steps of block production.  Each keeps the story of the block being built. *)

\* Nobody has been reaped: an extrinsic is used in the life it was signed for.
LEMMA FirstLife ==
    ASSUME DemoInv, NEW tx \in pool, NEW fee \in Fee, apply_extrinsic(tx, fee)
    PROVE  current' = tx /\ deaths' = deaths
<1>1. tx \in SignedExtrinsic /\ tx.life = 0
  BY SentParts, SentFacts DEF DemoInv, PoolInv, PoolTypeOK
<1>2. deaths[tx.signer] = 0
  BY <1>1, SignedFields DEF DemoInv, Story, NobodyDies
<1>3. [tx EXCEPT !.life = 0] = tx
  BY <1>1 DEF SignedExtrinsic
<1> QED BY <1>2, <1>3 DEF apply_extrinsic

\* An extrinsic that starts: a remark starts only where Alice is not paused and no other
\* remark has been paid for.
LEMMA ApplyStory ==
    ASSUME DemoInv, PoolInv', StatusStays, PaysExactly, HoldsKept,
           NEW tx \in pool, NEW fee \in Fee, apply_extrinsic(tx, fee)
    PROVE  Story'
<1> DEFINE x == charged(tx, fee)
<1>0. /\ extrinsics' = extrinsics /\ chain' = chain /\ final' = final /\ current' = tx
      /\ tx.nonce = nonce[tx.signer] /\ nonce' = [nonce EXCEPT ![tx.signer] = @ + 1]
      /\ validate_and_prepare(x) /\ deaths' = deaths
  BY FirstLife DEF apply_extrinsic
<1>1. /\ tx \in SignedExtrinsic /\ tx \in Sent /\ OfScript(tx) /\ ~tx.ok /\ tx # None
  BY SentParts, SentFacts, SignedFields DEF DemoInv, PoolInv, PoolTypeOK, Undispatched
<1>2. /\ x.signer = tx.signer /\ x.sponsor = tx.sponsor /\ x.signer # None
      /\ fee_with_tip(x) \in Nat /\ fee_with_tip(x) >= 1
  <2>1. fee \in Nat /\ fee >= 1 /\ tx.tip \in Nat
    BY <1>1, SignedFields, FeeFacts
  <2>2. fee_with_tip(x) = fee + tx.tip
    BY DEF fee_with_tip, charged
  <2>3. x.signer = tx.signer /\ x.sponsor = tx.sponsor /\ tx.signer # None
    BY <1>1, SignedFields, SponsoredTxAssumption DEF charged
  <2> QED BY <2>1, <2>2, <2>3
<1> HIDE DEF x
<1>3. /\ xt.phase = "idle" /\ xt'.phase = "prepared"
      /\ xt'.signer = tx.signer /\ xt'.sponsor = tx.sponsor /\ xt'.fee = fee_with_tip(x)
      /\ Sponsors' = Sponsors
      /\ \A a \in AccountId : OnHold(account'[a]) = OnHold(account[a])
  BY <1>0, <1>2 DEF HoldsKept, validate_and_prepare, prepare
<1>4. current = None /\ in_flight = {} /\ in_flight' = {tx}
  BY Zenon, <1>0, <1>1, <1>3 DEF DemoInv, PoolInv, CurrentInFlight, in_flight
<1>5. Best' = Best /\ Finalized' = Finalized
  BY <1>0 DEF Best, Finalized
<1>6. ChainStory' /\ FinalStory'
  BY Zenon, <1>0, <1>5 DEF DemoInv, Story, ChainStory, FinalStory
<1>7. OneBudget'
  BY <1>0, <1>3, Members DEF DemoInv, Story, OneBudget, BudgetTakenOnce, OnHold
<1>8. /\ account \in [AccountId -> Account] /\ account' \in [AccountId -> Account]
      /\ nonce \in [AccountId -> Nat] /\ Best.nonce \in [AccountId -> Nat]
      /\ Best.account \in [AccountId -> Account]
  BY ChainFacts, BlockFields DEF DemoInv, PoolInv, PoolTypeOK, IInv, TypeOK
<1>9. /\ tx.sponsor # None => account'[Alice]["free"] = account[Alice]["free"]
      /\ tx.sponsor = None =>
            account'[Alice]["free"] + fee_with_tip(x) = account[Alice]["free"]
      /\ account'[Bob]["free"] = account[Bob]["free"]
  <2>1. CASE tx.sponsor # None
    <3>1. starts_sponsored
      BY <1>3, <2>1 DEF starts_sponsored
    <3> QED BY <2>1, <3>1, Members DEF PaysExactly
  <2>2. CASE tx.sponsor = None
    <3>1. tx.signer = Alice
      BY <1>1, <2>2, Members DEF OfScript
    <3>2. account' = [account EXCEPT ![Alice] = Withdraw(@, fee_with_tip(x))]
      BY <1>0, <1>2, <2>2, <3>1 DEF validate_and_prepare, prepare
    <3>3. fee_with_tip(x) <= account[Alice]["free"]
      <4>1. CanWithdraw(account[Alice], fee_with_tip(x))
        BY <1>0, <1>2, <2>2, <3>1 DEF validate_and_prepare, validate, base_validate
      <4> QED BY <1>2, <1>8, <4>1, AccountFacts, Members, EDAssumption DEF CanWithdraw
    <3>4. account'[Bob] = account[Bob] /\ account'[Alice] = Withdraw(account[Alice], fee_with_tip(x))
      BY <1>8, <3>2, Members
    <3>5. Withdraw(account[Alice], fee_with_tip(x))["free"]
             = account[Alice]["free"] - fee_with_tip(x)
      BY <1>8, Members DEF Withdraw, Account, HoldReason
    <3> QED BY <1>2, <1>8, <2>2, <3>3, <3>4, <3>5, AccountFacts, Members
  <2> QED BY <2>1, <2>2
<1>10. HereStory'
  <2>0. HereStory
    BY DEF DemoInv, Story
  <2>1. tx.sponsor # None => is_remark(tx) /\ ~paused(Sponsors) /\ tx.signer = Bob
    <3>1. CASE tx.sponsor # None
      <4>1. is_remark(tx) /\ tx.sponsor = Alice /\ tx.signer = Bob
        BY <1>1, <3>1 DEF OfScript
      <4>2. sponsored_validate(x)
        BY <1>0, <1>2, <3>1 DEF validate_and_prepare, validate
      <4> QED BY <1>2, <4>1, <4>2 DEF sponsored_validate, paused
    <3> QED BY <3>1
  <2>2. tx.sponsor = None => tx.signer = Alice /\ ~is_remark(tx)
    BY <1>1, Members DEF OfScript
  <2>3. due = 0 /\ due' = IF tx.sponsor = None THEN fee_with_tip(x) - 1 ELSE 0
    BY <1>3 DEF due
  <2>4. Follows(Best, account, Sponsors, nonce, due)'
    <3>1. paused(Best.Sponsors) => nonce'[Bob] = nonce[Bob] /\ tx.signer = Alice
      <4>1. paused(Best.Sponsors) => paused(Sponsors)
        BY <2>0 DEF HereStory, Follows
      <4>2. paused(Best.Sponsors) => tx.signer = Alice
        BY <2>1, <2>2, <4>1
      <4> QED BY <1>0, <1>8, <4>2, Members
    <3>2. /\ account[Alice]["free"] \in Nat /\ account'[Alice]["free"] \in Nat
          /\ Best.account[Alice]["free"] \in Nat
      BY <1>8, AccountFacts, Members
    <3>3. account'[Alice]["free"] + due' <= account[Alice]["free"]
      BY <1>2, <1>9, <2>3, <3>2
    <3>4. /\ account[Alice]["free"] <= Best.account[Alice]["free"]
          /\ account[Bob]["free"] = Best.account[Bob]["free"]
          /\ registered(Best.Sponsors) => registered(Sponsors)
          /\ paused(Best.Sponsors) => paused(Sponsors) /\ nonce[Bob] = Best.nonce[Bob]
          /\ ~registered(Best.Sponsors) /\ registered(Sponsors) =>
                account[Alice]["free"] + INITIAL_BUDGET < Best.account[Alice]["free"]
      BY <2>0, <2>3, <3>2 DEF HereStory, Follows
    <3>5. due' \in Nat
      BY <1>2, <2>3
    <3>6. account'[Bob]["free"] = Best.account[Bob]["free"]
      BY <1>9, <3>4
    <3>7. account'[Alice]["free"] + due' <= Best.account[Alice]["free"]
      BY <3>2, <3>3, <3>4, <3>5
    <3>8. ~registered(Best.Sponsors) /\ registered(Sponsors) =>
             account'[Alice]["free"] + due' + INITIAL_BUDGET < Best.account[Alice]["free"]
      BY <3>2, <3>3, <3>4, <3>5, Members
    <3>9. paused(Best.Sponsors) => nonce'[Bob] = Best.nonce[Bob]
      BY <3>1, <3>4
    <3> QED BY Zenon, <1>3, <1>5, <3>4, <3>6, <3>7, <3>8, <3>9 DEF Follows, registered, paused
  <2>5. Explained(paused(Best.Sponsors), before(Best), account, Sponsors,
                  extrinsics \cup in_flight, extrinsics)'
    <3>1. Explained(paused(Best.Sponsors), before(Best), account, Sponsors, extrinsics, extrinsics)
      BY <1>4, <2>0 DEF HereStory
    <3>2. OnHold(account'[Alice]) = OnHold(account[Alice])
      BY <1>3, Members
    <3> QED BY Zenon, <1>0, <1>1, <1>3, <1>4, <1>5, <3>1, <3>2
            DEF Explained, registered, paused, before, is_register, is_pause, is_remark
  <2>6. tx.sponsor = None =>
           xt'.fee >= 1 /\ account'[Alice]["free"] + due' < Best.account[Alice]["free"]
    <3>1. /\ account[Alice]["free"] \in Nat /\ account'[Alice]["free"] \in Nat
          /\ Best.account[Alice]["free"] \in Nat
          /\ account[Alice]["free"] <= Best.account[Alice]["free"]
      BY <1>8, <2>0, <2>3, AccountFacts, Members DEF HereStory, Follows
    <3> QED BY <1>2, <1>3, <1>9, <2>3, <3>1
  <2>7. is_remark(tx) => \A t \in extrinsics : ~is_remark(t)
    <3> SUFFICES ASSUME is_remark(tx), NEW t \in extrinsics, is_remark(t) PROVE FALSE
      OBVIOUS
    <3>1. ~paused(Finalized.Sponsors)
      BY <2>1, <2>2 DEF StatusStays
    <3>2. Same(t, tx)
      BY <1>1, <3>1, SentParts DEF DemoInv, ScriptOrder
    <3>3. t.nonce < nonce[t.signer] /\ t.signer \in AccountId /\ t.nonce \in Nat
      BY PlainNonces, SignedFields DEF DemoInv, PoolInv, PoolTypeOK
    <3> QED BY <1>0, <1>8, <3>2, <3>3 DEF Same
  <2> QED BY Zenon, <1>0, <1>3, <1>5, <2>4, <2>5, <2>6, <2>7 DEF HereStory, is_remark
<1>11. NobodyDies'
  BY <1>0 DEF DemoInv, Story, NobodyDies
<1> QED BY <1>6, <1>7, <1>10, <1>11 DEF Story

\* The author includes a transaction of the pool (apply_extrinsic up to dispatch).
LEMMA IncludeStep ==
    ASSUME DemoInv, PoolInv', StatusStays, PaysExactly, HoldsKept, Include, UNCHANGED clientVars
    PROVE  DemoInv'
<1>1. PICK tx \in pool, fee \in Fee : apply_extrinsic(tx, fee)
  BY DEF Include
<1>2. /\ extrinsics' = extrinsics /\ chain' = chain /\ final' = final /\ current' = tx
      /\ pool' = pool /\ signatures' = signatures /\ at' = at /\ extrinsic' = extrinsic
  BY <1>1, FirstLife DEF apply_extrinsic, clientVars
<1>3. Story'
  BY <1>1, ApplyStory
<1>4. ~tx.ok
  BY DEF DemoInv, Undispatched
<1>5. Undispatched'
  BY <1>2, <1>4 DEF DemoInv, Undispatched
<1>6. Sent' \subseteq Sent
  BY <1>2 DEF Sent, known, in_flight
<1>7. Finalized' = Finalized
  BY <1>2 DEF Finalized
<1> QED BY Zenon, <1>2, <1>3, <1>5, <1>6, <1>7, SubsetStep

\* What a call of the script can do: nothing, the first registration, or a pause.
NoEffect ==
    /\ account' = account /\ Sponsors' = Sponsors
    /\ current' = current \/ is_remark(current)

Registers ==
    /\ is_register(current) /\ current.sponsor = None /\ ~registered(Sponsors)
    /\ registered(Sponsors') /\ ~paused(Sponsors')
    /\ OnHold(account[Alice]) = 0 /\ OnHold(account'[Alice]) = INITIAL_BUDGET
    /\ account'[Alice]["free"] + INITIAL_BUDGET = account[Alice]["free"]
    /\ account'[Bob] = account[Bob]
    /\ \A a \in AccountId : ~is_killed(a)

Pauses ==
    /\ is_pause(current) /\ account' = account
    /\ registered(Sponsors) /\ registered(Sponsors') /\ paused(Sponsors')

\* What dispatching one of the script's calls can do: nothing, register Alice or pause
\* her sponsorship.
LEMMA CallCases ==
    ASSUME DemoInv, dispatch_call
    PROVE  /\ xt.phase = "prepared" /\ xt'.phase = "dispatched"
           /\ xt'.sponsor = xt.sponsor /\ xt'.fee = xt.fee
           /\ current # None /\ current \in SignedExtrinsic /\ current \in Sent
           /\ current' # None /\ Same(current', current) /\ current'.paid = current.paid
           /\ ~current.ok /\ OfScript(current)
           /\ nonce' = nonce /\ deaths' = deaths
           /\ NoEffect \/ Registers \/ Pauses
<1>0. xt.phase = "prepared" /\ xt \in InFlight /\ account \in [AccountId -> Account]
      /\ Sponsors \in [AccountId -> Option(SponsorState)]
  BY DEF dispatch_call, DemoInv, PoolInv, IInv, TypeOK
<1>1. current # None /\ current \in SignedExtrinsic /\ ~current.ok
  BY <1>0 DEF DemoInv, PoolInv, CurrentInFlight, PoolTypeOK, Option, Undispatched
<1>2. current \in Sent /\ OfScript(current) /\ current.call.sudo_as = None
  BY <1>1, SentParts, SentFacts DEF DemoInv
<1>3. \/ call(current) /\ current' = [current EXCEPT !.ok = TRUE]
      \/ dispatch_without_effect /\ current' = current
  <2>1. is_sudo(current) = FALSE
    BY <1>2 DEF is_sudo
  <2>2. [current EXCEPT !.ok = FALSE] = current
    <3>1. current.ok = FALSE
      BY <1>1 DEF SignedExtrinsic
    <3> QED BY <1>1, <3>1 DEF SignedExtrinsic
  <2> QED BY Zenon, <2>1, <2>2 DEF dispatch_call
<1>4. current' # None /\ Same(current', current) /\ current'.paid = current.paid
  <2>1. current' \in SignedExtrinsic
    BY Zenon, <1>1, <1>3 DEF SignedExtrinsic
  <2>2. current' # None
    BY <2>1, SignedFields
  <2> QED BY <1>1, <1>3, <2>2 DEF SignedExtrinsic, Same
<1>5. dispatching
  BY Zenon, <1>3 DEF call, register_sponsor, increase_budget, decrease_budget, set_policy, pause,
                     resume, unregister, transfer_allow_death, dispatch_without_effect
<1>6. xt'.phase = "dispatched" /\ xt'.sponsor = xt.sponsor /\ xt'.fee = xt.fee
  BY <1>0, <1>5 DEF dispatching, InFlight
<1>7. ASSUME dispatch_without_effect, current' = current PROVE NoEffect
  BY <1>7 DEF NoEffect, dispatch_without_effect
<1>8. ASSUME call(current) PROVE NoEffect \/ Registers \/ Pauses
  <2>0. origin(current) = current.signer
    BY <1>2 DEF origin
  <2>1. CASE is_remark(current)
    BY <1>8, <2>1 DEF call, is_remark, NoEffect, dispatch_without_effect
  <2>2. CASE is_pause(current)
    <3>1. current.signer = Alice
      BY <1>2, <2>2 DEF OfScript
    <3>2. pause(Alice)
      BY <1>8, <2>0, <2>2, <3>1 DEF call, is_pause
    <3>3. Sponsors[Alice] # None /\ Sponsors[Alice] \in SponsorState
      BY <1>0, <3>2, Members DEF pause, is_registered, Option
    <3>4. account' = account /\ Sponsors'[Alice] = [Sponsors[Alice] EXCEPT !.active = FALSE]
      BY <1>0, <3>2, Members DEF pause
    <3>5. Sponsors'[Alice] \in SponsorState /\ ~Sponsors'[Alice].active
      BY Zenon, <3>3, <3>4 DEF SponsorState
    <3>6. Sponsors'[Alice] # None
      BY <3>5, SponsoredTxAssumption DEF SponsorState
    <3> QED BY Zenon, <2>2, <3>3, <3>4, <3>5, <3>6 DEF Pauses, registered, paused
  <2>3. CASE is_register(current)
    <3>1. /\ current.signer = Alice /\ current.sponsor = None
          /\ current.call.amount = INITIAL_BUDGET /\ current.call \in RuntimeCall
      BY <1>2, <2>3, CallsOfScript DEF OfScript
    <3>2. register_sponsor(Alice, INITIAL_BUDGET, current.call.policy)
      BY <1>8, <2>0, <2>3, <3>1 DEF call, is_register
    <3>3. ~registered(Sponsors) /\ OnHold(account[Alice]) = 0
      BY <3>2, Members DEF register_sponsor, is_registered, registered, DemoInv, PoolInv, IInv,
                           UnregisteredHoldsNothing
    <3>4. /\ Sponsors'[Alice] = [active |-> TRUE, policy |-> current.call.policy]
          /\ account'[Alice] = Hold(account[Alice], "SponsorshipBudget", INITIAL_BUDGET)
          /\ account'[Bob] = account[Bob]
          /\ INITIAL_BUDGET + ED <= account[Alice]["free"]
      BY <1>0, <3>2, Members DEF register_sponsor, CanHold
    <3>5. Sponsors'[Alice] \in SponsorState /\ Sponsors'[Alice].active
      BY <3>1, <3>4 DEF SponsorState, RuntimeCall
    <3>6. registered(Sponsors') /\ ~paused(Sponsors')
      BY <3>5, SponsoredTxAssumption DEF SponsorState, registered, paused
    <3>7. /\ OnHold(account'[Alice]) = OnHold(account[Alice]) + INITIAL_BUDGET
          /\ account'[Alice]["free"] = account[Alice]["free"] - INITIAL_BUDGET
      BY <1>0, <3>4, Members DEF Hold, OnHold, Account, HoldReason
    <3>8. account'[Alice]["free"] + INITIAL_BUDGET = account[Alice]["free"]
      BY <1>0, <3>4, <3>7, Members, AccountFacts
    <3>9. OnHold(account'[Alice]) = INITIAL_BUDGET
      BY <3>3, <3>7, Members
    <3>10. \A a \in AccountId : ~is_killed(a)
      <4>1. \A a \in AccountId \ {Alice} : account'[a] = account[a]
        BY <1>0, <3>2 DEF register_sponsor
      <4>2. account'[Alice]["free"] >= ED
        BY <1>0, <3>4, <3>7, Members, AccountFacts, EDAssumption
      <4> QED BY <4>1, <4>2 DEF is_killed, IsLive
    <3> QED BY Zenon, <2>3, <3>1, <3>3, <3>4, <3>6, <3>8, <3>9, <3>10 DEF Registers
  <2> QED BY <1>2, <2>1, <2>2, <2>3 DEF OfScript
<1>9. NoEffect \/ Registers \/ Pauses
  BY Zenon, <1>3, <1>7, <1>8
<1>10. \A a \in AccountId : ~is_killed(a)
  BY <1>9 DEF NoEffect, Registers, Pauses, is_killed
<1>11. nonce' = nonce /\ deaths' = deaths
  <2>1. nonce \in [AccountId -> Nat] /\ deaths \in [AccountId -> Nat]
    BY DEF DemoInv, PoolInv, PoolTypeOK
  <2>2. /\ nonce' = [a \in AccountId |-> nonce[a]]
        /\ deaths' = [a \in AccountId |-> deaths[a]]
    BY <1>10 DEF dispatch_call
  <2> QED BY <2>1, <2>2
<1> QED BY Zenon, <1>0, <1>1, <1>2, <1>4, <1>6, <1>9, <1>11

\* A call of the script leaves a story behind.
LEMMA DispatchStory ==
    ASSUME DemoInv, PoolInv', StatusStays, dispatch_call
    PROVE  Story'
<1>0. /\ extrinsics' = extrinsics /\ chain' = chain /\ final' = final /\ nonce' = nonce
      /\ deaths' = deaths
  BY CallCases DEF dispatch_call
<1>1. /\ xt.phase = "prepared" /\ xt'.phase = "dispatched"
      /\ xt'.sponsor = xt.sponsor /\ xt'.fee = xt.fee
      /\ current # None /\ current' # None /\ Same(current', current) /\ ~current.ok
      /\ current \in Sent /\ OfScript(current)
      /\ NoEffect \/ Registers \/ Pauses
  BY CallCases
<1>2. in_flight = {current} /\ in_flight' = {current'} /\ due' = due
  BY <1>1 DEF in_flight, due
<1>3. Best' = Best /\ Finalized' = Finalized
  BY <1>0 DEF Best, Finalized
<1>4. ChainStory' /\ FinalStory'
  BY Zenon, <1>0, <1>3 DEF DemoInv, Story, ChainStory, FinalStory
<1>5. OneBudget'
  <2>1. BudgetTakenOnce'
    BY <1>0 DEF DemoInv, Story, OneBudget, BudgetTakenOnce, OnHold
  <2>2. OnHold(account'[Alice]) <= INITIAL_BUDGET
    BY <1>1, Members DEF DemoInv, Story, OneBudget, NoEffect, Registers, Pauses
  <2> QED BY <2>1, <2>2 DEF OneBudget, OnHold
<1>6. /\ is_register(current') <=> is_register(current)
      /\ is_pause(current') <=> is_pause(current)
      /\ is_remark(current') <=> is_remark(current)
  BY <1>1, SameKind
<1>7. /\ Follows(Best, account, Sponsors, nonce, due)
      /\ Explained(paused(Best.Sponsors), before(Best), account, Sponsors,
                   extrinsics \cup {current}, extrinsics)
      /\ xt.sponsor = None =>
            xt.fee >= 1 /\ account[Alice]["free"] + due < Best.account[Alice]["free"]
      /\ is_remark(current) => \A t \in extrinsics : ~is_remark(t)
  BY <1>1, <1>2, HereTypes DEF HereStory
<1>8. /\ is_remark(current') => \A t \in extrinsics : ~is_remark(t)
  BY <1>6, <1>7
<1>a. ASSUME Follows(Best, account', Sponsors', nonce, due),
             Explained(paused(Best.Sponsors), before(Best), account', Sponsors',
                       extrinsics \cup {current'}, extrinsics),
             xt.sponsor = None => account'[Alice]["free"] + due < Best.account[Alice]["free"]
      PROVE  Story'
  <2>1. /\ Follows(Best', account', Sponsors', nonce', due')
        /\ Explained(paused(Best'.Sponsors), before(Best'), account', Sponsors',
                     extrinsics' \cup in_flight', extrinsics')
    BY Zenon, <1>0, <1>2, <1>3, <1>a
  <2>2. xt'.phase # "idle" /\ xt'.sponsor = None =>
           xt'.fee >= 1 /\ account'[Alice]["free"] + due' < Best'.account[Alice]["free"]
    BY Zenon, <1>1, <1>2, <1>3, <1>7, <1>a
  <2>3. is_remark(current') => \A t \in extrinsics' : ~is_remark(t)
    BY Zenon, <1>0, <1>8
  <2>4. NobodyDies'
    BY <1>0 DEF DemoInv, Story, NobodyDies
  <2> QED BY Zenon, <1>4, <1>5, <2>1, <2>2, <2>3, <2>4 DEF Story, HereStory, is_remark
<1>9. CASE NoEffect
  <2>0. account' = account /\ Sponsors' = Sponsors
    BY <1>9 DEF NoEffect
  <2>1. current'.ok => is_remark(current') /\ ~is_register(current') /\ ~is_pause(current')
    BY <1>1, <1>6, <1>9 DEF NoEffect, OfScript
  <2>2. Explained(paused(Best.Sponsors), before(Best), account, Sponsors,
                  extrinsics \cup {current'}, extrinsics)
    BY <1>6, <1>7, <2>1 DEF Explained
  <2>3. /\ Follows(Best, account', Sponsors', nonce, due)
        /\ Explained(paused(Best.Sponsors), before(Best), account', Sponsors',
                     extrinsics \cup {current'}, extrinsics)
    BY Zenon, <1>7, <2>0, <2>2
  <2>4. xt.sponsor = None => account'[Alice]["free"] + due < Best.account[Alice]["free"]
    BY Zenon, <1>7, <2>0
  <2> QED BY Zenon, <1>a, <2>3, <2>4
<1>10. CASE Pauses
  <2>0. account' = account /\ is_pause(current') /\ ~is_register(current')
    BY <1>1, <1>6, <1>10 DEF Pauses, OfScript
  <2>1. registered(Sponsors) /\ registered(Sponsors') /\ paused(Sponsors')
    BY <1>10 DEF Pauses
  <2>2. Explained(paused(Best.Sponsors), before(Best), account, Sponsors',
                  extrinsics \cup {current'}, extrinsics)
    BY <1>7, <2>0, <2>1 DEF Explained
  <2>3. Follows(Best, account, Sponsors', nonce, due)
    BY <1>7, <2>1 DEF Follows
  <2>4. /\ Follows(Best, account', Sponsors', nonce, due)
        /\ Explained(paused(Best.Sponsors), before(Best), account', Sponsors',
                     extrinsics \cup {current'}, extrinsics)
    BY Zenon, <2>0, <2>2, <2>3
  <2>5. xt.sponsor = None => account'[Alice]["free"] + due < Best.account[Alice]["free"]
    BY Zenon, <1>7, <2>0
  <2> QED BY Zenon, <1>a, <2>4, <2>5
<1>11. CASE Registers
  <2>0. /\ ~registered(Sponsors) /\ registered(Sponsors') /\ ~paused(Sponsors')
        /\ is_register(current') /\ ~is_pause(current') /\ ~paused(Sponsors)
        /\ OnHold(account'[Alice]) = INITIAL_BUDGET
        /\ account'[Alice]["free"] + INITIAL_BUDGET = account[Alice]["free"]
        /\ account'[Bob] = account[Bob] /\ xt.sponsor = None
    <3>1. xt.sponsor = current.sponsor
      BY <1>1 DEF DemoInv, PoolInv, CurrentInFlight
    <3>2. ~paused(Sponsors)
      BY <1>11 DEF Registers, registered, paused
    <3> QED BY <1>1, <1>6, <1>11, <3>1, <3>2 DEF Registers, OfScript
  <2>1. only_registers
    BY <2>0 DEF StatusStays, DemoInv, ScriptOrder
  <2>2. \A t \in extrinsics : ~is_remark(t) /\ ~is_pause(t)
    <3>1. \A t \in extrinsics : is_register(t)
      BY <2>1, SentParts DEF only_registers
    <3> QED BY <3>1 DEF is_register, is_remark, is_pause
  <2>3. ~registered(Best.Sponsors) /\ ~paused(Best.Sponsors) /\ before(Best) = INITIAL_BUDGET
    BY <1>7, <2>0 DEF Follows, before
  <2>4. Explained(paused(Best.Sponsors), before(Best), account', Sponsors',
                  extrinsics \cup {current'}, extrinsics)
    BY <2>0, <2>2, <2>3 DEF Explained
  <2>5. account'[Alice]["free"] \in Nat
    BY AccountFacts, Members DEF PoolInv, IInv, TypeOK
  <2>6. /\ account'[Alice]["free"] + due + INITIAL_BUDGET < Best.account[Alice]["free"]
        /\ account'[Alice]["free"] + due < Best.account[Alice]["free"]
        /\ account'[Alice]["free"] + due <= Best.account[Alice]["free"]
    BY <1>7, <2>0, <2>5, HereTypes, Members
  <2>7. Follows(Best, account', Sponsors', nonce, due)
    BY <1>7, <2>0, <2>3, <2>6 DEF Follows
  <2> QED BY Zenon, <1>a, <2>4, <2>6, <2>7
<1> QED BY <1>1, <1>9, <1>10, <1>11

\* Dispatching the included call keeps the invariant.
LEMMA DispatchDemoStep ==
    ASSUME DemoInv, PoolInv', StatusStays, dispatch_call, UNCHANGED clientVars
    PROVE  DemoInv'
<1>0. /\ extrinsics' = extrinsics /\ chain' = chain /\ final' = final /\ pool' = pool
      /\ signatures' = signatures /\ at' = at /\ extrinsic' = extrinsic
  BY DEF dispatch_call, clientVars
<1>1. /\ current \in Sent /\ Same(current', current) /\ current' # None /\ xt'.phase = "dispatched"
      /\ OfScript(current) /\ ~current.ok
      /\ NoEffect \/ Registers \/ Pauses
  BY CallCases
<1>2. Sent' \subseteq Sent \cup {current'}
  BY <1>0 DEF Sent, known, in_flight
<1>3. Inherited
  BY <1>1, <1>2, SameItself DEF Inherited
<1>4. FirstSuccess
  <2> SUFFICES ASSUME NEW t \in Sent', t.ok, is_register(t), t.id = signatures,
                      registered(Finalized.Sponsors)
               PROVE  \E u \in Sent : ok_register(u)
    BY <1>0 DEF FirstSuccess, is_register
  <2>1. CASE t \in Sent
    BY <2>1 DEF ok_register
  <2>2. CASE t = current'
    <3>1. is_register(current) /\ ~is_pause(current) /\ ~is_remark(current)
      BY <1>1, <2>2, SameKind DEF OfScript
    <3>2. Registers
      BY <1>1, <2>2, <3>1 DEF NoEffect, Pauses
    <3> QED BY <3>2 DEF StatusStays, Registers
  <2> QED BY <1>2, <2>1, <2>2
<1>5. Undispatched'
  BY <1>0, <1>1 DEF DemoInv, Undispatched
<1>6. Finalized' = Finalized
  BY <1>0 DEF Finalized
<1>7. Story'
  BY DispatchStory
<1> QED BY <1>0, <1>3, <1>4, <1>5, <1>6, <1>7, EventStep

\* What settling does to the balances of the script: a sponsored fee leaves the free
\* balances alone, and of her own fee Alice gets back all but one unit at most.
LEMMA SettleBalances ==
    ASSUME DemoInv, PoolInv', PaysExactly, HoldsPay, NEW fee \in Fee, settle(fee),
           NEW n, n = reported
    PROVE  /\ current # None /\ current \in SignedExtrinsic /\ current \in Sent
           /\ OfScript(current) /\ xt.phase = "dispatched" /\ xt'.phase = "idle"
           /\ Sponsors' = Sponsors /\ n \in Nat
           /\ account'[Bob]["free"] = account[Bob]["free"]
           /\ account'[Alice]["free"] <= account[Alice]["free"] + due
           /\ account'[Alice]["free"] \in Nat /\ OnHold(account'[Alice]) \in Nat
           /\ OnHold(account'[Alice]) + (IF is_remark(current) THEN n ELSE 0)
                 = OnHold(account[Alice])
<1>0. /\ post_dispatch_details(fee) /\ xt.phase = "dispatched" /\ xt'.phase = "idle"
      /\ Sponsors' = Sponsors
  BY DEF settle, post_dispatch_details, Idle
<1>1. /\ current # None /\ current \in SignedExtrinsic /\ event = None
      /\ xt.signer = current.signer /\ xt.sponsor = current.sponsor
  BY <1>0 DEF DemoInv, PoolInv, CurrentInFlight, PoolTypeOK, Option
<1>2. current \in Sent /\ OfScript(current)
  BY <1>1, SentParts, SentFacts DEF DemoInv
<1>3. IInv' /\ IInv
  BY DEF DemoInv, PoolInv
<1>4. account'[Alice]["free"] \in Nat /\ OnHold(account'[Alice]) \in Nat
  BY <1>3, AccountFacts, Members DEF IInv, TypeOK
<1>5. /\ n \in Nat
      /\ OnHold(account'[Alice]) + (IF Alice = xt.sponsor THEN n ELSE 0) = OnHold(account[Alice])
  BY Members DEF HoldsPay
<1>6. Alice = xt.sponsor <=> is_remark(current)
  BY <1>1, <1>2, Members DEF OfScript
<1>7. /\ account'[Bob]["free"] = account[Bob]["free"]
      /\ account'[Alice]["free"] <= account[Alice]["free"] + due
  <2>1. CASE xt.sponsor # None
    <3>1. settles_sponsored
      BY <1>0, <2>1 DEF settles_sponsored
    <3>2. /\ account'[Bob]["free"] = account[Bob]["free"]
          /\ account'[Alice]["free"] = account[Alice]["free"]
      BY <3>1, Members DEF PaysExactly
    <3>3. due = 0
      BY <2>1 DEF due
    <3> QED BY <3>2, <3>3, HereTypes
  <2>2. CASE xt.sponsor = None
    <3>1. xt.signer = Alice
      BY <1>1, <1>2, <2>2, Members DEF OfScript
    <3> DEFINE refund == xt.fee - Lesser(fee + xt.tip, xt.fee)
    <3>2. \/ account' = account
          \/ account' = [account EXCEPT ![Alice] = Deposit(@, refund)]
      BY Zenon, <1>0, <2>2, <3>1, Members DEF post_dispatch_details, refund_signer
    <3>3. refund <= due /\ refund \in Nat
      <4>1. xt.fee >= 1 /\ xt.fee \in Nat /\ due = xt.fee - 1
        BY <1>0, <2>2, HereTypes DEF HereStory, due
      <4>2. xt.tip \in Nat /\ fee \in Nat /\ fee >= 1
        <5>1. xt \in InFlight
          BY <1>3 DEF IInv, TypeOK
        <5>2. \E m : m \in Tip
          BY DemoClientAssumption
        <5> QED BY <5>1, <5>2, FeeFacts DEF InFlight
      <4> QED BY <4>1, <4>2 DEF Lesser
    <3> HIDE DEF refund
    <3>4. /\ Deposit(account[Alice], refund)["free"] <= account[Alice]["free"] + refund
      BY <3>3, HereTypes, Members DEF Deposit, Account, HoldReason
    <3>5. /\ account'[Bob] = account[Bob]
          /\ \/ account'[Alice] = account[Alice]
             \/ account'[Alice] = Deposit(account[Alice], refund)
      BY <3>2, HereTypes, Members
    <3> QED BY <1>4, <3>3, <3>4, <3>5, HereTypes
  <2> QED BY <2>1, <2>2
<1> QED BY Zenon, <1>0, <1>1, <1>2, <1>4, <1>5, <1>6, <1>7

\* What the block says of an extrinsic and of what it cost are told together.
LEMMA SettleStory ==
    ASSUME DemoInv, PoolInv', PaysExactly, HoldsPay, NEW fee \in Fee, settle(fee),
           NEW n, n = reported, NEW done, extrinsics' = extrinsics \cup {done},
           Same(done, current), done.ok = current.ok, done.paid = n
    PROVE  Story'
<1>0. /\ chain' = chain /\ final' = final /\ nonce' = nonce /\ deaths' = deaths
      /\ current' = None
  BY DEF settle
<1> DEFINE held == OnHold(account[Alice])
           left == OnHold(account'[Alice])
<1>1. /\ current # None /\ xt.phase = "dispatched" /\ xt'.phase = "idle"
      /\ Sponsors' = Sponsors
      /\ account'[Bob]["free"] = account[Bob]["free"]
      /\ account'[Alice]["free"] <= account[Alice]["free"] + due
      /\ account'[Alice]["free"] \in Nat
  BY SettleBalances
<1>11. /\ held \in Nat /\ left \in Nat /\ n \in Nat
       /\ left + (IF is_remark(current) THEN n ELSE 0) = held
  BY SettleBalances, HereTypes
<1> HIDE DEF held, left
<1>2. in_flight = {current} /\ in_flight' = {} /\ due' = 0
  BY <1>0, <1>1 DEF in_flight, due
<1>3. Best' = Best /\ Finalized' = Finalized
  BY <1>0 DEF Best, Finalized
<1>4. ChainStory' /\ FinalStory'
  BY Zenon, <1>0, <1>3 DEF DemoInv, Story, ChainStory, FinalStory
<1>5. OneBudget'
  <2>1. BudgetTakenOnce' /\ held <= INITIAL_BUDGET
    BY <1>0 DEF DemoInv, Story, OneBudget, BudgetTakenOnce, OnHold, held
  <2>2. left <= INITIAL_BUDGET
    BY <1>11, <2>1, Members
  <2> QED BY <2>1, <2>2 DEF OneBudget, OnHold, left
<1>6. /\ is_register(done) <=> is_register(current)
      /\ is_pause(done) <=> is_pause(current)
      /\ is_remark(done) <=> is_remark(current)
  BY SameKind
<1>7. /\ Follows(Best, account, Sponsors, nonce, due)
      /\ Explained(paused(Best.Sponsors), before(Best), account, Sponsors,
                   extrinsics \cup {current}, extrinsics)
      /\ is_remark(current) => \A t \in extrinsics : ~is_remark(t)
  BY Zenon, <1>1, <1>2, HereTypes DEF HereStory
<1>8. Follows(Best, account', Sponsors, nonce, 0)
  <2> DEFINE start == Best.account[Alice]["free"]
             funds == account[Alice]["free"]
             after == account'[Alice]["free"]
             new   == ~registered(Best.Sponsors) /\ registered(Sponsors)
  <2>1. funds + due <= start /\ (new => funds + due + INITIAL_BUDGET < start)
    BY <1>7 DEF Follows
  <2>2. /\ start \in Nat /\ funds \in Nat /\ after \in Nat /\ due \in Nat
        /\ INITIAL_BUDGET \in Nat /\ after <= funds + due
    BY <1>1, HereTypes, Members
  <2> HIDE DEF start, funds, after, new
  <2>3. after + 0 <= start /\ (new => after + 0 + INITIAL_BUDGET < start)
    BY <2>1, <2>2
  <2> QED BY Zenon, <1>1, <1>7, <2>3 DEF Follows, start, after, new
<1>9. Explained(paused(Best.Sponsors), before(Best), account', Sponsors,
                extrinsics \cup {done}, extrinsics \cup {done})
  <2>1. /\ paused(Sponsors) =>
              paused(Best.Sponsors) \/ \E t \in extrinsics \cup {done} : is_pause(t)
        /\ \A t \in extrinsics \cup {done} : t.ok =>
              (is_register(t) => registered(Sponsors)) /\ (is_pause(t) => paused(Sponsors))
    BY <1>6, <1>7 DEF Explained
  <2>2. ASSUME registered(Sponsors)
        PROVE  /\ (\A t \in extrinsics \cup {done} : ~is_remark(t)) =>
                     left = before(Best)
               /\ \A t \in extrinsics \cup {done} : is_remark(t) =>
                     left + t.paid = before(Best)
    <3>1. /\ (\A t \in extrinsics : ~is_remark(t)) => held = before(Best)
          /\ \A t \in extrinsics : is_remark(t) => held + t.paid = before(Best)
      BY <1>7, <2>2 DEF Explained, held
    <3>2. CASE is_remark(current)
      BY <1>6, <1>7, <1>11, <3>1, <3>2
    <3>3. CASE ~is_remark(current)
      <4>1. left = held
        BY <1>11, <3>3
      <4> QED BY <1>6, <3>1, <3>3, <4>1
    <3> QED BY <3>2, <3>3
  <2> QED BY <2>1, <2>2 DEF Explained, left
<1>10. HereStory'
  BY Zenon, <1>0, <1>1, <1>2, <1>3, <1>8, <1>9 DEF HereStory
<1>12. NobodyDies'
  BY <1>0 DEF DemoInv, Story, NobodyDies
<1> QED BY <1>4, <1>5, <1>10, <1>12 DEF Story

\* post_dispatch_details settles the included extrinsic and keeps the invariant.
LEMMA SettleDemoStep ==
    ASSUME DemoInv, PoolInv', PaysExactly, HoldsPay, NEW fee \in Fee, settle(fee),
           UNCHANGED clientVars
    PROVE  DemoInv'
<1> DEFINE n    == reported
           done == [current EXCEPT !.paid = n]
<1>0. /\ extrinsics' = extrinsics \cup {done} /\ chain' = chain /\ final' = final
      /\ current' = None /\ pool' = pool
      /\ signatures' = signatures /\ at' = at /\ extrinsic' = extrinsic
  BY DEF settle, clientVars, reported
<1>1. current # None /\ current \in SignedExtrinsic /\ current \in Sent /\ xt'.phase = "idle"
  BY SettleBalances
<1> HIDE DEF n
<1>2. Same(done, current) /\ done.ok = current.ok /\ done.paid = n
  BY <1>1 DEF SignedExtrinsic, Same
<1> HIDE DEF done
<1>3. Story'
  BY <1>0, <1>2, SettleStory DEF n
<1>4. Sent' \subseteq Sent \cup {done}
  BY <1>0 DEF Sent, known, in_flight
<1>5. Inherited
  BY <1>1, <1>2, <1>4, SameItself DEF Inherited
<1>6. FirstSuccess
  <2>1. ASSUME NEW t \in Sent', t.ok, is_register(t), t.id = signatures
        PROVE  \E u \in Sent : ok_register(u)
    BY <1>1, <1>2, <1>4, <2>1, SameKind DEF ok_register, Same
  <2> QED BY <1>0, <2>1 DEF FirstSuccess, is_register
<1>7. Undispatched'
  BY <1>0, <1>1 DEF DemoInv, Undispatched
<1>8. Finalized' = Finalized
  BY <1>0 DEF Finalized
<1> QED BY Zenon, <1>0, <1>3, <1>5, <1>6, <1>7, <1>8, EventStep

-----------------------------------------------------------------------------
(* All steps of the node. *)

\* Every step of the node keeps the invariant.
LEMMA NodeDemoStep ==
    ASSUME DemoInv, PoolInv', StatusStays, Node,
           Include => PaysExactly /\ HoldsKept,
           \A fee \in Fee : settle(fee) => PaysExactly /\ HoldsPay
    PROVE  DemoInv'
<1>0. UNCHANGED clientVars
  BY DEF Node
<1>1. ASSUME UNCHANGED <<vars, chainVars, signatures>>, pool' \subseteq pool PROVE DemoInv'
  <2>1. Quiet /\ signatures' = signatures
    BY <1>1 DEF Quiet, vars, chainVars
  <2> QED BY <1>0, <1>1, <2>1, QuietStep
<1>2. CASE \E t \in pool : revalidate(t)
  BY <1>1, <1>2 DEF revalidate
<1>3. CASE maintain
  BY <1>1, <1>3 DEF maintain
<1>4. CASE Include
  BY <1>0, <1>4, IncludeStep
<1>5. CASE initialize_block
  <2>1. Quiet /\ signatures' = signatures /\ pool' = pool
    BY <1>5 DEF initialize_block, Quiet, vars
  <2> QED BY <1>0, <2>1, QuietStep
<1>6. CASE dispatch_call
  BY <1>0, <1>6, DispatchDemoStep
<1>7. CASE \E fee \in Fee : settle(fee)
  BY <1>0, <1>7, SettleDemoStep
<1>8. CASE finalize_block
  BY <1>0, <1>8, FinalizeBlockDemoStep
<1>9. CASE Reorganise
  BY <1>0, <1>9, RetractDemoStep DEF Reorganise
<1> QED BY <1>2, <1>3, <1>4, <1>5, <1>6, <1>7, <1>8, <1>9 DEF Node, Produce
=============================================================================
