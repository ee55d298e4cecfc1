----------------------- MODULE TransactionPoolProofs -----------------------
(* What TransactionPool keeps: types, one use of a signature, and what a     *)
(* block may charge to a sponsor, for every set of accounts and offers.      *)
EXTENDS TransactionPoolChain, SponsoredTxProofs

\* The contexts are large: a leaf that names no prover is given to Zenon, whose translation is
\* the lightest, then to the SMT solver and to Z3 under its own name.
USE ZenonT(3), SMTT(20), Z3T(20)

-----------------------------------------------------------------------------
(* The stages of an extrinsic in a block, one lemma each. *)

\* The payment extension gets a well-formed extrinsic from CheckNonce.
LEMMA ChargedFacts ==
    ASSUME NEW tx \in SignedExtrinsic, NEW fee \in Fee
    PROVE  /\ charged(tx, fee) \in Extrinsic
           /\ charged(tx, fee).signer = tx.signer /\ charged(tx, fee).sponsor = tx.sponsor
           /\ charged(tx, fee).signer # None
BY SignedFacts, SponsoredTxAssumption DEF charged, Extrinsic, Option

\* prepare moves funds between the holds of the sponsor or takes the signer's free
\* balance: what anybody has on hold stays the same.
LEMMA PrepareKeepsHolds ==
    ASSUME IInv, NEW x \in Extrinsic, x.signer # None, validate_and_prepare(x)
    PROVE  /\ xt.phase = "idle" /\ xt'.phase = "prepared"
           /\ xt'.signer = x.signer /\ xt'.sponsor = x.sponsor /\ xt'.fee = fee_with_tip(x)
           /\ event' = None /\ Sponsors' = Sponsors
           /\ \A a \in AccountId : OnHold(account'[a]) = OnHold(account[a])
<1>0. account \in [AccountId -> Account]
  BY DEF IInv, TypeOK
<1>1. xt.phase = "idle" /\ event' = None /\ Sponsors' = Sponsors /\ prepare(x)
  BY DEF validate_and_prepare
<1>2. CASE x.sponsor = None
  <2>1. /\ account' = [account EXCEPT ![x.signer] = Withdraw(@, fee_with_tip(x))]
        /\ xt' = [phase |-> "prepared", signer |-> x.signer, sponsor |-> None,
                  fee |-> fee_with_tip(x), tip |-> x.tip]
    BY <1>1, <1>2 DEF prepare
  <2>2. x.signer \in AccountId
    BY ExtrinsicFacts DEF Option
  <2>3. OnHold(Withdraw(account[x.signer], fee_with_tip(x))) = OnHold(account[x.signer])
    BY <1>0, <2>2 DEF Withdraw, OnHold, Account, HoldReason
  <2>4. \A a \in AccountId : OnHold(account'[a]) = OnHold(account[a])
    <3> SUFFICES ASSUME NEW a \in AccountId PROVE OnHold(account'[a]) = OnHold(account[a])
      OBVIOUS
    <3>1. CASE a = x.signer
      <4>1. account'[a] = Withdraw(account[x.signer], fee_with_tip(x))
        BY Zenon, <1>0, <2>1, <3>1
      <4> QED BY Zenon, <2>3, <3>1, <4>1
    <3>2. CASE a # x.signer
      <4>1. account'[a] = account[a]
        BY Zenon, <1>0, <2>1, <3>2
      <4> QED BY <4>1
    <3> QED BY <3>1, <3>2
  <2> QED BY Zenon, <1>1, <1>2, <2>1, <2>4
<1>3. CASE x.sponsor # None
  <2>1. xt' = [phase |-> "prepared", signer |-> x.signer, sponsor |-> x.sponsor,
               fee |-> fee_with_tip(x), tip |-> x.tip]
    BY <1>1, <1>3 DEF prepare
  <2>2. starts_sponsored /\ PaysExactly
    BY Zenon, <1>1, <1>3, <2>1, StartPaysExactly DEF starts_sponsored
  <2>3. ASSUME NEW a \in AccountId PROVE OnHold(account'[a]) = OnHold(account[a])
    <3>1. CASE a = x.sponsor
      BY <2>1, <2>2, <3>1 DEF PaysExactly
    <3>2. CASE a # x.sponsor
      <4>1. a # xt.sponsor
        BY <1>1, SponsoredTxAssumption DEF IInv, FlightOK, Idle
      <4>2. account'[a] = account[a]
        BY Zenon, <2>1, <2>2, <3>2, <4>1 DEF PaysExactly
      <4> QED BY <4>2
    <3> QED BY <3>1, <3>2
  <2> QED BY <1>1, <2>1, <2>3
<1> QED
  BY <1>2, <1>3

\* An extrinsic that starts takes the next nonce of its signer, and a sponsor that lets it
\* start is active and offers the fee in the state the block has reached.
LEMMA ApplyExtrinsicStep ==
    ASSUME PoolInv, NEW tx \in SignedExtrinsic, NEW fee \in Fee, apply_extrinsic(tx, fee)
    PROVE  PoolInv'
<1> DEFINE x   == charged(tx, fee)
           cur == [tx EXCEPT !.life = deaths[tx.signer]]
<1>0. /\ building /\ building' = building /\ extrinsics' = extrinsics
      /\ chain' = chain /\ final' = final /\ current' = cur /\ deaths' = deaths
      /\ retractions' = retractions /\ pool' = pool /\ gossip' = gossip
      /\ signatures' = signatures
      /\ tx.nonce = nonce[tx.signer] /\ nonce' = [nonce EXCEPT ![tx.signer] = @ + 1]
      /\ validate_and_prepare(x)
  BY DEF apply_extrinsic
<1>1. x \in Extrinsic /\ x.signer = tx.signer /\ x.sponsor = tx.sponsor /\ x.signer # None
  BY ChargedFacts
<1>2. IInv'
  BY <1>0, <1>1, UnsponsoredPrepareStep, SponsoredPrepareStep DEF PoolInv
<1>3. ChainInv' /\ Best' = Best
  BY <1>0, ChainUnchanged, PoolInvParts
<1>4. tx.sponsor # None =>
         /\ Sponsors[tx.sponsor] # None /\ Sponsors[tx.sponsor].active
         /\ fee_with_tip(x) <= Sponsors[tx.sponsor].policy.max_fee_per_tx
  BY <1>0, <1>1 DEF validate_and_prepare, validate, sponsored_validate, is_registered
<1> HIDE DEF x
<1>5. /\ xt.phase = "idle" /\ xt'.phase = "prepared"
      /\ xt'.signer = tx.signer /\ xt'.sponsor = tx.sponsor /\ xt'.fee = fee_with_tip(x)
      /\ event' = None /\ Sponsors' = Sponsors
      /\ \A a \in AccountId : OnHold(account'[a]) = OnHold(account[a])
  BY <1>0, <1>1, PrepareKeepsHolds DEF PoolInv
<1>60. /\ cur \in SignedExtrinsic /\ cur.signer = tx.signer /\ cur.sponsor = tx.sponsor
       /\ cur.nonce = tx.nonce /\ cur.life = deaths[tx.signer] /\ cur.call = tx.call
  <2>1. deaths[tx.signer] \in Nat
    BY SignedFacts DEF PoolInv, PoolTypeOK
  <2> QED BY <2>1 DEF SignedExtrinsic
<1> HIDE DEF cur
<1>6. /\ cur # None /\ tx.signer \in AccountId /\ cur.nonce \in Nat
      /\ nonce \in [AccountId -> Nat] /\ deaths \in [AccountId -> Nat] /\ current = None
      /\ nonce' \in [AccountId -> Nat]
      /\ \A a \in AccountId : nonce'[a] = IF a = tx.signer THEN nonce[a] + 1 ELSE nonce[a]
  BY <1>0, <1>5, <1>60, SignedFacts DEF PoolInv, PoolTypeOK, CurrentInFlight
<1>7. PoolTypeOK'
  BY Zenon, <1>0, <1>2, <1>6, <1>60 DEF PoolInv, PoolTypeOK, IInv, Option
<1>8. CurrentInFlight'
  BY <1>0, <1>5, <1>6, <1>60 DEF PoolInv, CurrentInFlight, ConsensusHook
<1>9. NoncesGrowHere'
  <2>1. /\ Counted(Best) /\ Counted(here) /\ Counted(here')
        /\ extrinsics \subseteq SignedExtrinsic
    BY <1>0, <1>6, <1>7, BlocksCounted DEF PoolInv, PoolTypeOK, Counted, here
  <2>2. /\ grows(Best, here) /\ UniqueSlots(extrinsics)
        /\ \A t \in extrinsics : unused_at(t, Best) /\ used_by(t, here)
    BY DEF PoolInv, NoncesGrowHere
  <2>3. /\ grows(here, here) /\ grows(here, here')
        /\ unused_at(cur, here) /\ used_by(cur, here')
    BY <1>0, <1>6, <1>60 DEF grows, unused_at, used_by, not_after, here
  <2>4. grows(Best, here') /\ unused_at(cur, Best)
    BY Zenon, <1>60, <2>1, <2>2, <2>3, GrowthFacts
  <2>5. \A t \in extrinsics : used_by(t, here') /\ ~same_use(t, cur)
    BY Zenon, <1>60, <2>1, <2>2, <2>3, GrowthFacts
  <2> QED BY Zenon, <1>0, <1>3, <2>2, <2>3, <2>4, <2>5 DEF NoncesGrowHere
<1>10. ChargesAllowed'
  <2> SUFFICES ASSUME NEW a \in AccountId, does_nothing(a)'
               PROVE  /\ Sponsors'[a] = Best'.Sponsors[a]
                      /\ Allowed(Sponsors[a], OnHold(Best.account[a]), OnHold(account[a]),
                                 extrinsics, a)'
                      /\ current' # None /\ current'.sponsor = a =>
                            /\ Sponsors'[a] # None /\ Sponsors'[a].active
                            /\ xt'.fee <= Sponsors'[a].policy.max_fee_per_tx
    BY DEF ChargesAllowed
  <2>1. does_nothing(a)
    BY Zenon, <1>0, <1>6, <1>60 DEF does_nothing
  <2>2. /\ Sponsors[a] = Best.Sponsors[a]
        /\ Allowed(Sponsors[a], OnHold(Best.account[a]), OnHold(account[a]), extrinsics, a)
    BY <2>1 DEF PoolInv, ChargesAllowed
  <2>3. Allowed(Sponsors[a], OnHold(Best.account[a]), OnHold(account[a]), extrinsics, a)'
    BY Zenon, <1>0, <1>3, <1>5, <2>2
  <2>4. a # None
    BY SponsoredTxAssumption
  <2> QED BY <1>0, <1>3, <1>4, <1>5, <1>60, <2>2, <2>3, <2>4
<1> QED
  BY <1>2, <1>3, <1>7, <1>8, <1>9, <1>10 DEF PoolInv, ChainInv

\* The account a call is dispatched for is one.
LEMMA OriginFacts ==
    ASSUME NEW tx \in SignedExtrinsic
    PROVE  /\ origin(tx) \in AccountId
           /\ tx.call.amount \in Amount /\ tx.call.policy \in SponsorPolicy
           /\ tx.call.dest # None => tx.call.dest \in AccountId
<1>1. tx.signer \in AccountId /\ tx.call \in RuntimeCall
  BY SignedFacts
<1> QED
  BY <1>1 DEF origin, RuntimeCall, Option

\* A transfer touches nobody's holds.
LEMMA TransferKeepsHolds ==
    ASSUME IInv, NEW source \in AccountId, NEW dest \in AccountId, NEW value \in Amount,
           transfer_allow_death(source, dest, value)
    PROVE  \A a \in AccountId : OnHold(account'[a]) = OnHold(account[a])
<1> DEFINE left == Send(account[source], value)
           got  == Deposit(account[dest], value)
<1>1. /\ account \in [AccountId -> Account] /\ source # dest
      /\ account' = [account EXCEPT ![source] = left, ![dest] = got]
  BY DEF transfer_allow_death, IInv, TypeOK
<1>2. OnHold(left) = OnHold(account[source]) /\ OnHold(got) = OnHold(account[dest])
  BY <1>1, FreeOnly DEF OnHold
<1> HIDE DEF left, got
<1> QED
  BY <1>1, <1>2

\* A call is one of the dispatchables, with the arguments the extrinsic carries.
LEMMA CallDispatches ==
    ASSUME NEW tx \in SignedExtrinsic, call(tx) \/ dispatch_without_effect
    PROVE  dispatch
<1>1. CASE call(tx)
  BY Zenon, <1>1, OriginFacts DEF call, dispatch
<1>2. CASE dispatch_without_effect
  BY Zenon, <1>2 DEF dispatch
<1> QED
  BY <1>1, <1>2

\* A call changes nobody's holds and registry entry but those of its origin.
LEMMA CallFacts ==
    ASSUME IInv, NEW tx \in SignedExtrinsic, call(tx) \/ dispatch_without_effect
    PROVE  /\ IInv' /\ dispatching
           /\ \A a \in AccountId \ {origin(tx)} :
                 OnHold(account'[a]) = OnHold(account[a]) /\ Sponsors'[a] = Sponsors[a]
<1> DEFINE who == origin(tx)
           c   == tx.call
<1>0. /\ who \in AccountId /\ c.amount \in Amount /\ c.policy \in SponsorPolicy
      /\ c.dest # None => c.dest \in AccountId
  BY OriginFacts
<1>1. IInv'
  BY Zenon, CallDispatches, DispatchStep
<1>2. CASE dispatch_without_effect
  BY <1>1, <1>2 DEF dispatch_without_effect
<1>3. CASE dispatching /\ OwnChange(who)
  <2>1. \A a \in AccountId \ {who} : account'[a] = account[a] /\ Sponsors'[a] = Sponsors[a]
    BY <1>3 DEF OwnChange, IInv, TypeOK
  <2> QED BY Zenon, <1>1, <1>3, <2>1
<1>4. CASE c.dest # None /\ transfer_allow_death(who, c.dest, c.amount)
  <2>1. dispatching /\ Sponsors' = Sponsors
    BY <1>4 DEF transfer_allow_death
  <2> QED BY Zenon, <1>0, <1>1, <1>4, <2>1, TransferKeepsHolds
<1>5. CASE call(tx)
  <2>1. \/ register_sponsor(who, c.amount, c.policy)
        \/ increase_budget(who, c.amount) \/ decrease_budget(who, c.amount)
        \/ set_policy(who, c.policy) \/ pause(who) \/ resume(who) \/ unregister(who)
        \/ c.dest # None /\ transfer_allow_death(who, c.dest, c.amount)
        \/ dispatch_without_effect
    BY Zenon, <1>5 DEF call
  <2> HIDE DEF who, c
  <2>2. CASE set_policy(who, c.policy) \/ pause(who) \/ resume(who)
    BY Zenon, <1>0, <1>3, <2>2, EntryStep DEF who
  <2> QED BY Zenon, <1>0, <1>2, <1>3, <1>4, <2>1, <2>2, RegisterStep, IncreaseStep,
             DecreaseStep, UnregisterStep DEF who
<1> QED
  BY <1>2, <1>5

\* Whatever the call did, it did to its origin.  An account it kills starts a new life.
LEMMA DispatchCallStep ==
    ASSUME PoolInv, dispatch_call
    PROVE  PoolInv'
<1>0. /\ xt.phase = "prepared" /\ building' = building /\ extrinsics' = extrinsics
      /\ chain' = chain /\ final' = final
      /\ nonce' = [a \in AccountId |-> IF is_killed(a) THEN 0 ELSE nonce[a]]
      /\ deaths' = [a \in AccountId |-> IF is_killed(a) THEN deaths[a] + 1 ELSE deaths[a]]
      /\ retractions' = retractions /\ pool' = pool /\ gossip' = gossip
      /\ signatures' = signatures
      /\ call(current) \/ dispatch_without_effect
      /\ \E ok \in BOOLEAN : current' = [current EXCEPT !.ok = ok]
  BY DEF dispatch_call, is_sudo
<1>1. /\ current # None /\ current \in SignedExtrinsic /\ building
      /\ xt.signer = current.signer /\ xt.sponsor = current.sponsor /\ event = None
  BY <1>0 DEF PoolInv, CurrentInFlight, PoolTypeOK, Option
<1>3. /\ IInv' /\ dispatching
      /\ \A a \in AccountId \ {origin(current)} :
            OnHold(account'[a]) = OnHold(account[a]) /\ Sponsors'[a] = Sponsors[a]
  BY Zenon, <1>0, <1>1, CallFacts DEF PoolInv
<1>4. /\ xt'.phase = "dispatched" /\ xt'.signer = xt.signer /\ xt'.sponsor = xt.sponsor
      /\ xt'.fee = xt.fee /\ event' = event
  BY <1>3 DEF dispatching, PoolInv, IInv, TypeOK, InFlight
<1>5. /\ current' \in SignedExtrinsic /\ current' # None
      /\ current'.signer = current.signer /\ current'.sponsor = current.sponsor
      /\ current'.nonce = current.nonce /\ current'.life = current.life
      /\ current'.call = current.call
  <2>1. /\ current' \in SignedExtrinsic
        /\ current'.signer = current.signer /\ current'.sponsor = current.sponsor
        /\ current'.nonce = current.nonce /\ current'.life = current.life
        /\ current'.call = current.call
    BY <1>0, <1>1 DEF SignedExtrinsic
  <2> QED BY <2>1, SignedFacts
<1>6. ChainInv' /\ Best' = Best
  BY Zenon, <1>0, ChainUnchanged, PoolInvParts
<1>60. nonce' \in [AccountId -> Nat] /\ deaths' \in [AccountId -> Nat] /\ grows(here, here')
  BY <1>0 DEF PoolInv, PoolTypeOK, grows, not_after, here
<1>7. PoolTypeOK'
  BY <1>0, <1>1, <1>3, <1>5, <1>60 DEF PoolInv, PoolTypeOK, IInv, Option
<1>8. CurrentInFlight'
  BY Zenon, <1>0, <1>1, <1>4, <1>5 DEF PoolInv, CurrentInFlight, ConsensusHook
<1>9. NoncesGrowHere'
  <2>1. Counted(Best) /\ Counted(here) /\ Counted(here')
    BY <1>6, <1>60, BlocksCounted DEF PoolInv, Counted, here
  <2>2. /\ grows(Best, here) /\ UniqueSlots(extrinsics)
        /\ \A t \in extrinsics : unused_at(t, Best) /\ used_by(t, here)
        /\ unused_at(current, Best) /\ used_by(current, here)
        /\ \A t \in extrinsics : ~same_use(t, current)
    BY Zenon, <1>1 DEF PoolInv, NoncesGrowHere
  <2>3. /\ grows(Best, here') /\ used_by(current, here')
        /\ \A t \in extrinsics : used_by(t, here')
    BY Zenon, <1>1, <1>60, <2>1, <2>2, GrowthFacts DEF PoolInv, PoolTypeOK
  <2>4. /\ unused_at(current', Best) /\ used_by(current', here')
        /\ \A t \in extrinsics : ~same_use(t, current')
    BY Zenon, <1>5, <2>2, <2>3 DEF unused_at, used_by, same_use, same_slot
  <2> QED BY Zenon, <1>0, <1>6, <2>2, <2>3, <2>4 DEF NoncesGrowHere
<1>10. ChargesAllowed'
  <2> SUFFICES ASSUME NEW a \in AccountId, does_nothing(a)'
               PROVE  /\ Sponsors'[a] = Best'.Sponsors[a]
                      /\ Allowed(Sponsors[a], OnHold(Best.account[a]), OnHold(account[a]),
                                 extrinsics, a)'
                      /\ current' # None /\ current'.sponsor = a =>
                            /\ Sponsors'[a] # None /\ Sponsors'[a].active
                            /\ xt'.fee <= Sponsors'[a].policy.max_fee_per_tx
    BY DEF ChargesAllowed
  <2>1. does_nothing(a) /\ a # origin(current)
    BY Zenon, <1>0, <1>1, <1>5 DEF does_nothing, origin
  <2>2. OnHold(account'[a]) = OnHold(account[a]) /\ Sponsors'[a] = Sponsors[a]
    BY <1>3, <2>1
  <2>3. /\ Sponsors[a] = Best.Sponsors[a]
        /\ Allowed(Sponsors[a], OnHold(Best.account[a]), OnHold(account[a]), extrinsics, a)
        /\ current.sponsor = a =>
              /\ Sponsors[a] # None /\ Sponsors[a].active
              /\ xt.fee <= Sponsors[a].policy.max_fee_per_tx
    BY <1>1, <2>1 DEF PoolInv, ChargesAllowed
  <2>4. Allowed(Sponsors[a], OnHold(Best.account[a]), OnHold(account[a]), extrinsics, a)'
    BY Zenon, <1>0, <1>6, <2>2, <2>3
  <2> QED BY Zenon, <1>4, <1>5, <1>6, <2>2, <2>3, <2>4
<1> QED
  BY <1>3, <1>6, <1>7, <1>8, <1>9, <1>10 DEF PoolInv, ChainInv

\* Settling takes the reported fee, at most the estimate, from the holds of the sponsor and
\* nothing from anybody else's.
LEMMA SettleTakesPaid ==
    ASSUME IInv, NEW fee \in Fee, post_dispatch_details(fee), event = None,
           NEW n, n = IF event' = None THEN 0 ELSE event'.actual_fee
    PROVE  /\ n \in Nat /\ n <= xt.fee
           /\ \A a \in AccountId :
                 OnHold(account'[a]) + (IF a = xt.sponsor THEN n ELSE 0) = OnHold(account[a])
<1>0. /\ account \in [AccountId -> Account] /\ xt.fee \in Nat
      /\ \A a \in AccountId : OnHold(account[a]) \in Nat
  BY DEF IInv, TypeOK, InFlight, Account, HoldReason, OnHold
<1>1. CASE xt.sponsor # None
  <2>1. PICK m \in Nat : SettledBy(m)
    BY <1>1, SettlementFacts
  <2> DEFINE settled == restore_pending_to_budget(
                            Slash(account[xt.sponsor], "SponsorshipPending", m))
  <2> HIDE DEF settled
  <2>2. /\ m <= xt.fee /\ xt.sponsor \in AccountId /\ xt.signer \in AccountId
        /\ account' = [account EXCEPT ![xt.sponsor] = settled]
        /\ event' = [sponsor |-> xt.sponsor, signer |-> xt.signer,
                     actual_fee |-> m, tip |-> xt.tip]
        /\ OnHold(settled) + m = OnHold(account[xt.sponsor])
    BY <2>1 DEF settled, SettledBy
  <2>3. event' \in FeePaid
    BY <2>2 DEF FeePaid, IInv, TypeOK, InFlight
  <2>4. n = m
    BY <2>2, <2>3, TransactionPoolAssumption
  <2>5. \A a \in AccountId : account'[a] = IF a = xt.sponsor THEN settled ELSE account[a]
    BY <1>0, <2>2
  <2> QED BY <1>0, <2>2, <2>4, <2>5
<1>2. CASE xt.sponsor = None
  <2>1. event' = event /\ n = 0
    BY <1>2 DEF post_dispatch_details, refund_signer
  <2>2. ASSUME NEW a \in AccountId PROVE OnHold(account'[a]) = OnHold(account[a])
    <3>1. CASE account' = account
      BY <3>1
    <3>2. CASE xt.signer # None /\ account' # account
      <4> DEFINE refund == xt.fee - Lesser(fee + xt.tip, xt.fee)
      <4>1. account' = [account EXCEPT ![xt.signer] = Deposit(@, refund)]
        BY <1>2, <3>2 DEF post_dispatch_details, refund_signer
      <4> HIDE DEF refund
      <4>2. xt.signer \in AccountId
        BY <3>2 DEF IInv, TypeOK, InFlight, Option
      <4>3. OnHold(Deposit(account[xt.signer], refund)) = OnHold(account[xt.signer])
        BY <1>0, <4>2 DEF OnHold, Deposit, Account, HoldReason
      <4>4. account'[a] = IF a = xt.signer THEN Deposit(account[xt.signer], refund) ELSE account[a]
        BY <1>0, <4>1
      <4> QED BY <4>3, <4>4
    <3>3. xt.signer = None => account' = account
      BY <1>2 DEF post_dispatch_details
    <3> QED BY <3>1, <3>2, <3>3
  <2> QED BY <1>0, <1>2, <2>1, <2>2, SponsoredTxAssumption
<1> QED
  BY <1>1, <1>2

\* What settle records of an extrinsic is what it took from the sponsor, and the cap that
\* held when the extrinsic started bounds it.
LEMMA SettleStep ==
    ASSUME PoolInv, NEW fee \in Fee, settle(fee)
    PROVE  PoolInv'
<1> DEFINE n    == IF event' = None THEN 0 ELSE event'.actual_fee
           done == [current EXCEPT !.paid = n]
<1>0. /\ post_dispatch_details(fee) /\ extrinsics' = extrinsics \cup {done}
      /\ current' = None /\ building' = building
      /\ chain' = chain /\ final' = final /\ nonce' = nonce /\ deaths' = deaths
      /\ retractions' = retractions /\ pool' = pool /\ gossip' = gossip
      /\ signatures' = signatures
  BY DEF settle
<1>1. xt.phase = "dispatched" /\ xt' = Idle /\ xt'.phase = "idle" /\ Sponsors' = Sponsors
  BY <1>0 DEF post_dispatch_details, Idle
<1>2. /\ current # None /\ current \in SignedExtrinsic /\ building
      /\ xt.signer = current.signer /\ xt.sponsor = current.sponsor /\ event = None
      /\ extrinsics \in SUBSET SignedExtrinsic /\ IsFiniteSet(extrinsics)
  BY <1>1 DEF PoolInv, CurrentInFlight, PoolTypeOK, Option
<1>3. IInv'
  BY <1>0, PostDispatchStep DEF PoolInv
<1>4. /\ n \in Nat /\ n <= xt.fee
      /\ \A a \in AccountId :
            OnHold(account'[a]) + (IF a = xt.sponsor THEN n ELSE 0) = OnHold(account[a])
  BY <1>0, <1>2, SettleTakesPaid DEF PoolInv
<1> HIDE DEF n
<1>5. /\ done \in SignedExtrinsic /\ done.paid = n /\ done.signer = current.signer
      /\ done.sponsor = current.sponsor /\ done.nonce = current.nonce
      /\ done.life = current.life /\ done.call = current.call
  BY <1>2, <1>4 DEF SignedExtrinsic
<1> HIDE DEF done
<1>6. \A t \in extrinsics : ~same_use(t, done) /\ ~same_use(done, t)
  BY <1>2, <1>5 DEF PoolInv, NoncesGrowHere, same_use, same_slot
<1>7. done \notin extrinsics
  BY <1>6 DEF same_use, same_slot
<1>8. ChainInv' /\ Best' = Best
  BY <1>0, ChainUnchanged, PoolInvParts
<1>9. PoolTypeOK'
  BY <1>0, <1>2, <1>3, <1>5 DEF PoolInv, PoolTypeOK, IInv, Option
<1>10. CurrentInFlight'
  <2>1. IsFiniteSet(extrinsics')
    BY <1>0, <1>2, FS_AddElement
  <2> QED BY <1>0, <1>1, <1>2, <2>1 DEF PoolInv, CurrentInFlight, ConsensusHook
<1>11. NoncesGrowHere'
  <2>1. UniqueSlots(extrinsics)'
    BY <1>0, <1>6 DEF PoolInv, NoncesGrowHere, UniqueSlots
  <2>2. unused_at(done, Best) /\ used_by(done, here)
    BY Zenon, <1>2, <1>5 DEF PoolInv, NoncesGrowHere, unused_at, used_by
  <2> QED BY <1>0, <1>8, <2>1, <2>2 DEF PoolInv, NoncesGrowHere, here
<1>12. ChargesAllowed'
  <2> SUFFICES ASSUME NEW a \in AccountId, does_nothing(a)'
               PROVE  /\ Sponsors'[a] = Best'.Sponsors[a]
                      /\ Allowed(Sponsors[a], OnHold(Best.account[a]), OnHold(account[a]),
                                 extrinsics, a)'
    BY <1>0 DEF ChargesAllowed
  <2>1. does_nothing(a)
    BY <1>0, <1>5 DEF does_nothing, origin
  <2>2. /\ Sponsors[a] = Best.Sponsors[a]
        /\ Allowed(Sponsors[a], OnHold(Best.account[a]), OnHold(account[a]), extrinsics, a)
        /\ current.sponsor = a =>
              /\ Sponsors[a] # None /\ Sponsors[a].active
              /\ xt.fee <= Sponsors[a].policy.max_fee_per_tx
    BY <1>2, <2>1 DEF PoolInv, ChargesAllowed
  <2>3. spent(a, extrinsics') = spent(a, extrinsics) + (IF done.sponsor = a THEN done.paid ELSE 0)
        /\ spent(a, extrinsics) \in Nat
    BY <1>0, <1>2, <1>5, <1>7, SpentFacts
  <2>4. OnHold(account'[a]) \in Nat
    BY <1>3 DEF IInv, TypeOK, Account, HoldReason, OnHold
  <2>5. OnHold(account'[a]) + spent(a, extrinsics') = OnHold(Best.account[a])
    BY <1>2, <1>4, <1>5, <2>2, <2>3, <2>4 DEF Allowed
  <2>6. current.sponsor = a => n <= Sponsors[a].policy.max_fee_per_tx
    <3> SUFFICES ASSUME current.sponsor = a PROVE n <= Sponsors[a].policy.max_fee_per_tx
      OBVIOUS
    <3>1. Sponsors[a] \in SponsorState
      BY <2>2 DEF PoolInv, IInv, TypeOK, Option
    <3>2. Sponsors[a].policy.max_fee_per_tx \in Nat /\ xt.fee \in Nat
      BY <3>1, SponsoredTxAssumption DEF SponsorState, PoolInv, IInv, TypeOK, InFlight
    <3> QED BY <1>4, <2>2, <3>2
  <2>7. Allowed(Sponsors[a], OnHold(Best.account[a]), OnHold(account'[a]), extrinsics', a)
    BY <1>0, <1>5, <2>2, <2>5, <2>6 DEF Allowed
  <2> QED BY Zenon, <1>1, <1>8, <2>2, <2>7
<1> QED
  BY <1>3, <1>8, <1>9, <1>10, <1>11, <1>12 DEF PoolInv, ChainInv

-----------------------------------------------------------------------------
(* The invariant is inductive. *)

\* At genesis the chain is one empty block.
LEMMA PoolInitInv == PoolInit => PoolInv
<1> SUFFICES ASSUME PoolInit PROVE PoolInv
  OBVIOUS
<1> DEFINE b == [account |-> account, Sponsors |-> Sponsors,
                 nonce |-> nonce, deaths |-> deaths, body |-> {}]
<1>0. /\ Init /\ nonce = [a \in AccountId |-> 0] /\ deaths = [a \in AccountId |-> 0]
      /\ building = FALSE /\ extrinsics = {}
      /\ current = None /\ chain = <<b>> /\ final = {} /\ pool = {} /\ gossip = {}
      /\ retractions = 0 /\ signatures = 0
  BY DEF PoolInit
<1>1. IInv /\ xt.phase = "idle"
  BY <1>0, InitIInv DEF Init, Idle
<1>2. /\ b \in Block /\ b.account = account /\ b.Sponsors = Sponsors /\ b.nonce = nonce
      /\ b.deaths = deaths /\ b.body = {}
      /\ nonce \in [AccountId -> Nat] /\ deaths \in [AccountId -> Nat]
  BY <1>0, <1>1 DEF IInv, TypeOK, Block
<1> HIDE DEF b
<1>3. /\ chain \in Seq(Block) /\ Len(chain) = 1 /\ DOMAIN chain = {1} /\ chain[1] = b
      /\ Best = b
  BY <1>0, <1>2 DEF Best
<1>4. PoolTypeOK
  <2>1. Len(chain) \in 1 .. UNINCLUDED_SEGMENT_CAPACITY + 1
    BY <1>3, TransactionPoolAssumption
  <2>2. building \in BOOLEAN /\ extrinsics \subseteq SignedExtrinsic
        /\ current \in Option(SignedExtrinsic)
        /\ final \subseteq SignedExtrinsic /\ pool \subseteq SignedExtrinsic
        /\ gossip \subseteq SignedExtrinsic /\ signatures \in Nat /\ retractions \in Nat
    BY Zenon, <1>0 DEF Option
  <2>3. /\ account = Best.account /\ Sponsors = Best.Sponsors
        /\ nonce = Best.nonce /\ deaths = Best.deaths
    BY <1>2, <1>3
  <2> QED BY <1>1, <1>2, <1>3, <2>1, <2>2, <2>3 DEF PoolTypeOK, IInv
<1>5. HereInv
  BY Zenon, <1>0, <1>1, <1>4, FreshBlock DEF Fresh
<1>6. BlocksSettled
  BY <1>1, <1>2, <1>3, IdleIsSettled, FS_EmptySet DEF BlocksSettled
<1>7. NoncesGrow
  <2>1. grows(b, b)
    BY <1>2, <1>4, BlocksCounted
  <2> QED BY <1>0, <1>2, <1>3, <2>1 DEF NoncesGrow, applied, UniqueSlots
<1>8. BlockRespectsSponsor
  BY <1>3 DEF BlockRespectsSponsor
<1> QED
  BY <1>1, <1>4, <1>5, <1>6, <1>7, <1>8 DEF PoolInv, HereInv

\* The node's own steps, with or without users.
LEMMA NodeStep ==
    ASSUME PoolInv,
           \/ \E tx \in pool : revalidate(tx)
           \/ maintain \/ Include \/ Produce \/ finalize \/ Reorganise
    PROVE  PoolInv'
<1>0. pool \subseteq SignedExtrinsic /\ gossip \subseteq SignedExtrinsic /\ signatures \in Nat
  BY DEF PoolInv, PoolTypeOK
<1>1. CASE \E tx \in pool : revalidate(tx)
  BY <1>0, <1>1, PoolStep DEF revalidate
<1>2. CASE maintain
  BY <1>0, <1>2, PoolStep DEF maintain
<1>3. CASE Include
  BY <1>0, <1>3, ApplyExtrinsicStep DEF Include
<1>4. CASE Produce
  BY <1>4, InitializeBlockStep, DispatchCallStep, SettleStep, FinalizeBlockStep DEF Produce
<1>5. CASE finalize
  BY <1>5, FinalizeStep
<1>6. CASE Reorganise
  BY <1>6, RetractStep DEF Reorganise
<1> QED
  BY <1>1, <1>2, <1>3, <1>4, <1>5, <1>6

\* Every step of the pool, the author and the fork choice keeps the invariant.
LEMMA PoolNextInv == PoolInv /\ [PoolNext]_poolVars => PoolInv'
<1> SUFFICES ASSUME PoolInv, [PoolNext]_poolVars PROVE PoolInv'
  OBVIOUS
<1>0. pool \subseteq SignedExtrinsic /\ gossip \subseteq SignedExtrinsic /\ signatures \in Nat
  BY DEF PoolInv, PoolTypeOK
<1>1. ASSUME NEW offer \in Offers, NEW ahead \in {0, 1}, sign_and_submit(offer, ahead)
      PROVE  PoolInv'
  <2> DEFINE tx == signed(offer, Best.nonce[offer.signer] + ahead, signatures + 1)
  <2>1. /\ offer.signer \in AccountId /\ offer.sponsor \in Option(AccountId)
        /\ offer.tip \in Tip /\ offer.mortal \in BOOLEAN /\ offer.call \in RuntimeCall
    BY TransactionPoolAssumption
  <2>2. Best.nonce[offer.signer] + ahead \in Nat /\ signatures + 1 \in Nat
    BY <1>0, <2>1, BestFacts, BlockFacts DEF PoolInv
  <2>3. tx \in SignedExtrinsic
    BY <2>1, <2>2 DEF signed, SignedExtrinsic
  <2>4. submit(tx) /\ signatures' = signatures + 1 /\ gossip' \subseteq gossip \cup {tx}
    BY <1>1 DEF sign_and_submit
  <2> HIDE DEF tx
  <2> QED BY <1>0, <2>2, <2>3, <2>4, PoolStep DEF submit
<1>4. ASSUME NEW tx \in gossip, resubmit(tx)
      PROVE  PoolInv'
  <2>1. submit(tx) /\ gossip' = gossip /\ signatures' = signatures
    BY <1>4 DEF resubmit
  <2> QED BY <1>0, <2>1, PoolStep DEF submit
<1>2. CASE \/ \E tx \in pool : revalidate(tx)
           \/ maintain \/ Include \/ Produce \/ finalize \/ Reorganise
  BY <1>2, NodeStep
<1>3. CASE UNCHANGED poolVars
  BY <1>0, <1>3, PoolStep DEF poolVars
<1> QED
  BY <1>1, <1>2, <1>3, <1>4 DEF PoolNext

\* The inductive invariant of the pool and the chain.
THEOREM PoolInvariance == PoolSpec => []PoolInv
BY PoolInitInv, PoolNextInv, PTL DEF PoolSpec

\* The chain, the pool and the block being built keep their types, the unincluded segment
\* its capacity, and a block starts from the state of the best one.
THEOREM PoolTypeCorrect == PoolSpec => []PoolTypeOK
<1>1. PoolInv => PoolTypeOK
  BY DEF PoolInv
<1> QED
  BY <1>1, PoolInvariance, PTL

\* No signature is used twice on the best chain while its signer's account lives, however often
\* its block is retracted or the network delivers it again: CheckNonce ties it to one block.
\* Only an account that was reaped in between, and starts at nonce 0 again, lets it be used
\* once more.
THEOREM NoSecondInclusion == PoolSpec => []IncludedOnce
<1>1. PoolInv => IncludedOnce
  <2> SUFFICES ASSUME PoolInv, NEW i \in DOMAIN chain, NEW j \in DOMAIN chain,
                      NEW t \in applied(i), NEW u \in applied(j), same_use(t, u)
               PROVE  i = j /\ t = u
    BY DEF IncludedOnce
  <2>0. /\ DOMAIN chain = 1 .. Len(chain) /\ Len(chain) \in Nat
        /\ \A n \in DOMAIN chain : Counted(chain[n])
        /\ \A n \in DOMAIN chain : applied(n) \subseteq SignedExtrinsic
    BY BestFacts, BlockFacts, BlocksCounted DEF PoolInv, PoolTypeOK, applied
  <2>1. \A m, n \in DOMAIN chain : \A x \in applied(m), y \in applied(n) :
           m < n => ~same_use(x, y) /\ ~same_use(y, x)
    <3> SUFFICES ASSUME NEW m \in DOMAIN chain, NEW n \in DOMAIN chain,
                        NEW x \in applied(m), NEW y \in applied(n), m < n
                 PROVE  ~same_use(x, y) /\ ~same_use(y, x)
      OBVIOUS
    <3>1. n \in 2 .. Len(chain) /\ n - 1 \in DOMAIN chain /\ m <= n - 1
          /\ applied(n) = chain[n].body
      BY <2>0 DEF applied
    <3>2. used_by(x, chain[m]) /\ grows(chain[m], chain[n - 1]) /\ unused_at(y, chain[n - 1])
      BY <3>1 DEF PoolInv, NoncesGrow
    <3> QED BY Zenon, <2>0, <3>1, <3>2, GrowthFacts
  <2>2. i = j
    <3>1. ~(i < j) /\ ~(j < i)
      BY Zenon, <2>1
    <3> QED BY <2>0, <3>1
  <2>3. UniqueSlots(applied(i))
    BY DEF PoolInv, NoncesGrow
  <2> QED BY <2>2, <2>3 DEF UniqueSlots
<1> QED
  BY <1>1, PoolInvariance, PTL

\* Unless blocks are retracted, whatever the node does is a step of the pallet or leaves its
\* storage and the extrinsic in flight alone.
LEMMA NodeRunsPallet ==
    ASSUME PoolInv, [PoolNext]_poolVars
    PROVE  \/ \E x \in Extrinsic : validate_and_prepare(x)
           \/ dispatch
           \/ \E fee \in Fee : post_dispatch_details(fee)
           \/ account' = account /\ Sponsors' = Sponsors /\ xt' = xt
           \/ Reorganise
<1>1. CASE Include
  <2>1. PICK tx \in pool, fee \in Fee : apply_extrinsic(tx, fee)
    BY <1>1 DEF Include
  <2>2. tx \in SignedExtrinsic
    BY DEF PoolInv, PoolTypeOK
  <2> QED BY <2>1, <2>2, ChargedFacts DEF apply_extrinsic
<1>2. CASE dispatch_call
  <2>1. xt.phase = "prepared" /\ (call(current) \/ dispatch_without_effect)
    BY <1>2 DEF dispatch_call
  <2>2. current \in SignedExtrinsic
    BY <2>1 DEF PoolInv, CurrentInFlight, PoolTypeOK, Option
  <2> QED BY Zenon, <2>1, <2>2, CallDispatches
<1>3. CASE \E fee \in Fee : settle(fee)
  BY <1>3 DEF settle
<1>4. CASE initialize_block \/ finalize_block \/ finalize \/ maintain \/ UNCHANGED poolVars
  BY <1>4 DEF initialize_block, finalize_block, finalize, maintain, poolVars, vars
<1>5. CASE \/ \E offer \in Offers, ahead \in {0, 1} : sign_and_submit(offer, ahead)
           \/ \E tx \in gossip : resubmit(tx)
           \/ \E tx \in pool : revalidate(tx)
  BY <1>5 DEF sign_and_submit, resubmit, submit, revalidate, vars
<1> QED BY Zenon, <1>1, <1>2, <1>3, <1>4, <1>5 DEF PoolNext, Produce

\* A sponsored extrinsic is paid for exactly, also when it comes from the pool and its block
\* is one of several that compete: retracting a block is neither a start nor a settlement.
THEOREM BlocksPayExactly == PoolSpec => SponsorPaysExactly
<1>1. PoolInv /\ [PoolNext]_poolVars => [PaysExactly]_vars
  <2> SUFFICES ASSUME PoolInv, [PoolNext]_poolVars PROVE PaysExactly
    OBVIOUS
  <2>0. IInv
    BY DEF PoolInv
  <2>1. CASE \E x \in Extrinsic : validate_and_prepare(x)
    BY <2>0, <2>1, StartPaysExactly
  <2>2. CASE dispatch
    <3>1. xt.phase = "prepared"
      BY <2>2 DEF dispatch, dispatching, register_sponsor, increase_budget, decrease_budget,
                  transfer_allow_death, set_policy, pause, resume, unregister,
                  dispatch_without_effect
    <3> QED BY <3>1 DEF PaysExactly, starts_sponsored, settles_sponsored
  <2>3. CASE \E fee \in Fee : post_dispatch_details(fee)
    BY <2>0, <2>3, SettlePaysExactly
  <2>4. CASE xt' = xt
    BY <2>4 DEF PaysExactly, starts_sponsored, settles_sponsored
  <2>5. CASE Reorganise
    <3>1. xt' = xt
      BY <2>5 DEF Reorganise, retract
    <3> QED BY <2>4, <3>1
  <2> QED BY Zenon, <2>1, <2>2, <2>3, <2>4, <2>5, NodeRunsPallet
<1> QED BY <1>1, PoolInvariance, PTL DEF PoolSpec, SponsorPaysExactly

\* Short of a reorganisation, every step of the node is a step of the promise to a sponsor.
LEMMA NodeKeepsEscrow ==
    ASSUME PoolInv, PoolInv', [PoolNext]_poolVars, retractions' = retractions
    PROVE  UNCHANGED Escrow!escrowVars \/ Escrow!EscrowNext
<1>0. IInv /\ IInv'
  BY DEF PoolInv
<1>1. CASE \E x \in Extrinsic : validate_and_prepare(x)
  BY <1>0, <1>1, PrepareRefines
<1>2. CASE dispatch
  BY <1>0, <1>2, DispatchRefines
<1>3. CASE \E fee \in Fee : post_dispatch_details(fee)
  BY <1>0, <1>3, PostDispatchRefines
<1>4. CASE account' = account /\ Sponsors' = Sponsors
  BY <1>4 DEF Escrow!escrowVars, pending_on_hold, offered, is_registered
<1>5. ~Reorganise
  BY DEF Reorganise, retract, PoolInv, PoolTypeOK
<1> QED BY Zenon, <1>1, <1>2, <1>3, <1>4, <1>5, NodeRunsPallet

\* The promise to a sponsor is kept in every block the node builds, for any pool and any
\* number of reorganisations.
THEOREM BlocksHonourEscrow == PoolSpec => BlocksKeepEscrow
<1>1. PoolInv /\ PoolInv' /\ [PoolNext]_poolVars =>
         [retractions' = retractions =>
            UNCHANGED Escrow!escrowVars \/ Escrow!EscrowNext]_<<account, Sponsors>>
  BY NodeKeepsEscrow
<1> QED BY <1>1, PoolInvariance, PTL DEF PoolSpec, BlocksKeepEscrow

\* However long an extrinsic has waited in the pool and whatever was retracted since, a
\* block charges a sponsor only as its parent state allows: apply_extrinsic validates again
\* what validate_transaction accepted, and settle reports what it takes.
THEOREM BlocksRespectSponsors == PoolSpec => []BlockRespectsSponsor
<1>1. PoolInv => BlockRespectsSponsor
  BY DEF PoolInv
<1> QED
  BY <1>1, PoolInvariance, PTL

\* What holds of the pallet extrinsic by extrinsic survives reorganisations: the state
\* goes back to that of another block and the pending hold still is the estimate in flight,
\* and nobody outside the registry has funds on hold.
THEOREM ReorganisationsKeepHolds == PoolSpec => [](PendingIsReservation /\ UnregisteredHoldsNothing)
<1>1. PoolInv => PendingIsReservation /\ UnregisteredHoldsNothing
  BY DEF PoolInv, IInv
<1> QED
  BY <1>1, PoolInvariance, PTL
=============================================================================
