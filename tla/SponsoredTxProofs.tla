------------------------- MODULE SponsoredTxProofs -------------------------
(* Proofs about SponsoredTx, for any set of accounts, any endowment and any *)
(* amounts, fees, tips and policies.                                        *)
EXTENDS SponsoredTx, TLAPS

\* Initially nothing is on hold, so everything the invariant says is immediate.
LEMMA InitIInv == Init => IInv
<1> USE EDAssumption, SponsoredTxAssumption
<1> SUFFICES ASSUME Init PROVE IInv
  OBVIOUS
<1>1. TypeOK
  BY DEF Init, TypeOK, Endowed, Account, HoldReason, Idle, InFlight, Option
<1>2. NoDust
  BY DEF Init, NoDust, IsLive, OnHold, Endowed, HoldReason
<1>3. FlightOK
  BY DEF Init, FlightOK, Idle
<1>4. PendingIsReservation
  BY DEF Init, PendingIsReservation, pending_on_hold, sponsored_by, Idle, Endowed, HoldReason
<1>5. UnregisteredHoldsNothing
  BY DEF Init, UnregisteredHoldsNothing, OnHold, Endowed, HoldReason
<1> QED
  BY <1>1, <1>2, <1>3, <1>4, <1>5 DEF IInv

-----------------------------------------------------------------------------
(* What the operations do to one account. *)

\* A hold moves n units from the free balance to the reason and leaves the account
\* live.
LEMMA HoldFacts ==
    ASSUME NEW acc \in Account, NEW reason \in HoldReason, NEW n \in Nat, CanHold(acc, n)
    PROVE  /\ Hold(acc, reason, n) \in Account
           /\ Hold(acc, reason, n)["free"] = acc["free"] - n
           /\ Hold(acc, reason, n)[reason] = acc[reason] + n
           /\ \A r \in HoldReason \ {reason} : Hold(acc, reason, n)[r] = acc[r]
           /\ IsLive(Hold(acc, reason, n))
BY EDAssumption DEF Hold, CanHold, Account, HoldReason, IsLive

\* A release moves n units from the reason to the free balance of a sound account.
LEMMA ReleaseFacts ==
    ASSUME NEW acc \in Account, NEW reason \in HoldReason, NEW n \in Nat,
           CanRelease(acc, reason, n)
    PROVE  /\ Release(acc, reason, n) \in Account
           /\ Release(acc, reason, n)["free"] = acc["free"] + n
           /\ Release(acc, reason, n)[reason] = acc[reason] - n
           /\ \A r \in HoldReason \ {reason} : Release(acc, reason, n)[r] = acc[r]
BY EDAssumption DEF Release, CanRelease, Account, HoldReason

\* A slash takes from its reason alone, and what it takes is at most n.
LEMMA SlashFacts ==
    ASSUME NEW acc \in Account, NEW reason \in HoldReason, NEW n \in Nat
    PROVE  /\ Slashed(acc, reason, n) \in 0..n
           /\ Slashed(acc, reason, n) <= acc[reason]
           /\ Slash(acc, reason, n) \in Account
           /\ Slash(acc, reason, n)["free"] = acc["free"]
           /\ Slash(acc, reason, n)[reason] = acc[reason] - Slashed(acc, reason, n)
           /\ \A r \in HoldReason \ {reason} : Slash(acc, reason, n)[r] = acc[r]
BY DEF Slash, Slashed, Lesser, Account, HoldReason

\* move_budget_to_pending, where it succeeds, changes the two holds and nothing else.
LEMMA MoveFacts ==
    ASSUME NEW acc \in Account, NEW n \in Nat, can_move_budget_to_pending(acc, n)
    PROVE  LET moved == move_budget_to_pending(acc, n)
           IN  /\ moved \in Account
               /\ moved["free"] = acc["free"]
               /\ moved["SponsorshipBudget"] = acc["SponsorshipBudget"] - n
               /\ moved["SponsorshipPending"] = acc["SponsorshipPending"] + n
               /\ IsLive(moved)
<1> DEFINE rel == Release(acc, "SponsorshipBudget", n)
<1>1. CanRelease(acc, "SponsorshipBudget", n) /\ CanHold(rel, n)
  BY DEF can_move_budget_to_pending
<1>2. /\ rel \in Account
      /\ rel["free"] = acc["free"] + n
      /\ rel["SponsorshipBudget"] = acc["SponsorshipBudget"] - n
      /\ rel["SponsorshipPending"] = acc["SponsorshipPending"]
  BY <1>1, ReleaseFacts DEF HoldReason
<1>3. /\ Hold(rel, "SponsorshipPending", n) \in Account
      /\ Hold(rel, "SponsorshipPending", n)["free"] = rel["free"] - n
      /\ Hold(rel, "SponsorshipPending", n)["SponsorshipPending"] = rel["SponsorshipPending"] + n
      /\ Hold(rel, "SponsorshipPending", n)["SponsorshipBudget"] = rel["SponsorshipBudget"]
      /\ IsLive(Hold(rel, "SponsorshipPending", n))
  <2> HIDE DEF rel
  <2> QED BY <1>1, <1>2, HoldFacts DEF HoldReason
<1>4. acc["free"] \in Nat /\ rel["free"] - n = acc["free"]
  BY <1>2 DEF Account
<1> QED
  BY <1>2, <1>3, <1>4 DEF move_budget_to_pending

\* On a sound account neither half of restore_pending_to_budget can fail: everything
\* pending becomes budget and the free balance is what it was.
LEMMA RestoreFacts ==
    ASSUME NEW acc \in Account, Sound(acc)
    PROVE  LET restored == restore_pending_to_budget(acc)
           IN  /\ restored \in Account
               /\ restored["free"] = acc["free"]
               /\ restored["SponsorshipBudget"]
                      = acc["SponsorshipBudget"] + acc["SponsorshipPending"]
               /\ restored["SponsorshipPending"] = 0
<1> DEFINE pend == acc["SponsorshipPending"]
           rel  == Release(acc, "SponsorshipPending", pend)
<1>0. /\ pend \in Nat /\ acc["SponsorshipBudget"] \in Nat /\ acc["free"] \in Nat
      /\ ED \in Nat \ {0}
  BY EDAssumption DEF Account, HoldReason
<1>1. CASE pend = 0
  BY <1>0, <1>1 DEF restore_pending_to_budget
<1>2. CASE pend # 0
  <2>1. IsLive(acc)
    BY <1>0, <1>2 DEF Sound, OnHold
  <2>2. CanRelease(acc, "SponsorshipPending", pend)
    BY <1>0, <2>1 DEF CanRelease, IsLive
  <2>3. /\ rel \in Account
        /\ rel["free"] = acc["free"] + pend
        /\ rel["SponsorshipPending"] = 0
        /\ rel["SponsorshipBudget"] = acc["SponsorshipBudget"]
    <3>1. /\ rel["SponsorshipPending"] = pend - pend
          /\ rel \in Account
          /\ rel["free"] = acc["free"] + pend
          /\ rel["SponsorshipBudget"] = acc["SponsorshipBudget"]
      BY <1>0, <2>2, ReleaseFacts DEF HoldReason
    <3> QED BY <3>1, <1>0
  <2>4. CanHold(rel, pend)
    <3> HIDE DEF rel
    <3> QED BY <1>0, <2>1, <2>3 DEF CanHold, IsLive
  <2>5. /\ Hold(rel, "SponsorshipBudget", pend) \in Account
        /\ Hold(rel, "SponsorshipBudget", pend)["free"] = rel["free"] - pend
        /\ Hold(rel, "SponsorshipBudget", pend)["SponsorshipBudget"] = rel["SponsorshipBudget"] + pend
        /\ Hold(rel, "SponsorshipBudget", pend)["SponsorshipPending"] = rel["SponsorshipPending"]
    <3> HIDE DEF rel, pend
    <3> QED BY <1>0, <2>3, <2>4, HoldFacts DEF HoldReason
  <2>6. restore_pending_to_budget(acc) = Hold(rel, "SponsorshipBudget", pend)
    BY <1>2, <2>2, <2>4 DEF restore_pending_to_budget
  <2>7. rel["free"] - pend = acc["free"]
    BY <1>0, <2>3
  <2> HIDE DEF rel
  <2> QED BY <2>3, <2>5, <2>6, <2>7
<1> QED
  BY <1>1, <1>2

-----------------------------------------------------------------------------
(* The inductive step, action by action. *)

\* A step of the dispatched call keeps what the invariant says of the extrinsic.
LEMMA DispatchingFacts ==
    ASSUME IInv, dispatching
    PROVE  /\ xt' \in InFlight
           /\ event' \in Option(FeePaid)
           /\ FlightOK'
           /\ \A a \in AccountId : sponsored_by(a)' <=> sponsored_by(a)
           /\ xt'.fee = xt.fee
<1>1. xt \in InFlight /\ xt.phase = "prepared" /\ xt' = [xt EXCEPT !.phase = "dispatched"]
  BY DEF IInv, TypeOK, dispatching
<1>2. /\ xt'.phase = "dispatched" /\ xt'.signer = xt.signer /\ xt'.sponsor = xt.sponsor
      /\ xt'.fee = xt.fee /\ xt'.tip = xt.tip
      /\ xt' \in InFlight
  BY <1>1 DEF InFlight
<1>3. event' \in Option(FeePaid)
  BY DEF IInv, TypeOK, dispatching
<1>4. FlightOK'
  BY <1>2 DEF IInv, FlightOK
<1>5. \A a \in AccountId : sponsored_by(a)' <=> sponsored_by(a)
  BY <1>1, <1>2 DEF sponsored_by
<1> QED
  BY <1>2, <1>3, <1>4, <1>5

\* A call of who's changes who's account and registry entry alone.  It leaves a sound
\* account, does not touch the pending hold, moves funds only between the free balance
\* and the budget, and drops the entry only when nothing is on hold.
OwnChange(who) ==
    \E acc \in Account, st \in Option(SponsorState) :
        /\ account' = [account EXCEPT ![who] = acc]
        /\ Sponsors' = [Sponsors EXCEPT ![who] = st]
        /\ Sound(acc)
        /\ acc["SponsorshipPending"] = account[who]["SponsorshipPending"]
        /\ acc["free"] + OnHold(acc) = account[who]["free"] + OnHold(account[who])
        /\ st = None => OnHold(acc) = 0

\* Such a call keeps the invariant.
LEMMA OwnChangeStep ==
    ASSUME IInv, dispatching, NEW who \in AccountId, OwnChange(who)
    PROVE  IInv'
<1>0. account \in [AccountId -> Account] /\ Sponsors \in [AccountId -> Option(SponsorState)]
  BY DEF IInv, TypeOK
<1>1. PICK acc \in Account, st \in Option(SponsorState) :
         /\ account' = [account EXCEPT ![who] = acc]
         /\ Sponsors' = [Sponsors EXCEPT ![who] = st]
         /\ Sound(acc)
         /\ acc["SponsorshipPending"] = account[who]["SponsorshipPending"]
         /\ st = None => OnHold(acc) = 0
  BY Zenon DEF OwnChange
<1>2. \A a \in AccountId :
         /\ account'[a] = IF a = who THEN acc ELSE account[a]
         /\ Sponsors'[a] = IF a = who THEN st ELSE Sponsors[a]
  BY <1>0, <1>1
<1>3. TypeOK'
  BY <1>0, <1>1, DispatchingFacts DEF TypeOK
<1>4. NoDust'
  BY <1>1, <1>2 DEF IInv, NoDust, Sound
<1>5. PendingIsReservation'
  BY <1>1, <1>2, DispatchingFacts DEF IInv, PendingIsReservation, pending_on_hold
<1>6. UnregisteredHoldsNothing'
  BY <1>1, <1>2 DEF IInv, UnregisteredHoldsNothing, is_registered
<1> QED
  BY <1>3, <1>4, <1>5, <1>6, DispatchingFacts DEF IInv

\* A hold on the budget keeps the total and the pending hold.
LEMMA HoldSound ==
    ASSUME NEW acc \in Account, NEW n \in Nat, CanHold(acc, n)
    PROVE  LET held == Hold(acc, "SponsorshipBudget", n)
           IN  /\ held \in Account /\ Sound(held)
               /\ held["SponsorshipPending"] = acc["SponsorshipPending"]
               /\ held["free"] + OnHold(held) = acc["free"] + OnHold(acc)
<1> DEFINE held == Hold(acc, "SponsorshipBudget", n)
<1>1. /\ held \in Account /\ IsLive(held)
      /\ held["free"] = acc["free"] - n
      /\ held["SponsorshipBudget"] = acc["SponsorshipBudget"] + n
      /\ held["SponsorshipPending"] = acc["SponsorshipPending"]
  BY HoldFacts DEF HoldReason
<1>2. /\ acc["free"] \in Nat /\ acc["SponsorshipBudget"] \in Nat
      /\ acc["SponsorshipPending"] \in Nat
  BY DEF Account, HoldReason
<1> HIDE DEF held
<1>3. held["free"] + OnHold(held) = acc["free"] + OnHold(acc)
  BY <1>1, <1>2 DEF OnHold
<1> QED
  BY <1>1, <1>3 DEF Sound, held

\* A release from the budget of a sound account leaves a sound account, and keeps the
\* total and the pending hold.
LEMMA ReleaseSound ==
    ASSUME NEW acc \in Account, NEW n \in Nat, Sound(acc),
           CanRelease(acc, "SponsorshipBudget", n)
    PROVE  LET rel == Release(acc, "SponsorshipBudget", n)
           IN  /\ rel \in Account /\ Sound(rel)
               /\ rel["SponsorshipPending"] = acc["SponsorshipPending"]
               /\ OnHold(rel) = OnHold(acc) - n
               /\ rel["free"] + OnHold(rel) = acc["free"] + OnHold(acc)
<1> DEFINE rel == Release(acc, "SponsorshipBudget", n)
<1>1. /\ rel \in Account
      /\ rel["free"] = acc["free"] + n
      /\ rel["SponsorshipBudget"] = acc["SponsorshipBudget"] - n
      /\ rel["SponsorshipPending"] = acc["SponsorshipPending"]
  BY ReleaseFacts DEF HoldReason
<1>2. /\ acc["free"] \in Nat /\ acc["SponsorshipBudget"] \in Nat
      /\ acc["SponsorshipPending"] \in Nat /\ ED \in Nat \ {0}
  BY EDAssumption DEF Account, HoldReason
<1> HIDE DEF rel
<1>3. /\ OnHold(rel) = OnHold(acc) - n
      /\ rel["free"] + OnHold(rel) = acc["free"] + OnHold(acc)
  BY <1>1, <1>2 DEF OnHold
<1>4. Sound(rel)
  BY <1>1, <1>2, <1>3 DEF Sound, IsLive, CanRelease, OnHold
<1> QED
  BY <1>1, <1>3, <1>4 DEF rel

\* register_sponsor holds the budget of an account that had nothing on hold.
LEMMA RegisterStep ==
    ASSUME IInv, NEW who \in AccountId, NEW amount \in Amount, NEW policy \in SponsorPolicy,
           register_sponsor(who, amount, policy)
    PROVE  dispatching /\ OwnChange(who)
<1> DEFINE acc == Hold(account[who], "SponsorshipBudget", amount)
           st  == [active |-> TRUE, policy |-> policy]
<1>1. account[who] \in Account /\ amount \in Nat
  BY SponsoredTxAssumption DEF IInv, TypeOK
<1>2. /\ acc \in Account /\ Sound(acc)
      /\ acc["SponsorshipPending"] = account[who]["SponsorshipPending"]
      /\ acc["free"] + OnHold(acc) = account[who]["free"] + OnHold(account[who])
  BY <1>1, HoldSound DEF register_sponsor
<1>3. st \in Option(SponsorState) /\ st # None
  <2>1. st \in SponsorState
    BY DEF SponsorState
  <2>2. None \notin SponsorState
    BY SponsoredTxAssumption DEF SponsorState
  <2> HIDE DEF st
  <2> QED BY <2>1, <2>2 DEF Option
<1>4. /\ dispatching
      /\ account' = [account EXCEPT ![who] = acc]
      /\ Sponsors' = [Sponsors EXCEPT ![who] = st]
  BY DEF register_sponsor
<1> HIDE DEF acc, st
<1> QED
  BY <1>2, <1>3, <1>4, Zenon DEF OwnChange

\* increase_budget holds more of a registered account.
LEMMA IncreaseStep ==
    ASSUME IInv, NEW who \in AccountId, NEW amount \in Amount, increase_budget(who, amount)
    PROVE  dispatching /\ OwnChange(who)
<1> DEFINE acc == Hold(account[who], "SponsorshipBudget", amount)
<1>1. account[who] \in Account /\ amount \in Nat
  BY SponsoredTxAssumption DEF IInv, TypeOK
<1>2. /\ acc \in Account /\ Sound(acc)
      /\ acc["SponsorshipPending"] = account[who]["SponsorshipPending"]
      /\ acc["free"] + OnHold(acc) = account[who]["free"] + OnHold(account[who])
  BY <1>1, HoldSound DEF increase_budget
<1>3. Sponsors[who] \in Option(SponsorState) /\ Sponsors[who] # None
  BY DEF IInv, TypeOK, increase_budget, is_registered
<1>4. /\ dispatching
      /\ account' = [account EXCEPT ![who] = acc]
      /\ Sponsors' = [Sponsors EXCEPT ![who] = Sponsors[who]]
  BY DEF increase_budget, IInv, TypeOK
<1> HIDE DEF acc
<1> QED
  BY <1>2, <1>3, <1>4, Zenon DEF OwnChange

\* decrease_budget releases part of the budget hold.
LEMMA DecreaseStep ==
    ASSUME IInv, NEW who \in AccountId, NEW amount \in Amount, decrease_budget(who, amount)
    PROVE  dispatching /\ OwnChange(who)
<1> DEFINE acc == Release(account[who], "SponsorshipBudget", amount)
<1>1. account[who] \in Account /\ amount \in Nat /\ Sound(account[who])
  BY SponsoredTxAssumption DEF IInv, TypeOK, NoDust, Sound
<1>2. /\ acc \in Account /\ Sound(acc)
      /\ acc["SponsorshipPending"] = account[who]["SponsorshipPending"]
      /\ acc["free"] + OnHold(acc) = account[who]["free"] + OnHold(account[who])
  BY <1>1, ReleaseSound DEF decrease_budget
<1>3. Sponsors[who] \in Option(SponsorState) /\ Sponsors[who] # None
  BY DEF IInv, TypeOK, decrease_budget, is_registered
<1>4. /\ dispatching
      /\ account' = [account EXCEPT ![who] = acc]
      /\ Sponsors' = [Sponsors EXCEPT ![who] = Sponsors[who]]
  BY DEF decrease_budget, IInv, TypeOK
<1> HIDE DEF acc
<1> QED
  BY <1>2, <1>3, <1>4, Zenon DEF OwnChange

\* unregister releases everything: the pending hold is empty, so nothing stays on
\* hold when the registry entry goes.
LEMMA UnregisterStep ==
    ASSUME IInv, NEW who \in AccountId, unregister(who)
    PROVE  dispatching /\ OwnChange(who)
<1> DEFINE n   == budget_on_hold(who)
           acc == Release(account[who], "SponsorshipBudget", n)
<1>1. account[who] \in Account /\ n \in Nat /\ Sound(account[who])
  BY DEF IInv, TypeOK, NoDust, Sound, budget_on_hold, Account, HoldReason
<1>2. CanRelease(account[who], "SponsorshipBudget", n) /\ pending_on_hold(who) = 0
  BY DEF unregister, can_unregister
<1>3. /\ acc \in Account /\ Sound(acc)
      /\ acc["SponsorshipPending"] = account[who]["SponsorshipPending"]
      /\ OnHold(acc) = OnHold(account[who]) - n
      /\ acc["free"] + OnHold(acc) = account[who]["free"] + OnHold(account[who])
  <2> HIDE DEF n
  <2> QED BY <1>1, <1>2, ReleaseSound
<1>4. OnHold(acc) = 0
  BY <1>1, <1>2, <1>3 DEF OnHold, budget_on_hold, pending_on_hold
<1>5. /\ dispatching
      /\ account' = [account EXCEPT ![who] = acc]
      /\ Sponsors' = [Sponsors EXCEPT ![who] = None]
  BY DEF unregister
<1> HIDE DEF acc
<1> QED
  BY <1>3, <1>4, <1>5, Zenon DEF OwnChange, Option

\* set_policy, pause and resume rewrite an entry of the registry and move no funds.
LEMMA EntryStep ==
    ASSUME IInv, NEW who \in AccountId,
           \/ \E policy \in SponsorPolicy : set_policy(who, policy)
           \/ pause(who)
           \/ resume(who)
    PROVE  dispatching /\ OwnChange(who)
<1>1. account[who] \in Account /\ Sound(account[who])
  BY DEF IInv, TypeOK, NoDust, Sound
<1>2. Sponsors[who] \in SponsorState
  BY DEF IInv, TypeOK, Option, set_policy, pause, resume, is_registered
<1>3. PICK st \in SponsorState : Sponsors' = [Sponsors EXCEPT ![who] = st]
  <2>1. CASE \E policy \in SponsorPolicy : set_policy(who, policy)
    <3>1. PICK policy \in SponsorPolicy : set_policy(who, policy)
      BY <2>1
    <3>2. [Sponsors[who] EXCEPT !.policy = policy] \in SponsorState
      BY <1>2 DEF SponsorState
    <3> QED BY <3>1, <3>2, Zenon DEF set_policy
  <2>2. CASE pause(who)
    <3>1. [Sponsors[who] EXCEPT !.active = FALSE] \in SponsorState
      BY <1>2, Zenon DEF SponsorState
    <3> QED BY <2>2, <3>1, Zenon DEF pause
  <2>3. CASE resume(who)
    <3>1. [Sponsors[who] EXCEPT !.active = TRUE] \in SponsorState
      BY <1>2, Zenon DEF SponsorState
    <3> QED BY <2>3, <3>1, Zenon DEF resume
  <2> QED BY <2>1, <2>2, <2>3
<1>4. dispatching /\ account' = account
  BY DEF set_policy, pause, resume
<1>5. account' = [account EXCEPT ![who] = account[who]]
  BY <1>4 DEF IInv, TypeOK
<1>6. st # None /\ st \in Option(SponsorState)
  BY SponsoredTxAssumption DEF Option, SponsorState
<1> QED
  BY <1>1, <1>3, <1>4, <1>5, <1>6, Zenon DEF OwnChange

\* A transfer cannot kill an account with holds, burns the dust of one it does kill,
\* and cannot create one below ED.
LEMMA TransferStep ==
    ASSUME IInv, NEW source \in AccountId, NEW dest \in AccountId, NEW value \in Amount,
           transfer_allow_death(source, dest, value)
    PROVE  IInv'
<1> DEFINE sent == Send(account[source], value)
           got  == Deposit(account[dest], value)
<1>0. /\ account \in [AccountId -> Account] /\ value \in Nat
      /\ Sound(account[source]) /\ Sound(account[dest])
      /\ dispatching /\ source # dest
      /\ CanSend(account[source], value) /\ CanReceive(account[dest], value)
      /\ Sponsors' = Sponsors
  BY SponsoredTxAssumption DEF IInv, TypeOK, NoDust, Sound, transfer_allow_death
<1>1. \A a \in AccountId :
         account'[a] = IF a = source THEN sent ELSE IF a = dest THEN got ELSE account[a]
  BY <1>0 DEF transfer_allow_death
<1>2. /\ sent \in Account /\ Sound(sent)
      /\ sent["SponsorshipBudget"] = account[source]["SponsorshipBudget"]
      /\ sent["SponsorshipPending"] = account[source]["SponsorshipPending"]
  <2>1. /\ account[source]["free"] \in Nat /\ ED \in Nat \ {0}
        /\ account[source]["SponsorshipBudget"] \in Nat
        /\ account[source]["SponsorshipPending"] \in Nat
    BY <1>0, EDAssumption DEF Account, HoldReason
  <2>2. /\ sent["SponsorshipBudget"] = account[source]["SponsorshipBudget"]
        /\ sent["SponsorshipPending"] = account[source]["SponsorshipPending"]
        /\ sent["free"] = IF account[source]["free"] - value >= ED
                          THEN account[source]["free"] - value ELSE 0
        /\ sent \in Account
    BY <1>0, <2>1 DEF Send, CanSend, Account, HoldReason
  <2> HIDE DEF sent
  <2>3. Sound(sent)
    BY <1>0, <2>1, <2>2 DEF Sound, IsLive, OnHold, CanSend
  <2> QED BY <2>2, <2>3
<1>3. /\ got \in Account /\ Sound(got)
      /\ got["SponsorshipBudget"] = account[dest]["SponsorshipBudget"]
      /\ got["SponsorshipPending"] = account[dest]["SponsorshipPending"]
  <2>1. /\ got["SponsorshipBudget"] = account[dest]["SponsorshipBudget"]
        /\ got["SponsorshipPending"] = account[dest]["SponsorshipPending"]
        /\ got["free"] = account[dest]["free"] + value
        /\ got \in Account /\ account[dest]["free"] \in Nat /\ ED \in Nat \ {0}
    BY <1>0, EDAssumption DEF Deposit, Account, HoldReason
  <2> HIDE DEF got
  <2>2. Sound(got)
    BY <1>0, <2>1 DEF Sound, IsLive, OnHold, CanReceive
  <2> QED BY <2>1, <2>2
<1> HIDE DEF sent, got
<1>4. TypeOK'
  <2>1. account' \in [AccountId -> Account]
    BY <1>0, <1>1, <1>2, <1>3 DEF transfer_allow_death
  <2> QED BY <1>0, <2>1, DispatchingFacts DEF IInv, TypeOK
<1>5. NoDust'
  BY <1>1, <1>2, <1>3 DEF IInv, NoDust, Sound
<1>6. \A a \in AccountId :
         /\ account'[a]["SponsorshipBudget"] = account[a]["SponsorshipBudget"]
         /\ account'[a]["SponsorshipPending"] = account[a]["SponsorshipPending"]
  BY <1>1, <1>2, <1>3
<1>7. PendingIsReservation'
  BY <1>0, <1>6, DispatchingFacts DEF IInv, PendingIsReservation, pending_on_hold
<1>8. UnregisteredHoldsNothing'
  BY <1>0, <1>6 DEF IInv, UnregisteredHoldsNothing, is_registered, OnHold
<1> QED
  BY <1>0, <1>4, <1>5, <1>7, <1>8, DispatchingFacts DEF IInv

\* A dispatched call changes one account and its entry, is a transfer, or has no effect.
LEMMA DispatchCases ==
    ASSUME IInv, dispatch
    PROVE  \/ \E who \in AccountId : dispatching /\ OwnChange(who)
           \/ \E who \in AccountId, dest \in AccountId, value \in Amount :
                 transfer_allow_death(who, dest, value)
           \/ dispatch_without_effect
BY RegisterStep, IncreaseStep, DecreaseStep, EntryStep, UnregisterStep DEF dispatch

\* Every dispatched call keeps the invariant.
LEMMA DispatchStep == IInv /\ dispatch => IInv'
<1> SUFFICES ASSUME IInv, dispatch PROVE IInv'
  OBVIOUS
<1>1. CASE dispatch_without_effect
  <2>1. dispatching /\ account' = account /\ Sponsors' = Sponsors
    BY <1>1 DEF dispatch_without_effect
  <2>2. TypeOK' /\ NoDust' /\ UnregisteredHoldsNothing'
    BY <2>1, DispatchingFacts
       DEF IInv, TypeOK, NoDust, UnregisteredHoldsNothing, is_registered
  <2>3. PendingIsReservation'
    BY <2>1, DispatchingFacts DEF IInv, PendingIsReservation, pending_on_hold
  <2> QED BY <2>1, <2>2, <2>3, DispatchingFacts DEF IInv
<1>2. CASE \E who \in AccountId, dest \in AccountId, value \in Amount :
              transfer_allow_death(who, dest, value)
  BY <1>2, TransferStep
<1>3. CASE \E who \in AccountId : dispatching /\ OwnChange(who)
  BY <1>3, OwnChangeStep
<1> QED
  BY <1>1, <1>2, <1>3, DispatchCases

\* What an extrinsic brings has the types the actions expect, and its tip is part of
\* its fee.
LEMMA ExtrinsicFacts ==
    ASSUME NEW x \in Extrinsic
    PROVE  /\ x.signer \in Option(AccountId) /\ x.sponsor \in Option(AccountId)
           /\ x.fee \in Nat /\ x.tip \in Nat
           /\ fee_with_tip(x) \in Nat /\ x.tip <= fee_with_tip(x)
<1>1. x.signer \in Option(AccountId) /\ x.sponsor \in Option(AccountId)
  BY DEF Extrinsic
<1>2. x.fee \in Nat /\ x.tip \in Nat
  BY SponsoredTxAssumption, Zenon DEF Extrinsic
<1> QED
  BY <1>1, <1>2 DEF fee_with_tip

\* prepare of an unsponsored extrinsic takes the fee from the signer's free balance
\* and leaves the signer live; every pending hold stays empty.
LEMMA UnsponsoredPrepareStep ==
    ASSUME IInv, NEW x \in Extrinsic, validate_and_prepare(x), x.sponsor = None
    PROVE  IInv'
<1> DEFINE f == fee_with_tip(x)
<1>0. /\ account \in [AccountId -> Account] /\ xt.phase = "idle" /\ Sponsors' = Sponsors
      /\ event' = None /\ f \in Nat /\ x.tip \in Nat /\ x.tip <= f
      /\ \A a \in AccountId : pending_on_hold(a) = 0
  BY ExtrinsicFacts
     DEF IInv, TypeOK, validate_and_prepare, PendingIsReservation, sponsored_by
<1>1. CASE x.signer = None
  <2>1. account' = account /\ xt' = [Idle EXCEPT !.phase = "prepared"]
    BY <1>1 DEF validate_and_prepare, prepare
  <2>2. /\ xt'.phase = "prepared" /\ xt'.signer = None /\ xt'.sponsor = None
        /\ xt'.fee = 0 /\ xt'.tip = 0 /\ xt' \in InFlight
    BY <2>1 DEF Idle, InFlight, Option
  <2>3. TypeOK' /\ NoDust' /\ UnregisteredHoldsNothing'
    BY <1>0, <2>1, <2>2
       DEF IInv, TypeOK, NoDust, UnregisteredHoldsNothing, is_registered, Option
  <2>4. PendingIsReservation'
    BY <1>0, <2>1, <2>2, SponsoredTxAssumption
       DEF PendingIsReservation, pending_on_hold, sponsored_by
  <2>5. FlightOK'
    BY <2>2 DEF FlightOK
  <2> QED BY <2>3, <2>4, <2>5 DEF IInv
<1>2. CASE x.signer # None
  <2> DEFINE paid == Withdraw(account[x.signer], f)
  <2>1. x.signer \in AccountId
    BY <1>2, ExtrinsicFacts DEF Option
  <2>2. /\ account' = [account EXCEPT ![x.signer] = paid]
        /\ xt' = [phase |-> "prepared", signer |-> x.signer, sponsor |-> None,
                  fee |-> f, tip |-> x.tip]
        /\ CanWithdraw(account[x.signer], f)
        /\ IsLive(account[x.signer])
    BY <1>2 DEF validate_and_prepare, validate, base_validate, CheckNonce, prepare
  <2>3. /\ xt'.phase = "prepared" /\ xt'.signer = x.signer /\ xt'.sponsor = None
        /\ xt'.fee = f /\ xt'.tip = x.tip /\ xt' \in InFlight
    <3> HIDE DEF f
    <3> QED BY <1>0, <2>1, <2>2 DEF InFlight, Option
  <2>4. /\ paid \in Account /\ IsLive(paid)
        /\ paid["SponsorshipBudget"] = account[x.signer]["SponsorshipBudget"]
        /\ paid["SponsorshipPending"] = account[x.signer]["SponsorshipPending"]
    <3> HIDE DEF f
    <3> QED BY <1>0, <2>1, <2>2, EDAssumption
            DEF Withdraw, CanWithdraw, IsLive, Account, HoldReason
  <2> HIDE DEF paid, f
  <2>5. \A a \in AccountId :
           /\ account'[a] = IF a = x.signer THEN paid ELSE account[a]
           /\ account'[a]["SponsorshipBudget"] = account[a]["SponsorshipBudget"]
           /\ account'[a]["SponsorshipPending"] = account[a]["SponsorshipPending"]
    BY <1>0, <2>1, <2>2, <2>4
  <2>6. TypeOK'
    BY <1>0, <2>2, <2>3, <2>4, Zenon DEF IInv, TypeOK, Option
  <2>7. NoDust'
    BY <2>4, <2>5 DEF IInv, NoDust
  <2>8. UnregisteredHoldsNothing'
    BY <1>0, <2>5 DEF IInv, UnregisteredHoldsNothing, is_registered, OnHold
  <2>9. PendingIsReservation'
    BY <1>0, <2>3, <2>5, SponsoredTxAssumption
       DEF PendingIsReservation, pending_on_hold, sponsored_by
  <2>10. FlightOK'
    BY <1>0, <2>3 DEF FlightOK
  <2> QED BY <2>6, <2>7, <2>8, <2>9, <2>10 DEF IInv
<1> QED
  BY <1>1, <1>2

\* prepare of a sponsored extrinsic fills the empty pending hold of its sponsor.
LEMMA SponsoredPrepareStep ==
    ASSUME IInv, NEW x \in Extrinsic, validate_and_prepare(x), x.sponsor # None
    PROVE  IInv'
<1> DEFINE f     == fee_with_tip(x)
           moved == move_budget_to_pending(account[x.sponsor], f)
<1>0. /\ account \in [AccountId -> Account] /\ xt.phase = "idle" /\ Sponsors' = Sponsors
      /\ event' = None /\ f \in Nat /\ x.tip \in Nat /\ x.tip <= f
      /\ \A a \in AccountId : pending_on_hold(a) = 0
  BY ExtrinsicFacts
     DEF IInv, TypeOK, validate_and_prepare, PendingIsReservation, sponsored_by
<1>1. x.sponsor \in AccountId /\ x.signer # None /\ x.signer \in Option(AccountId)
      /\ Sponsors[x.sponsor] # None
  BY ExtrinsicFacts
     DEF validate_and_prepare, validate, sponsored_validate, Option, is_registered
<1>2. /\ account' = [account EXCEPT ![x.sponsor] = moved]
      /\ xt' = [phase |-> "prepared", signer |-> x.signer, sponsor |-> x.sponsor,
                fee |-> f, tip |-> x.tip]
      /\ can_move_budget_to_pending(account[x.sponsor], f)
  BY DEF validate_and_prepare, prepare
<1>3. /\ xt'.phase = "prepared" /\ xt'.signer = x.signer /\ xt'.sponsor = x.sponsor
      /\ xt'.fee = f /\ xt'.tip = x.tip /\ xt' \in InFlight
  <2> HIDE DEF f
  <2> QED BY <1>0, <1>1, <1>2 DEF InFlight, Option
<1>4. /\ moved \in Account /\ IsLive(moved)
      /\ moved["SponsorshipPending"] = account[x.sponsor]["SponsorshipPending"] + f
  <2> HIDE DEF f
  <2> QED BY <1>0, <1>1, <1>2, MoveFacts
<1> HIDE DEF moved, f
<1>5. \A a \in AccountId : account'[a] = IF a = x.sponsor THEN moved ELSE account[a]
  BY <1>0, <1>2
<1>6. TypeOK'
  BY <1>0, <1>2, <1>3, <1>4, Zenon DEF IInv, TypeOK, Option
<1>7. NoDust'
  BY <1>4, <1>5 DEF IInv, NoDust
<1>8. UnregisteredHoldsNothing'
  BY <1>0, <1>1, <1>5 DEF IInv, UnregisteredHoldsNothing, is_registered
<1>9. PendingIsReservation'
  BY <1>0, <1>1, <1>3, <1>4, <1>5 DEF PendingIsReservation, pending_on_hold, sponsored_by
<1>10. FlightOK'
  BY <1>0, <1>1, <1>3 DEF FlightOK
<1> QED
  BY <1>6, <1>7, <1>8, <1>9, <1>10 DEF IInv

\* settle_sponsored_fee on an account with the reservation: the slash takes the
\* clamped fee, no less, and the rest of the reservation is budget again.
LEMMA SettleFacts ==
    ASSUME NEW acc \in Account, Sound(acc), NEW n \in Nat, n <= acc["SponsorshipPending"]
    PROVE  LET settled == restore_pending_to_budget(Slash(acc, "SponsorshipPending", n))
           IN  /\ Slashed(acc, "SponsorshipPending", n) = n
               /\ settled \in Account
               /\ Sound(settled)
               /\ settled["free"] = acc["free"]
               /\ settled["SponsorshipPending"] = 0
               /\ OnHold(settled) + n = OnHold(acc)
<1> DEFINE cut     == Slash(acc, "SponsorshipPending", n)
           settled == restore_pending_to_budget(cut)
<1>0. /\ acc["free"] \in Nat /\ acc["SponsorshipBudget"] \in Nat
      /\ acc["SponsorshipPending"] \in Nat /\ ED \in Nat \ {0}
  BY EDAssumption DEF Account, HoldReason
<1>1. Slashed(acc, "SponsorshipPending", n) = n
  BY <1>0 DEF Slashed, Lesser
<1>2. /\ cut \in Account /\ cut["free"] = acc["free"]
      /\ cut["SponsorshipPending"] = acc["SponsorshipPending"] - n
      /\ cut["SponsorshipBudget"] = acc["SponsorshipBudget"]
  <2>1. "SponsorshipPending" \in HoldReason /\ "SponsorshipBudget" \in HoldReason \ {"SponsorshipPending"}
    BY DEF HoldReason
  <2>2. /\ cut \in Account /\ cut["free"] = acc["free"]
        /\ cut["SponsorshipPending"]
               = acc["SponsorshipPending"] - Slashed(acc, "SponsorshipPending", n)
        /\ \A r \in HoldReason \ {"SponsorshipPending"} : cut[r] = acc[r]
    BY <2>1, SlashFacts
  <2> QED BY <1>1, <2>1, <2>2
<1> HIDE DEF cut
<1>3. Sound(cut)
  BY <1>0, <1>2 DEF Sound, IsLive, OnHold
<1>4. /\ settled \in Account /\ settled["free"] = cut["free"]
      /\ settled["SponsorshipBudget"] = cut["SponsorshipBudget"] + cut["SponsorshipPending"]
      /\ settled["SponsorshipPending"] = 0
  BY <1>2, <1>3, RestoreFacts
<1> HIDE DEF settled
<1>5. Sound(settled) /\ OnHold(settled) + n = OnHold(acc)
  BY <1>0, <1>2, <1>4 DEF Sound, IsLive, OnHold
<1> QED
  BY <1>1, <1>2, <1>4, <1>5 DEF settled, cut

\* The settlement of the extrinsic in flight charges n and gives the rest back.
SettledBy(n) ==
    LET settled == restore_pending_to_budget(
                       Slash(account[xt.sponsor], "SponsorshipPending", n))
    IN  /\ n <= xt.fee /\ xt.tip <= n
        /\ xt.sponsor \in AccountId /\ xt.signer \in AccountId
        /\ xt.fee = account[xt.sponsor]["SponsorshipPending"]
        /\ account' = [account EXCEPT ![xt.sponsor] = settled]
        /\ event' = [sponsor |-> xt.sponsor, signer |-> xt.signer,
                     actual_fee |-> n, tip |-> xt.tip]
        /\ settled \in Account
        /\ Sound(settled)
        /\ settled["free"] = account[xt.sponsor]["free"]
        /\ settled["SponsorshipPending"] = 0
        /\ OnHold(settled) + n = OnHold(account[xt.sponsor])

\* The settlement of a sponsored extrinsic: the lemma above, in the running system.
LEMMA SettlementFacts ==
    ASSUME IInv, NEW fee \in Fee, post_dispatch_details(fee), xt.sponsor # None
    PROVE  \E n \in Nat : SettledBy(n)
<1> DEFINE acc == account[xt.sponsor]
           n   == Lesser(fee + xt.tip, xt.fee)
<1>1. xt \in InFlight /\ xt.phase = "dispatched" /\ xt.tip <= xt.fee /\ xt.signer # None
  BY DEF IInv, TypeOK, FlightOK, post_dispatch_details
<1>2. /\ xt.sponsor \in AccountId /\ xt.signer \in AccountId
      /\ xt.fee \in Nat /\ xt.tip \in Nat /\ fee \in Nat
  BY <1>1, SponsoredTxAssumption DEF InFlight, Option
<1>3. acc \in Account /\ Sound(acc) /\ acc["SponsorshipPending"] = xt.fee
  BY <1>1, <1>2
     DEF IInv, TypeOK, NoDust, Sound, PendingIsReservation, pending_on_hold, sponsored_by
<1>4. n \in Nat /\ n <= xt.fee /\ xt.tip <= n /\ Lesser(xt.tip, n) = xt.tip
  BY <1>1, <1>2 DEF Lesser
<1>5. settle_sponsored_fee(fee + xt.tip)
  BY DEF post_dispatch_details
<1> HIDE DEF n
<1>6. LET settled == restore_pending_to_budget(Slash(acc, "SponsorshipPending", n))
      IN  /\ Slashed(acc, "SponsorshipPending", n) = n
          /\ settled \in Account
          /\ Sound(settled)
          /\ settled["free"] = acc["free"]
          /\ settled["SponsorshipPending"] = 0
          /\ OnHold(settled) + n = OnHold(acc)
  BY <1>3, <1>4, SettleFacts
<1>7. /\ account' = [account EXCEPT ![xt.sponsor] =
                        restore_pending_to_budget(Slash(acc, "SponsorshipPending", n))]
      /\ event' = [sponsor |-> xt.sponsor, signer |-> xt.signer,
                   actual_fee |-> n, tip |-> xt.tip]
  BY <1>4, <1>5, <1>6 DEF settle_sponsored_fee, n
<1> QED
  BY <1>2, <1>3, <1>4, <1>6, <1>7, Zenon DEF SettledBy

\* Both payments end with every pending hold empty and every account sound.
LEMMA PostDispatchStep ==
    ASSUME IInv, NEW fee \in Fee, post_dispatch_details(fee)
    PROVE  IInv'
<1>0. /\ account \in [AccountId -> Account] /\ Sponsors' = Sponsors /\ xt' = Idle
      /\ xt \in InFlight /\ xt.phase = "dispatched"
  BY DEF IInv, TypeOK, post_dispatch_details
<1>1. /\ xt' \in InFlight /\ FlightOK'
      /\ \A a \in AccountId : ~sponsored_by(a)'
  BY <1>0 DEF Idle, InFlight, Option, FlightOK, sponsored_by
<1>2. CASE xt.sponsor # None
  <2>1. PICK n \in Nat : SettledBy(n)
    BY <1>2, SettlementFacts
  <2> DEFINE settled == restore_pending_to_budget(
                            Slash(account[xt.sponsor], "SponsorshipPending", n))
  <2> HIDE DEF settled
  <2>2. /\ xt.sponsor \in AccountId
        /\ account' = [account EXCEPT ![xt.sponsor] = settled]
        /\ settled \in Account /\ Sound(settled) /\ settled["SponsorshipPending"] = 0
        /\ OnHold(settled) + n = OnHold(account[xt.sponsor])
    BY <2>1 DEF settled, SettledBy
  <2>3. event' \in FeePaid
    <3>1. xt.tip \in Nat
      BY <1>0 DEF InFlight
    <3> QED BY <2>1, <3>1 DEF FeePaid, SettledBy
  <2>4. \A a \in AccountId : account'[a] = IF a = xt.sponsor THEN settled ELSE account[a]
    BY <1>0, <2>2
  <2>5. TypeOK'
    BY <1>0, <1>1, <2>2, <2>3 DEF IInv, TypeOK, Option
  <2>6. NoDust'
    BY <2>2, <2>4 DEF IInv, NoDust, Sound
  <2>7. PendingIsReservation'
    BY <1>0, <1>1, <2>2, <2>4
       DEF IInv, PendingIsReservation, pending_on_hold, sponsored_by
  <2>8. UnregisteredHoldsNothing'
    <3>1. settled["SponsorshipBudget"] \in Nat /\ settled["SponsorshipPending"] \in Nat
      BY <2>2 DEF Account, HoldReason
    <3>2. OnHold(account[xt.sponsor]) = 0 => OnHold(settled) = 0
      BY <2>2, <3>1 DEF OnHold
    <3> QED BY <1>0, <2>2, <2>4, <3>2 DEF IInv, UnregisteredHoldsNothing, is_registered
  <2> QED BY <1>1, <2>5, <2>6, <2>7, <2>8 DEF IInv
<1>3. CASE xt.sponsor = None
  <2>0. \A a \in AccountId : pending_on_hold(a) = 0
    BY <1>3, SponsoredTxAssumption DEF IInv, PendingIsReservation, sponsored_by
  <2>1. /\ event' = event
        /\ account' \in [AccountId -> Account]
        /\ \A a \in AccountId :
              /\ account'[a]["SponsorshipBudget"] = account[a]["SponsorshipBudget"]
              /\ account'[a]["SponsorshipPending"] = account[a]["SponsorshipPending"]
              /\ Sound(account'[a])
    <3>1. CASE xt.signer = None
      BY <1>0, <1>3, <3>1 DEF post_dispatch_details, IInv, NoDust, Sound
    <3>2. CASE xt.signer # None
      <4> DEFINE acc    == account[xt.signer]
                 refund == xt.fee - Lesser(fee + xt.tip, xt.fee)
      <4>1. xt.signer \in AccountId /\ xt.fee \in Nat /\ xt.tip \in Nat /\ fee \in Nat
        BY <1>0, <3>2, SponsoredTxAssumption DEF InFlight, Option
      <4>2. refund \in Nat
        BY <4>1 DEF Lesser
      <4>3. refund_signer(fee + xt.tip)
        BY <1>3, <3>2 DEF post_dispatch_details
      <4>4. \A a \in AccountId : Sound(account[a])
        BY DEF IInv, NoDust, Sound
      <4> HIDE DEF refund
      <4>5. CASE OnHold(acc) + acc["free"] > 0
        <5> DEFINE got == Deposit(acc, refund)
        <5>1. /\ got \in Account /\ got["free"] = acc["free"] + refund
              /\ got["SponsorshipBudget"] = acc["SponsorshipBudget"]
              /\ got["SponsorshipPending"] = acc["SponsorshipPending"]
              /\ acc["free"] \in Nat /\ ED \in Nat \ {0}
          BY <1>0, <4>1, <4>2, EDAssumption DEF Deposit, Account, HoldReason
        <5>2. IsLive(acc)
          BY <4>1, <4>4, <4>5, <5>1 DEF Sound
        <5>3. account' = [account EXCEPT ![xt.signer] = got] /\ event' = event
          BY <4>3, <4>5 DEF refund_signer, refund
        <5> HIDE DEF got
        <5>4. Sound(got)
          BY <4>2, <5>1, <5>2 DEF Sound, IsLive
        <5> QED BY <1>0, <4>1, <4>4, <5>1, <5>3, <5>4
      <4>6. CASE ~(OnHold(acc) + acc["free"] > 0)
        BY <1>0, <4>3, <4>4, <4>6 DEF refund_signer
      <4> QED BY <4>5, <4>6
    <3> QED BY <3>1, <3>2
  <2>2. TypeOK'
    BY <1>0, <1>1, <2>1 DEF IInv, TypeOK
  <2>3. NoDust'
    BY <2>1 DEF NoDust, Sound
  <2>4. PendingIsReservation'
    BY <1>1, <2>0, <2>1 DEF PendingIsReservation, pending_on_hold
  <2>5. UnregisteredHoldsNothing'
    BY <1>0, <2>1 DEF IInv, UnregisteredHoldsNothing, is_registered, OnHold
  <2> QED BY <1>1, <2>2, <2>3, <2>4, <2>5 DEF IInv
<1> QED
  BY <1>2, <1>3

-----------------------------------------------------------------------------
\* The invariant is inductive.
LEMMA NextIInv == IInv /\ [Next]_vars => IInv'
<1> SUFFICES ASSUME IInv, [Next]_vars PROVE IInv'
  OBVIOUS
<1>1. CASE \E x \in Extrinsic : validate_and_prepare(x)
  BY <1>1, UnsponsoredPrepareStep, SponsoredPrepareStep
<1>2. CASE dispatch
  BY <1>2, DispatchStep
<1>3. CASE \E fee \in Fee : post_dispatch_details(fee)
  BY <1>3, PostDispatchStep
<1>4. CASE UNCHANGED vars
  BY <1>4 DEF vars, IInv, TypeOK, NoDust, FlightOK, PendingIsReservation,
              UnregisteredHoldsNothing, pending_on_hold, sponsored_by, is_registered
<1> QED
  BY <1>1, <1>2, <1>3, <1>4 DEF Next

\* The inductive invariant holds in every reachable state, whatever accounts, amounts
\* and policies there are.
THEOREM Invariance == Spec => []IInv
BY InitIInv, NextIInv, PTL DEF Spec

\* Storage and SponsoredPre keep their types.
THEOREM TypeCorrect == Spec => []TypeOK
<1>1. IInv => TypeOK
  BY DEF IInv
<1> QED
  BY <1>1, Invariance, PTL

\* A sponsor's pending hold is the estimate of the extrinsic in flight and nothing
\* else: what settle_sponsored_fee slashes and restore_pending_to_budget gives back
\* is this extrinsic's money.
THEOREM PendingIsolated == Spec => []PendingIsReservation
<1>1. IInv => PendingIsReservation
  BY DEF IInv
<1> QED
  BY <1>1, Invariance, PTL

\* unregister never leaves funds on hold behind.
THEOREM NothingOrphaned == Spec => []UnregisteredHoldsNothing
<1>1. IInv => UnregisteredHoldsNothing
  BY DEF IInv
<1> QED
  BY <1>1, Invariance, PTL

\* A sponsored extrinsic with a fee that validate accepts is one prepare accepts: the
\* budget hold keeps the sponsor's account live, so both halves of
\* move_budget_to_pending succeed.
THEOREM PrepareSucceeds == Spec => []ValidatedIsPreparable
<1>1. IInv => ValidatedIsPreparable
  <2> SUFFICES ASSUME IInv, NEW x \in Extrinsic,
                      x.sponsor # None, validate(x), fee_with_tip(x) > 0
               PROVE  can_move_budget_to_pending(account[x.sponsor], fee_with_tip(x))
    BY DEF ValidatedIsPreparable
  <2> DEFINE f   == fee_with_tip(x)
             acc == account[x.sponsor]
             rel == Release(acc, "SponsorshipBudget", f)
  <2>1. x.sponsor \in AccountId /\ f \in Nat /\ f > 0
    BY ExtrinsicFacts DEF Option
  <2>2. acc \in Account /\ Sound(acc) /\ acc["SponsorshipBudget"] >= f
    BY <2>1 DEF IInv, TypeOK, NoDust, Sound, validate, sponsored_validate, budget_on_hold
  <2> HIDE DEF f, acc
  <2>3. /\ acc["free"] \in Nat /\ acc["SponsorshipBudget"] \in Nat
        /\ acc["SponsorshipPending"] \in Nat /\ ED \in Nat \ {0}
    BY <2>2, EDAssumption DEF Account, HoldReason
  <2>4. acc["free"] >= ED
    BY <2>1, <2>2, <2>3 DEF Sound, IsLive, OnHold
  <2>5. CanRelease(acc, "SponsorshipBudget", f)
    BY <2>1, <2>2, <2>3, <2>4 DEF CanRelease
  <2>6. rel["free"] = acc["free"] + f
    BY <2>1, <2>2, <2>5, ReleaseFacts DEF HoldReason
  <2>7. CanHold(rel, f)
    <3> HIDE DEF rel
    <3> QED BY <2>1, <2>3, <2>4, <2>6 DEF CanHold
  <2> QED BY <2>5, <2>7 DEF can_move_budget_to_pending, f, acc
<1> QED
  BY <1>1, Invariance, PTL

\* Between extrinsics every sponsor can unregister and gets everything back.
THEOREM ExitPossible == Spec => []ExitAlwaysPossible
<1>1. IInv => ExitAlwaysPossible
  <2> SUFFICES ASSUME IInv, xt.phase = "idle", NEW a \in AccountId, is_registered(a)
               PROVE  can_unregister(a) /\ budget_on_hold(a) = OnHold(account[a])
    BY DEF ExitAlwaysPossible
  <2>1. /\ pending_on_hold(a) = 0
        /\ account[a] \in Account /\ Sound(account[a])
    BY DEF IInv, TypeOK, NoDust, Sound, PendingIsReservation, sponsored_by
  <2>2. /\ account[a]["free"] \in Nat /\ account[a]["SponsorshipBudget"] \in Nat
        /\ ED \in Nat \ {0}
    BY <2>1, EDAssumption DEF Account, HoldReason
  <2>3. CanRelease(account[a], "SponsorshipBudget", account[a]["SponsorshipBudget"])
    BY <2>1, <2>2 DEF Sound, IsLive, OnHold, pending_on_hold, CanRelease
  <2> QED
    BY <2>1, <2>2, <2>3 DEF can_unregister, budget_on_hold, pending_on_hold, OnHold
<1> QED
  BY <1>1, Invariance, PTL

-----------------------------------------------------------------------------
(* The payment of one sponsored extrinsic. *)

\* Only validate_and_prepare starts a sponsored extrinsic, and it moves the fee from
\* one hold of the sponsor to the other.
LEMMA StartPaysExactly ==
    ASSUME IInv, NEW x \in Extrinsic, validate_and_prepare(x)
    PROVE  PaysExactly
<1>1. xt.phase = "idle" /\ ~settles_sponsored
  BY DEF validate_and_prepare, settles_sponsored
<1>2. CASE x.sponsor = None
  <2>1. xt'.sponsor = None
    <3>1. CASE x.signer = None
      BY <1>2, <3>1 DEF validate_and_prepare, prepare, Idle
    <3>2. CASE x.signer # None
      BY <1>2, <3>2 DEF validate_and_prepare, prepare
    <3> QED BY <3>1, <3>2
  <2> QED BY <1>1, <2>1 DEF PaysExactly, starts_sponsored
<1>3. CASE x.sponsor # None
  <2> DEFINE f     == fee_with_tip(x)
             acc   == account[x.sponsor]
             moved == move_budget_to_pending(acc, f)
  <2>1. /\ x.sponsor \in AccountId /\ f \in Nat
        /\ account \in [AccountId -> Account] /\ acc \in Account
    BY <1>3, ExtrinsicFacts DEF Option, IInv, TypeOK
  <2>2. /\ account' = [account EXCEPT ![x.sponsor] = moved]
        /\ xt'.sponsor = x.sponsor
        /\ can_move_budget_to_pending(acc, f)
    BY <1>3 DEF validate_and_prepare, prepare
  <2> HIDE DEF f, acc
  <2>3. /\ moved["free"] = acc["free"]
        /\ moved["SponsorshipBudget"] = acc["SponsorshipBudget"] - f
        /\ moved["SponsorshipPending"] = acc["SponsorshipPending"] + f
    BY <2>1, <2>2, MoveFacts
  <2>4. acc["SponsorshipBudget"] \in Nat /\ acc["SponsorshipPending"] \in Nat
    BY <2>1 DEF Account, HoldReason
  <2> HIDE DEF moved
  <2>5. OnHold(moved) = OnHold(acc)
    BY <2>1, <2>3, <2>4 DEF OnHold
  <2> QED BY <1>1, <2>1, <2>2, <2>3, <2>5 DEF PaysExactly, acc
<1> QED
  BY <1>2, <1>3

\* Only post_dispatch_details settles one, and the event tells what it took.
LEMMA SettlePaysExactly ==
    ASSUME IInv, NEW fee \in Fee, post_dispatch_details(fee)
    PROVE  PaysExactly
<1>1. ~starts_sponsored
  BY DEF post_dispatch_details, starts_sponsored
<1>2. CASE xt.sponsor = None
  BY <1>1, <1>2 DEF PaysExactly, settles_sponsored
<1>3. CASE xt.sponsor # None
  <2>1. PICK n \in Nat : SettledBy(n)
    BY <1>3, SettlementFacts
  <2> DEFINE settled == restore_pending_to_budget(
                            Slash(account[xt.sponsor], "SponsorshipPending", n))
  <2> HIDE DEF settled
  <2>2. /\ account' = [account EXCEPT ![xt.sponsor] = settled]
        /\ settled["free"] = account[xt.sponsor]["free"]
        /\ OnHold(settled) + n = OnHold(account[xt.sponsor])
    BY <2>1 DEF settled, SettledBy
  <2>3. /\ event'.sponsor = xt.sponsor /\ event'.signer = xt.signer
        /\ event'.actual_fee = n /\ event'.tip = xt.tip
        /\ n <= xt.fee /\ xt.sponsor \in AccountId
    BY <2>1 DEF SettledBy
  <2>4. account \in [AccountId -> Account]
    BY DEF IInv, TypeOK
  <2>5. \A a \in AccountId : account'[a] = IF a = xt.sponsor THEN settled ELSE account[a]
    BY <2>2, <2>4
  <2> QED BY <1>1, <2>2, <2>3, <2>5 DEF PaysExactly
<1> QED
  BY <1>2, <1>3

\* Payment touches only the sponsor's holds, takes at most the estimate, and the event
\* reports exactly what was taken.
THEOREM PaymentExact == Spec => SponsorPaysExactly
<1>1. IInv /\ [Next]_vars => [PaysExactly]_vars
  <2> SUFFICES ASSUME IInv, Next PROVE PaysExactly
    OBVIOUS
  <2>1. CASE \E x \in Extrinsic : validate_and_prepare(x)
    BY <2>1, StartPaysExactly
  <2>2. CASE dispatch
    <3>1. xt.phase = "prepared"
      BY <2>2 DEF dispatch, dispatching, register_sponsor, increase_budget, decrease_budget,
                  transfer_allow_death, set_policy, pause, resume, unregister,
                  dispatch_without_effect
    <3> QED BY <3>1 DEF PaysExactly, starts_sponsored, settles_sponsored
  <2>3. CASE \E fee \in Fee : post_dispatch_details(fee)
    BY <2>3, SettlePaysExactly
  <2> QED BY <2>1, <2>2, <2>3 DEF Next
<1> QED
  BY <1>1, Invariance, PTL DEF Spec, SponsorPaysExactly

-----------------------------------------------------------------------------
(* SponsoredTx implements SponsorEscrow: holds are escrow, the pending hold *)
(* is the reservation, and every step is a step of the escrow or none.      *)

\* At genesis nothing is in escrow and nobody sponsors.
LEMMA RefinesInit == Init => Escrow!EscrowInit
<1> SUFFICES ASSUME Init PROVE Escrow!EscrowInit
  OBVIOUS
<1>1. \A a \in AccountId :
         /\ account[a]["free"] \in Nat
         /\ OnHold(account[a]) = 0 /\ pending_on_hold(a) = 0 /\ offered(a) = 0
  BY SponsoredTxAssumption
     DEF Init, Endowed, HoldReason, OnHold, pending_on_hold, offered, is_registered
<1> QED
  BY <1>1 DEF Escrow!EscrowInit

\* register_sponsor, increase_budget, decrease_budget, set_policy, pause, resume and
\* unregister: a sponsor manages its own escrow and cannot take back the reservation.
LEMMA ManageStep ==
    ASSUME IInv, NEW who \in AccountId, OwnChange(who)
    PROVE  Escrow!Manage(who)
<1>1. PICK acc \in Account, st \in Option(SponsorState) :
         /\ account' = [account EXCEPT ![who] = acc]
         /\ Sponsors' = [Sponsors EXCEPT ![who] = st]
         /\ acc["SponsorshipPending"] = account[who]["SponsorshipPending"]
         /\ acc["free"] + OnHold(acc) = account[who]["free"] + OnHold(account[who])
  BY Zenon DEF OwnChange
<1>2. \A a \in AccountId :
         /\ account'[a] = IF a = who THEN acc ELSE account[a]
         /\ a # who => Sponsors'[a] = Sponsors[a]
  BY <1>1 DEF IInv, TypeOK
<1>3. acc["SponsorshipPending"] <= OnHold(acc)
  <2>1. acc["SponsorshipPending"] \in Nat /\ acc["SponsorshipBudget"] \in Nat
    BY DEF Account, HoldReason
  <2> QED BY <2>1 DEF OnHold
<1>4. \A a \in AccountId : pending_on_hold(a)' = pending_on_hold(a)
  BY <1>1, <1>2 DEF pending_on_hold
<1>5. \A a \in AccountId \ {who} : offered(a)' = offered(a)
  BY <1>2 DEF offered, is_registered
<1>6. /\ account'[who]["free"] + OnHold(account'[who])
             = account[who]["free"] + OnHold(account[who])
      /\ pending_on_hold(who) <= OnHold(account'[who])
  BY <1>1, <1>2, <1>3 DEF pending_on_hold
<1>7. \A a \in AccountId \ {who} : account'[a] = account[a]
  BY <1>2
<1> QED
  BY <1>4, <1>5, <1>6, <1>7 DEF Escrow!Manage, Escrow!OthersKeep

\* A step that leaves every hold and the registry alone concerns spendable money only.
LEMMA SpendStep ==
    ASSUME account' \in [AccountId -> Account], Sponsors' = Sponsors,
           \A a \in AccountId :
              /\ account'[a]["SponsorshipBudget"] = account[a]["SponsorshipBudget"]
              /\ account'[a]["SponsorshipPending"] = account[a]["SponsorshipPending"]
    PROVE  Escrow!Spend
<1>1. \A a \in AccountId :
         /\ account'[a]["free"] \in Nat
         /\ OnHold(account'[a]) = OnHold(account[a])
         /\ pending_on_hold(a)' = pending_on_hold(a)
         /\ offered(a)' = offered(a)
  BY DEF Account, HoldReason, OnHold, pending_on_hold, offered, is_registered
<1> QED
  BY <1>1 DEF Escrow!Spend

\* An EXCEPT on the free balance leaves the holds alone.
LEMMA FreeOnly ==
    ASSUME NEW acc \in Account, NEW n
    PROVE  /\ Withdraw(acc, n)["SponsorshipBudget"] = acc["SponsorshipBudget"]
           /\ Withdraw(acc, n)["SponsorshipPending"] = acc["SponsorshipPending"]
           /\ Deposit(acc, n)["SponsorshipBudget"] = acc["SponsorshipBudget"]
           /\ Deposit(acc, n)["SponsorshipPending"] = acc["SponsorshipPending"]
           /\ Send(acc, n)["SponsorshipBudget"] = acc["SponsorshipBudget"]
           /\ Send(acc, n)["SponsorshipPending"] = acc["SponsorshipPending"]
BY DEF Withdraw, Deposit, Send, Account, HoldReason

\* validate_and_prepare reserves the fee under the sponsor's terms, or spends the
\* signer's own money.
LEMMA PrepareRefines ==
    ASSUME IInv, IInv', NEW x \in Extrinsic, validate_and_prepare(x)
    PROVE  Escrow!EscrowNext
<1>0. /\ account \in [AccountId -> Account] /\ account' \in [AccountId -> Account]
      /\ Sponsors' = Sponsors
  BY DEF IInv, TypeOK, validate_and_prepare
<1>1. CASE x.sponsor = None
  <2>1. \A a \in AccountId :
           /\ account'[a]["SponsorshipBudget"] = account[a]["SponsorshipBudget"]
           /\ account'[a]["SponsorshipPending"] = account[a]["SponsorshipPending"]
    <3>1. CASE x.signer = None
      BY <1>1, <3>1 DEF validate_and_prepare, prepare
    <3>2. CASE x.signer # None
      <4>1. account' = [account EXCEPT ![x.signer] = Withdraw(account[x.signer], fee_with_tip(x))]
        BY <1>1, <3>2 DEF validate_and_prepare, prepare
      <4>2. x.signer \in AccountId
        BY <3>2, ExtrinsicFacts DEF Option
      <4> QED BY <1>0, <4>1, <4>2, FreeOnly
    <3> QED BY <3>1, <3>2
  <2> QED BY <1>0, <2>1, SpendStep DEF Escrow!EscrowNext
<1>2. CASE x.sponsor # None
  <2> DEFINE f     == fee_with_tip(x)
             acc   == account[x.sponsor]
             moved == move_budget_to_pending(acc, f)
  <2>1. x.sponsor \in AccountId /\ f \in Nat /\ acc \in Account
    BY <1>0, <1>2, ExtrinsicFacts DEF Option
  <2>2. /\ account' = [account EXCEPT ![x.sponsor] = moved]
        /\ can_move_budget_to_pending(acc, f)
        /\ f <= offered(x.sponsor)
        /\ f <= acc["SponsorshipBudget"]
    BY <1>2, <2>1 DEF validate_and_prepare, prepare, validate, sponsored_validate, offered,
                      is_registered, budget_on_hold, can_move_budget_to_pending, CanRelease
  <2>3. \A a \in AccountId : pending_on_hold(a) = 0
    BY DEF IInv, PendingIsReservation, sponsored_by, validate_and_prepare
  <2> HIDE DEF f
  <2>4. /\ moved["free"] = acc["free"]
        /\ moved["SponsorshipBudget"] = acc["SponsorshipBudget"] - f
        /\ moved["SponsorshipPending"] = acc["SponsorshipPending"] + f
    BY <2>1, <2>2, MoveFacts
  <2>5. /\ acc["SponsorshipBudget"] \in Nat
        /\ acc["SponsorshipPending"] = 0
    BY <2>1, <2>3 DEF Account, HoldReason, pending_on_hold
  <2> HIDE DEF moved
  <2>6. OnHold(moved) = OnHold(acc) /\ moved["SponsorshipPending"] = f /\ f <= OnHold(acc)
    BY <2>1, <2>2, <2>4, <2>5 DEF OnHold
  <2>7. \A a \in AccountId : account'[a] = IF a = x.sponsor THEN moved ELSE account[a]
    BY <1>0, <2>2
  <2>8. \A a \in AccountId :
           /\ account'[a]["free"] = account[a]["free"]
           /\ OnHold(account'[a]) = OnHold(account[a])
           /\ offered(a)' = offered(a)
           /\ a # x.sponsor => pending_on_hold(a)' = pending_on_hold(a)
    BY <1>0, <2>4, <2>6, <2>7 DEF offered, is_registered, pending_on_hold
  <2>9. pending_on_hold(x.sponsor)' = f
    BY <2>1, <2>6, <2>7 DEF pending_on_hold
  <2>10. Escrow!Reserve(x.sponsor)
    BY <2>1, <2>2, <2>3, <2>6, <2>8, <2>9 DEF Escrow!Reserve, Escrow!OthersKeep
  <2> QED BY <2>1, <2>10 DEF Escrow!EscrowNext
<1> QED
  BY <1>1, <1>2

\* A dispatched call manages its origin's escrow or moves spendable money.
LEMMA DispatchRefines ==
    ASSUME IInv, IInv', dispatch
    PROVE  Escrow!EscrowNext
<1>0. account \in [AccountId -> Account] /\ account' \in [AccountId -> Account]
  BY DEF IInv, TypeOK
<1>1. CASE \E who \in AccountId : dispatching /\ OwnChange(who)
  BY <1>1, ManageStep DEF Escrow!EscrowNext
<1>2. CASE \E who \in AccountId, dest \in AccountId, value \in Amount :
              transfer_allow_death(who, dest, value)
  <2>1. PICK who \in AccountId, dest \in AccountId, value \in Amount :
              transfer_allow_death(who, dest, value)
    BY <1>2
  <2>2. /\ account' = [account EXCEPT ![who] = Send(account[who], value),
                                      ![dest] = Deposit(account[dest], value)]
        /\ Sponsors' = Sponsors
    BY <1>0, <2>1 DEF transfer_allow_death
  <2>3. \A a \in AccountId :
           /\ account'[a]["SponsorshipBudget"] = account[a]["SponsorshipBudget"]
           /\ account'[a]["SponsorshipPending"] = account[a]["SponsorshipPending"]
    BY <1>0, <2>2, FreeOnly
  <2> QED BY <1>0, <2>2, <2>3, SpendStep DEF Escrow!EscrowNext
<1>3. CASE dispatch_without_effect
  BY <1>0, <1>3, SpendStep DEF dispatch_without_effect, Escrow!EscrowNext
<1> QED
  BY <1>1, <1>2, <1>3, DispatchCases

\* Settlement charges the reservation; a refund is spendable money.
LEMMA PostDispatchRefines ==
    ASSUME IInv, IInv', NEW fee \in Fee, post_dispatch_details(fee)
    PROVE  Escrow!EscrowNext
<1>0. /\ account \in [AccountId -> Account] /\ account' \in [AccountId -> Account]
      /\ Sponsors' = Sponsors
  BY DEF IInv, TypeOK, post_dispatch_details
<1>1. CASE xt.sponsor = None
  <2>1. \A a \in AccountId :
           /\ account'[a]["SponsorshipBudget"] = account[a]["SponsorshipBudget"]
           /\ account'[a]["SponsorshipPending"] = account[a]["SponsorshipPending"]
    <3>1. CASE xt.signer = None
      BY <1>1, <3>1 DEF post_dispatch_details
    <3>2. CASE xt.signer # None
      <4>1. xt.signer \in AccountId
        BY <3>2 DEF IInv, TypeOK, InFlight, Option
      <4>2. refund_signer(fee + xt.tip)
        BY <1>1, <3>2 DEF post_dispatch_details
      <4> QED BY <1>0, <4>1, <4>2, FreeOnly DEF refund_signer
    <3> QED BY <3>1, <3>2
  <2> QED BY <1>0, <2>1, SpendStep DEF Escrow!EscrowNext
<1>2. CASE xt.sponsor # None
  <2>1. PICK n \in Nat : SettledBy(n)
    BY <1>2, SettlementFacts
  <2> DEFINE s       == xt.sponsor
             settled == restore_pending_to_budget(
                            Slash(account[s], "SponsorshipPending", n))
  <2> HIDE DEF settled
  <2>2. /\ s \in AccountId
        /\ account' = [account EXCEPT ![s] = settled]
        /\ settled \in Account /\ settled["free"] = account[s]["free"]
        /\ settled["SponsorshipPending"] = 0
        /\ OnHold(settled) + n = OnHold(account[s])
        /\ n <= pending_on_hold(s)
    BY <2>1 DEF settled, SettledBy, pending_on_hold
  <2>3. \A a \in AccountId : account'[a] = IF a = s THEN settled ELSE account[a]
    BY <1>0, <2>2
  <2>4. /\ OnHold(settled) \in Nat /\ pending_on_hold(s) \in Nat
    BY <1>0, <2>2 DEF Account, HoldReason, OnHold, pending_on_hold
  <2> HIDE DEF s
  <2>5. /\ OnHold(account'[s]) <= OnHold(account[s])
        /\ OnHold(account[s]) <= OnHold(account'[s]) + pending_on_hold(s)
    BY <2>2, <2>3, <2>4
  <2>6. \A a \in AccountId :
           /\ account'[a]["free"] = account[a]["free"]
           /\ offered(a)' = offered(a)
           /\ a # s => account'[a] = account[a]
           /\ pending_on_hold(a)' = IF a = s THEN 0 ELSE pending_on_hold(a)
    BY <1>0, <2>2, <2>3 DEF offered, is_registered, pending_on_hold
  <2>7. Escrow!Charge(s)
    BY <2>2, <2>5, <2>6 DEF Escrow!Charge, Escrow!OthersKeep
  <2> QED BY <2>2, <2>7 DEF Escrow!EscrowNext
<1> QED
  BY <1>1, <1>2

\* The pallet and its extension keep the promise of SponsorEscrow, for every set of
\* accounts, amounts and policies.
THEOREM RefinesEscrow == Spec => KeepsEscrow
<1>1. IInv /\ IInv' /\ [Next]_vars => [Escrow!EscrowNext]_Escrow!escrowVars
  <2> SUFFICES ASSUME IInv, IInv', [Next]_vars
               PROVE  [Escrow!EscrowNext]_Escrow!escrowVars
    OBVIOUS
  <2>1. CASE \E x \in Extrinsic : validate_and_prepare(x)
    BY <2>1, PrepareRefines
  <2>2. CASE dispatch
    BY <2>2, DispatchRefines
  <2>3. CASE \E fee \in Fee : post_dispatch_details(fee)
    BY <2>3, PostDispatchRefines
  <2>4. CASE UNCHANGED vars
    BY <2>4 DEF vars, Escrow!escrowVars, pending_on_hold, offered, is_registered
  <2> QED BY <2>1, <2>2, <2>3, <2>4 DEF Next
<1> QED
  BY <1>1, RefinesInit, Invariance, PTL DEF Spec, KeepsEscrow, Escrow!EscrowSpec
=============================================================================
