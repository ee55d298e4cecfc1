---------------------------- MODULE SponsoredTx ----------------------------
(***************************************************************************)
(* pallet-sponsored-tx: the sponsor registry with its seven dispatchables   *)
(* (pallets/sponsored-tx/src/lib.rs) and the transaction extension that     *)
(* lets a sponsor pay a signer's fee (extension.rs), run by the Executive:  *)
(*                                                                         *)
(*    validate_and_prepare  -->  dispatch of the call  -->  post_dispatch   *)
(*                                                                         *)
(* Each of the three is a step.  Extrinsics are applied one at a time.  An  *)
(* extrinsic that fails validate or prepare is rejected and changes         *)
(* nothing, so it is no step here.                                          *)
(***************************************************************************)
EXTENDS SponsorValidation, Sequences

CONSTANTS
    AccountId,
    SudoKey,        \* the key of pallet_sudo, or None
    Endowment,      \* free balances at genesis
    Amount,         \* amounts a call may carry
    Fee,            \* fees, tip excluded, that a call may cost
    Tip,            \* tips an extrinsic may carry
    SponsorPolicy   \* policies a call may carry

\* BoundedVec<AccountId, MaxAllowedCallers> is any sequence that decodes: the
\* bound is a property of the policies the calls carry.
ASSUME SponsoredTxAssumption ==
    /\ None \notin AccountId
    /\ SudoKey \in AccountId \cup {None}
    /\ Endowment \in [AccountId -> Nat]
    /\ \A a \in AccountId : Endowment[a] = 0 \/ Endowment[a] >= ED
    /\ Amount \subseteq Nat
    /\ Fee \subseteq Nat
    /\ Tip \subseteq Nat
    /\ \A p \in SponsorPolicy :
          /\ p.allowed_callers \in Seq(AccountId)
          /\ p.max_fee_per_tx \in Nat
    /\ None \notin [active : BOOLEAN, policy : SponsorPolicy]

VARIABLES
    xt,         \* the extrinsic being applied: SponsoredPre and the phase
    event       \* the SponsoredTransactionFeePaid event of the last
                \* settlement, until the next extrinsic starts

vars == <<account, Sponsors, xt, event>>

Option(S) == S \cup {None}

SponsorState == [active : BOOLEAN, policy : SponsorPolicy]

\* What an extrinsic brings: its signer (None for an origin that is not a
\* signer), the extension's two fields, and the fee without tip that
\* compute_fee finds for its length and weight.
Extrinsic ==
    [signer : Option(AccountId), sponsor : Option(AccountId), fee : Fee, tip : Tip]

\* SponsoredPre.  "fee" is estimated_fee_with_tip on the sponsored path and the
\* amount withdrawn from the signer on the other.
InFlight ==
    [phase : {"idle", "prepared", "dispatched"},
     signer : Option(AccountId), sponsor : Option(AccountId), fee : Nat, tip : Nat]

Idle ==
    [phase |-> "idle", signer |-> None, sponsor |-> None, fee |-> 0, tip |-> 0]

FeePaid ==
    [sponsor : AccountId, signer : AccountId, actual_fee : Nat, tip : Nat]

-----------------------------------------------------------------------------
(* Queries and helpers of the pallet. *)

pending_on_hold(who) == account[who]["SponsorshipPending"]

\* ensure_valid_policy: a non-empty allowlist without duplicates.
valid_policy(policy) ==
    LET callers == policy.allowed_callers
    IN  /\ callers # <<>>
        /\ \A i, j \in DOMAIN callers : i # j => callers[i] # callers[j]

\* Faulty variant: the pending hold is taken before the budget hold is released.
can_hold_before_release(acc, amount) ==
    /\ CanHold(acc, amount)
    /\ CanRelease(Hold(acc, "SponsorshipPending", amount), "SponsorshipBudget", amount)

\* move_budget_to_pending: budget hold -> free -> pending hold.
can_move_budget_to_pending(acc, amount) ==
    /\ CanRelease(acc, "SponsorshipBudget", amount)
    /\ CanHold(Release(acc, "SponsorshipBudget", amount), amount)

move_budget_to_pending(acc, amount) ==
    Hold(Release(acc, "SponsorshipBudget", amount), "SponsorshipPending", amount)

\* Faulty variant: returns early when there is no budget hold to add to.
restore_to_open_budget(acc) ==
    IF acc["SponsorshipBudget"] = 0
    THEN acc
    ELSE [acc EXCEPT !["SponsorshipBudget"] = @ + acc["SponsorshipPending"],
                     !["SponsorshipPending"] = 0]

\* Faulty variant: the second half is missing, and the leftover stays free.
restore_to_free(acc) ==
    Release(acc, "SponsorshipPending", acc["SponsorshipPending"])

\* Faulty variant: the leftover is put back under the pending hold.
restore_under_pending(acc) ==
    Hold(restore_to_free(acc), "SponsorshipPending", acc["SponsorshipPending"])

\* restore_pending_to_budget: pending hold -> free -> budget hold.  Either half
\* may fail; the error is logged and the funds stay where they are.
restore_pending_to_budget(acc) ==
    LET pending  == acc["SponsorshipPending"]
        released == Release(acc, "SponsorshipPending", pending)
    IN  IF pending = 0 \/ ~CanRelease(acc, "SponsorshipPending", pending)
        THEN acc
        ELSE IF CanHold(released, pending)
             THEN Hold(released, "SponsorshipBudget", pending)
             ELSE released

-----------------------------------------------------------------------------
(* prepare of SponsoredChargeTransactionPayment; validate is in SponsorValidation. *)

\* Val::NoCharge, Val::Charge and SponsoredVal::Sponsored in turn.
prepare(x) ==
    \/ /\ x.sponsor = None /\ x.signer = None
       /\ xt' = [Idle EXCEPT !.phase = "prepared"]
       /\ UNCHANGED account
    \/ /\ x.sponsor = None /\ x.signer # None
       /\ account' = [account EXCEPT ![x.signer] = Withdraw(@, fee_with_tip(x))]
       /\ xt' = [phase |-> "prepared", signer |-> x.signer, sponsor |-> None,
                 fee |-> fee_with_tip(x), tip |-> x.tip]
    \/ /\ x.sponsor # None
       /\ can_move_budget_to_pending(account[x.sponsor], fee_with_tip(x))
       /\ account' = [account EXCEPT ![x.sponsor] =
                         move_budget_to_pending(@, fee_with_tip(x))]
       /\ xt' = [phase |-> "prepared", signer |-> x.signer, sponsor |-> x.sponsor,
                 fee |-> fee_with_tip(x), tip |-> x.tip]

validate_and_prepare(x) ==
    /\ xt.phase = "idle"
    /\ validate(x)
    /\ prepare(x)
    /\ event' = None
    /\ UNCHANGED Sponsors

-----------------------------------------------------------------------------
(* Dispatch.  A call that returns an error has its storage layer rolled     *)
(* back, so it changes nothing: the guards below are those of success, and  *)
(* dispatch_without_effect stands for every error and for system.remark.    *)

\* The signed origins a call can be dispatched with: the signer, or any
\* account when the sudo key wraps the call in sudo_as.
is_origin(who) == who = xt.signer \/ (SudoKey # None /\ xt.signer = SudoKey)

dispatching ==
    /\ xt.phase = "prepared"
    /\ xt' = [xt EXCEPT !.phase = "dispatched"]
    /\ UNCHANGED event

\* Faulty variant: the AlreadyRegistered check is missing.
register_again(sponsor, initial_budget, policy) ==
    /\ dispatching /\ is_origin(sponsor)
    /\ initial_budget # 0
    /\ valid_policy(policy)
    /\ CanHold(account[sponsor], initial_budget)
    /\ account' = [account EXCEPT ![sponsor] =
                      Hold(@, "SponsorshipBudget", initial_budget)]
    /\ Sponsors' = [Sponsors EXCEPT ![sponsor] = [active |-> TRUE, policy |-> policy]]

register_sponsor(sponsor, initial_budget, policy) ==
    /\ dispatching /\ is_origin(sponsor)
    /\ initial_budget # 0
    /\ ~is_registered(sponsor)
    /\ valid_policy(policy)
    /\ CanHold(account[sponsor], initial_budget)
    /\ account' = [account EXCEPT ![sponsor] =
                      Hold(@, "SponsorshipBudget", initial_budget)]
    /\ Sponsors' = [Sponsors EXCEPT ![sponsor] = [active |-> TRUE, policy |-> policy]]

increase_budget(sponsor, amount) ==
    /\ dispatching /\ is_origin(sponsor)
    /\ amount # 0
    /\ is_registered(sponsor)
    /\ CanHold(account[sponsor], amount)
    /\ account' = [account EXCEPT ![sponsor] = Hold(@, "SponsorshipBudget", amount)]
    /\ UNCHANGED Sponsors

\* Faulty variant: the check counts the pending hold as available.
decrease_total(sponsor, amount) ==
    /\ dispatching /\ is_origin(sponsor)
    /\ amount # 0
    /\ is_registered(sponsor)
    /\ OnHold(account[sponsor]) >= amount
    /\ account' = [account EXCEPT ![sponsor] = Release(@, "SponsorshipBudget", amount)]
    /\ UNCHANGED Sponsors

decrease_budget(sponsor, amount) ==
    /\ dispatching /\ is_origin(sponsor)
    /\ amount # 0
    /\ is_registered(sponsor)
    /\ budget_on_hold(sponsor) >= amount
    /\ CanRelease(account[sponsor], "SponsorshipBudget", amount)
    /\ account' = [account EXCEPT ![sponsor] = Release(@, "SponsorshipBudget", amount)]
    /\ UNCHANGED Sponsors

set_policy(sponsor, policy) ==
    /\ dispatching /\ is_origin(sponsor)
    /\ valid_policy(policy)
    /\ is_registered(sponsor)
    /\ Sponsors' = [Sponsors EXCEPT ![sponsor].policy = policy]
    /\ UNCHANGED account

pause(sponsor) ==
    /\ dispatching /\ is_origin(sponsor)
    /\ is_registered(sponsor)
    /\ Sponsors[sponsor].active
    /\ Sponsors' = [Sponsors EXCEPT ![sponsor].active = FALSE]
    /\ UNCHANGED account

resume(sponsor) ==
    /\ dispatching /\ is_origin(sponsor)
    /\ is_registered(sponsor)
    /\ ~Sponsors[sponsor].active
    /\ Sponsors' = [Sponsors EXCEPT ![sponsor].active = TRUE]
    /\ UNCHANGED account

\* Faulty variant: the PendingBudgetNotEmpty check is missing.
can_unregister_pending(sponsor) ==
    /\ is_registered(sponsor)
    /\ CanRelease(account[sponsor], "SponsorshipBudget", budget_on_hold(sponsor))

\* The checks of unregister: nothing pending, and the whole budget releasable.
can_unregister(sponsor) ==
    /\ is_registered(sponsor)
    /\ pending_on_hold(sponsor) = 0
    /\ CanRelease(account[sponsor], "SponsorshipBudget", budget_on_hold(sponsor))

\* Faulty variant: the entry is removed and the budget stays on hold.
unregister_keeping_hold(sponsor) ==
    /\ dispatching /\ is_origin(sponsor)
    /\ can_unregister(sponsor)
    /\ Sponsors' = [Sponsors EXCEPT ![sponsor] = None]
    /\ UNCHANGED account

unregister(sponsor) ==
    /\ dispatching /\ is_origin(sponsor)
    /\ can_unregister(sponsor)
    /\ account' = [account EXCEPT ![sponsor] =
                      Release(@, "SponsorshipBudget", budget_on_hold(sponsor))]
    /\ Sponsors' = [Sponsors EXCEPT ![sponsor] = None]

\* A balances transfer, the way funds move beside the pallet.
transfer_allow_death(source, dest, value) ==
    /\ dispatching /\ is_origin(source)
    /\ source # dest
    /\ CanSend(account[source], value)
    /\ CanReceive(account[dest], value)
    /\ account' = [account EXCEPT ![source] = Send(@, value),
                                  ![dest] = Deposit(@, value)]
    /\ UNCHANGED Sponsors

dispatch_without_effect ==
    /\ dispatching
    /\ UNCHANGED <<account, Sponsors>>

dispatch ==
    \/ \E who \in AccountId :
          \/ \E amount \in Amount :
                \/ \E policy \in SponsorPolicy : register_sponsor(who, amount, policy)
                \/ increase_budget(who, amount)
                \/ decrease_budget(who, amount)
                \/ \E dest \in AccountId : transfer_allow_death(who, dest, amount)
          \/ \E policy \in SponsorPolicy : set_policy(who, policy)
          \/ pause(who)
          \/ resume(who)
          \/ unregister(who)
    \/ dispatch_without_effect

-----------------------------------------------------------------------------
(* post_dispatch_details of SponsoredChargeTransactionPayment. *)

\* Faulty variant: restore_pending_to_budget is not called.
settle_without_restore(actual_fee) ==
    LET clamped == Lesser(actual_fee, xt.fee)
        credit  == Slashed(account[xt.sponsor], "SponsorshipPending", clamped)
    IN  /\ account' = [account EXCEPT ![xt.sponsor] = Slash(@, "SponsorshipPending", clamped)]
        /\ event' = [sponsor |-> xt.sponsor, signer |-> xt.signer,
                     actual_fee |-> credit, tip |-> Lesser(xt.tip, credit)]

\* settle_sponsored_fee: clamp the actual fee to the estimate, slash it from the
\* pending hold (the credit goes to FeeDestination, which burns it), give the
\* rest back to the budget and report what was taken.
settle_sponsored_fee(actual_fee) ==
    LET sponsor == xt.sponsor
        clamped == Lesser(actual_fee, xt.fee)
        credit  == Slashed(account[sponsor], "SponsorshipPending", clamped)
    IN  /\ account' = [account EXCEPT ![sponsor] =
                          restore_pending_to_budget(Slash(@, "SponsorshipPending", clamped))]
        /\ event' = [sponsor |-> sponsor, signer |-> xt.signer,
                     actual_fee |-> credit, tip |-> Lesser(xt.tip, credit)]

\* correct_and_deposit_fee of the unsponsored path: the overpaid part returns to
\* the signer, unless the signer's account is gone.
refund_signer(actual_fee) ==
    /\ account' =
          IF OnHold(account[xt.signer]) + account[xt.signer]["free"] > 0
          THEN [account EXCEPT ![xt.signer] =
                   Deposit(@, xt.fee - Lesser(actual_fee, xt.fee))]
          ELSE account
    /\ UNCHANGED event

\* fee is what compute_actual_fee finds, tip excluded: any fee, larger than the
\* estimate included.
post_dispatch_details(fee) ==
    /\ xt.phase = "dispatched"
    /\ \/ xt.sponsor # None /\ settle_sponsored_fee(fee + xt.tip)
       \/ xt.sponsor = None /\ xt.signer # None /\ refund_signer(fee + xt.tip)
       \/ xt.sponsor = None /\ xt.signer = None /\ UNCHANGED <<account, event>>
    /\ xt' = Idle
    /\ UNCHANGED Sponsors

-----------------------------------------------------------------------------
Init ==
    /\ account = [a \in AccountId |-> Endowed(Endowment[a])]
    /\ Sponsors = [a \in AccountId |-> None]
    /\ xt = Idle
    /\ event = None

Next ==
    \/ \E x \in Extrinsic : validate_and_prepare(x)
    \/ dispatch
    \/ \E fee \in Fee : post_dispatch_details(fee)

Spec == Init /\ [][Next]_vars

\* Executive::apply_extrinsic runs an extrinsic it has started to its end.
FairSpec ==
    /\ Spec
    /\ WF_vars(dispatch)
    /\ WF_vars(\E fee \in Fee : post_dispatch_details(fee))

-----------------------------------------------------------------------------
(* Properties. *)

\* Accounts, registry entries, the extrinsic in flight and the settlement event
\* have the shapes of the storage items and of SponsoredPre.
TypeOK ==
    /\ account \in [AccountId -> Account]
    /\ Sponsors \in [AccountId -> Option(SponsorState)]
    /\ xt \in InFlight
    /\ event \in Option(FeePaid)

sponsored_by(a) == xt.phase # "idle" /\ xt.sponsor = a

\* The pending hold of a sponsor is exactly the estimate that prepare reserved for
\* the extrinsic in flight, and it is empty at every other time.  The hold belongs
\* to the sponsor, not to the transaction: restore_pending_to_budget hands back
\* whatever it finds there, which is right only because of this.
PendingIsReservation ==
    \A a \in AccountId :
        pending_on_hold(a) = IF sponsored_by(a) THEN xt.fee ELSE 0

\* Nobody who is not in the registry has funds on hold: unregister, whichever
\* extrinsic it runs in (one the same sponsor pays for included), orphans nothing.
UnregisteredHoldsNothing ==
    \A a \in AccountId : ~is_registered(a) => OnHold(account[a]) = 0

\* A sponsored extrinsic with a fee that passes validate also passes prepare: the
\* way through the free balance in move_budget_to_pending never fails half-way.
\* (A free one can: hold(0) fails on a sponsor account that has been reaped.)
ValidatedIsPreparable ==
    \A x \in Extrinsic :
        x.sponsor # None /\ validate(x) /\ fee_with_tip(x) > 0
            => can_move_budget_to_pending(account[x.sponsor], fee_with_tip(x))

\* Between extrinsics every registered sponsor can leave with all its money: the
\* checks of unregister pass, and its budget is everything it has on hold.
ExitAlwaysPossible ==
    xt.phase = "idle" =>
        \A a \in AccountId :
            is_registered(a) =>
                can_unregister(a) /\ budget_on_hold(a) = OnHold(account[a])

\* A live account has a free balance of at least ED; any other has nothing, free or
\* on hold.  pallet_balances keeps this, and the failure branches of
\* move_budget_to_pending and restore_pending_to_budget are dead because of it.
NoDust ==
    \A a \in AccountId :
        IsLive(account[a]) \/ (account[a]["free"] = 0 /\ OnHold(account[a]) = 0)

\* The same of one account.
Sound(acc) == IsLive(acc) \/ (acc["free"] = 0 /\ OnHold(acc) = 0)

\* An extrinsic in flight has a signer when it has a sponsor, and its tip is part
\* of its fee.
FlightOK ==
    /\ xt.sponsor # None => xt.signer # None
    /\ xt.tip <= xt.fee
    /\ xt.phase = "idle" => xt = Idle

\* The inductive invariant behind the properties above.
IInv == TypeOK /\ NoDust /\ FlightOK /\ PendingIsReservation /\ UnregisteredHoldsNothing

starts_sponsored == xt.phase = "idle" /\ xt'.phase = "prepared" /\ xt'.sponsor # None

settles_sponsored == xt.phase = "dispatched" /\ xt'.phase = "idle" /\ xt.sponsor # None

\* What the payment of a sponsored extrinsic may do in one step.
PaysExactly ==
    /\ starts_sponsored \/ settles_sponsored =>
          \A a \in AccountId :
              /\ account'[a]["free"] = account[a]["free"]
              /\ a # xt.sponsor /\ a # xt'.sponsor => account'[a] = account[a]
    /\ starts_sponsored => OnHold(account'[xt'.sponsor]) = OnHold(account[xt'.sponsor])
    /\ settles_sponsored =>
          /\ event'.sponsor = xt.sponsor /\ event'.signer = xt.signer
          /\ OnHold(account'[xt.sponsor]) + event'.actual_fee = OnHold(account[xt.sponsor])
          /\ event'.actual_fee <= xt.fee
          /\ event'.tip = xt.tip

\* Payment of a sponsored extrinsic touches nobody's free balance and nobody but
\* its sponsor.  The SponsoredTransactionFeePaid event reports what left the sponsor's
\* account: the rest of the estimate is budget again, no charge exceeds the estimate,
\* and the tip is paid in full.
SponsorPaysExactly == [][PaysExactly]_vars

\* Reserved funds do not stay reserved: the pending hold empties.
PendingIsTransient ==
    \A a \in AccountId : pending_on_hold(a) > 0 ~> pending_on_hold(a) = 0

\* The sponsor's side of the state, as SponsorEscrow sees it.
offered(a) ==
    IF ~is_registered(a) THEN 0
    ELSE IF Sponsors[a].active THEN Sponsors[a].policy.max_fee_per_tx ELSE 0

Escrow == INSTANCE SponsorEscrow WITH
    spendable <- [a \in AccountId |-> account[a]["free"]],
    escrow <- [a \in AccountId |-> OnHold(account[a])],
    reserved <- [a \in AccountId |-> pending_on_hold(a)],
    limit <- [a \in AccountId |-> offered(a)]

\* The pallet and its extension keep the promise of SponsorEscrow.
KeepsEscrow == Escrow!EscrowSpec
=============================================================================
