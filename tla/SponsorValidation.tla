------------------------- MODULE SponsorValidation -------------------------
(***************************************************************************)
(* validate of SponsoredChargeTransactionPayment (extension.rs) on a state  *)
(* of the accounts and of the sponsor registry: the one of the best block   *)
(* when the pool asks, the one of the block being built when the Executive  *)
(* does.                                                                    *)
(***************************************************************************)
EXTENDS Balances

CONSTANT
    None            \* Option::None

VARIABLES
    account,    \* System.Account and Balances.Holds, per account
    Sponsors    \* the registry: StorageMap<AccountId, SponsorState>

budget_on_hold(who) == account[who]["SponsorshipBudget"]

is_registered(who) == Sponsors[who] # None

\* compute_fee adds the tip to the fee of the call.
fee_with_tip(x) == x.fee + x.tip

\* CheckNonce, which precedes the payment extension in TxExtension, rejects a
\* signer whose account does not exist.
CheckNonce(x) == x.signer # None => IsLive(account[x.signer])

\* ChargeTransactionPayment::validate: an origin that is not a signer is not
\* charged.
base_validate(x) ==
    x.signer # None => CanWithdraw(account[x.signer], fee_with_tip(x))

\* Faulty variant: a paused sponsor is still charged.
validate_paused(x) ==
    /\ x.signer # None
    /\ is_registered(x.sponsor)
    /\ \E i \in DOMAIN Sponsors[x.sponsor].policy.allowed_callers :
          Sponsors[x.sponsor].policy.allowed_callers[i] = x.signer
    /\ fee_with_tip(x) <= Sponsors[x.sponsor].policy.max_fee_per_tx
    /\ budget_on_hold(x.sponsor) >= fee_with_tip(x)

sponsored_validate(x) ==
    /\ x.signer # None
    /\ is_registered(x.sponsor)
    /\ Sponsors[x.sponsor].active
    /\ \E i \in DOMAIN Sponsors[x.sponsor].policy.allowed_callers :
          Sponsors[x.sponsor].policy.allowed_callers[i] = x.signer
    /\ fee_with_tip(x) <= Sponsors[x.sponsor].policy.max_fee_per_tx
    /\ budget_on_hold(x.sponsor) >= fee_with_tip(x)

validate(x) ==
    /\ CheckNonce(x)
    /\ \/ x.sponsor = None /\ base_validate(x)
       \/ x.sponsor # None /\ sponsored_validate(x)
=============================================================================
