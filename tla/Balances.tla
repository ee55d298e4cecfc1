------------------------------ MODULE Balances ------------------------------
(***************************************************************************)
(* The part of pallet_balances that pallet-sponsored-tx relies on, as pure  *)
(* operators on one account.  The pallet is a library of the Polkadot SDK,  *)
(* so these definitions state what the code under src/ gets from the calls  *)
(* it makes: hold, release, slash, withdraw, deposit and transfer.          *)
(*                                                                         *)
(* An account has a free balance and one held balance per hold reason of    *)
(* the runtime that this project models.                                   *)
(***************************************************************************)
EXTENDS Naturals

CONSTANT
    ED      \* ExistentialDeposit: the least free balance of a live account

ASSUME EDAssumption == ED \in Nat \ {0}

\* HoldReason of pallet-sponsored-tx.
HoldReason == {"SponsorshipBudget", "SponsorshipPending"}

Account == [{"free"} \cup HoldReason -> Nat]

Lesser(m, n) == IF m <= n THEN m ELSE n

\* An account with n free units and nothing on hold.
Endowed(n) == [p \in {"free"} \cup HoldReason |-> IF p = "free" THEN n ELSE 0]

OnHold(acc) == acc["SponsorshipBudget"] + acc["SponsorshipPending"]

\* A live account has a provider reference, which a free balance of at least
\* ED gives it.
IsLive(acc) == acc["free"] >= ED

-----------------------------------------------------------------------------
\* hold(reason, who, n) keeps the provider reference (Preservation::Protect)
\* and ignores freezes (Fortitude::Force).  It fails on an account that has
\* no provider, whatever n is.
CanHold(acc, n) == n + ED <= acc["free"]

Hold(acc, reason, n) ==
    [acc EXCEPT !["free"] = @ - n, ![reason] = @ + n]

\* release(reason, who, n, Exact).  Releasing 0 is always possible; anything
\* else must leave a live account behind.
CanRelease(acc, reason, n) ==
    /\ n <= acc[reason]
    /\ n = 0 \/ acc["free"] + n >= ED

Release(acc, reason, n) ==
    [acc EXCEPT !["free"] = @ + n, ![reason] = @ - n]

\* slash(reason, who, n) takes what the hold has, up to n.
Slashed(acc, reason, n) == Lesser(n, acc[reason])

Slash(acc, reason, n) ==
    [acc EXCEPT ![reason] = @ - Slashed(acc, reason, n)]

-----------------------------------------------------------------------------
\* Fee withdrawal of the unsponsored path: Preservation::Preserve.
CanWithdraw(acc, n) == n = 0 \/ n + ED <= acc["free"]

Withdraw(acc, n) == [acc EXCEPT !["free"] = @ - n]

Deposit(acc, n) == [acc EXCEPT !["free"] = @ + n]

\* transfer_allow_death.  A hold takes a consumer reference, and an account
\* with one may not lose its provider; without holds the sender may die, and
\* what it leaves below ED is burned.
CanSend(acc, n) ==
    /\ n <= acc["free"]
    /\ OnHold(acc) > 0 => n + ED <= acc["free"]

Send(acc, n) ==
    [acc EXCEPT !["free"] = IF @ - n >= ED THEN @ - n ELSE 0]

CanReceive(acc, n) == n = 0 \/ acc["free"] + n >= ED
=============================================================================
