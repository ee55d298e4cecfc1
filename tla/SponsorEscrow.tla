--------------------------- MODULE SponsorEscrow ---------------------------
(***************************************************************************)
(* What pallet-sponsored-tx promises a sponsor, with no word on holds or on *)
(* how an extrinsic is executed: money put in escrow leaves it either back  *)
(* to the sponsor, or as the charge of a reservation that was made under    *)
(* terms the sponsor had set, and a charge never takes more than was        *)
(* reserved and never touches money outside the escrow.                     *)
(***************************************************************************)
EXTENDS Naturals

CONSTANT AccountId

VARIABLES
    spendable,  \* what the account may use as it likes
    escrow,     \* what it has set aside for fees
    reserved,   \* the part of the escrow promised to a running transaction
    limit       \* the most one transaction may cost: 0 when not sponsoring

escrowVars == <<spendable, escrow, reserved, limit>>

\* Every entry but a's stays the same.
OthersKeep(a, f, g) == \A b \in AccountId \ {a} : g[b] = f[b]

EscrowInit ==
    /\ spendable \in [AccountId -> Nat]
    /\ escrow = [a \in AccountId |-> 0]
    /\ reserved = [a \in AccountId |-> 0]
    /\ limit = [a \in AccountId |-> 0]

\* The sponsor moves its own money in or out and sets its terms.  It cannot
\* take back what is reserved.
Manage(a) ==
    /\ spendable'[a] + escrow'[a] = spendable[a] + escrow[a]
    /\ reserved[a] <= escrow'[a]
    /\ OthersKeep(a, spendable, spendable')
    /\ OthersKeep(a, escrow, escrow')
    /\ OthersKeep(a, limit, limit')
    /\ UNCHANGED reserved

\* A transaction reserves its worst-case fee, one transaction at a time.
Reserve(a) ==
    /\ \A b \in AccountId : reserved[b] = 0
    /\ reserved'[a] <= limit[a]
    /\ reserved'[a] <= escrow[a]
    /\ OthersKeep(a, reserved, reserved')
    /\ UNCHANGED <<spendable, escrow, limit>>

\* The reservation ends: a part of it is gone, the rest is escrow again.
Charge(a) ==
    /\ escrow'[a] <= escrow[a]
    /\ escrow[a] <= escrow'[a] + reserved[a]
    /\ reserved'[a] = 0
    /\ OthersKeep(a, reserved, reserved')
    /\ OthersKeep(a, escrow, escrow')
    /\ UNCHANGED <<spendable, limit>>

\* Anything may happen to money that is not in escrow.
Spend ==
    /\ spendable' \in [AccountId -> Nat]
    /\ UNCHANGED <<escrow, reserved, limit>>

EscrowNext ==
    \/ \E a \in AccountId : Manage(a) \/ Reserve(a) \/ Charge(a)
    \/ Spend

EscrowSpec == EscrowInit /\ [][EscrowNext]_escrowVars
=============================================================================
