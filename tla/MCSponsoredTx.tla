--------------------------- MODULE MCSponsoredTx ---------------------------
(* SponsoredTx on two accounts, either of which may sponsor either.         *)
EXTENDS SponsoredTx

CONSTANTS A, B

MCAccountId == {A, B}
MCEndowment == [a \in MCAccountId |-> IF a = A THEN 5 ELSE 3]

Policy(callers, cap) == [allowed_callers |-> callers, max_fee_per_tx |-> cap]

\* Two policies the pallet accepts, an empty allowlist and one with a duplicate.
MCPolicy ==
    {Policy(<<A, B>>, 2), Policy(<<B>>, 1), Policy(<<>>, 2), Policy(<<A, A>>, 2)}
=============================================================================
