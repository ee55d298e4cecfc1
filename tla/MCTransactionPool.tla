------------------------- MODULE MCTransactionPool -------------------------
(* One sponsor and one user of it. *)
EXTENDS TransactionPool

CONSTANTS A, B

MCAccountId == {A, B}
MCEndowment == [a \in MCAccountId |-> IF a = A THEN 9 ELSE 1]

Policy(callers, cap) == [allowed_callers |-> callers, max_fee_per_tx |-> cap]

MCPolicy == {Policy(<<B>>, 2)}

Call(name) ==
    [name |-> name, sudo_as |-> None, amount |-> CHOOSE n \in Amount : TRUE,
     policy |-> CHOOSE p \in SponsorPolicy : TRUE, dest |-> None]

Offer(signer, sponsor, c) ==
    [signer |-> signer, sponsor |-> sponsor, tip |-> 0, mortal |-> TRUE, call |-> c]

\* The sponsor may register, with more or less of a budget, pause and leave.
MCOffers ==
    {Offer(A, None, [Call("register_sponsor") EXCEPT !.amount = n]) : n \in Amount}
    \cup {Offer(A, None, Call(name)) : name \in {"pause", "unregister"}}
    \cup {Offer(B, A, Call("remark"))}

\* It may change its budget and its policy; the user has the sudo key and may take from the
\* budget that pays for it.
MCFeePolicy == MCPolicy \cup {Policy(<<B>>, 1)}

MCFeeOffers ==
    {Offer(A, None, [Call(name) EXCEPT !.policy = p]) :
        name \in {"register_sponsor", "set_policy"}, p \in SponsorPolicy}
    \cup {Offer(A, None, Call(name)) : name \in {"increase_budget", "decrease_budget"}}
    \cup {Offer(B, A, Call("remark")), Offer(B, A, [Call("decrease_budget") EXCEPT !.sudo_as = A])}

\* It may pause and resume, and both may empty the account of the user and endow it again.
MCTransferOffers ==
    LET Transfer(dest) == [Call("transfer_allow_death") EXCEPT !.dest = dest, !.amount = 1]
    IN  {Offer(A, None, [Call("register_sponsor") EXCEPT !.amount = 4]),
         Offer(A, None, Call("pause")),
         Offer(A, None, Call("resume")),
         Offer(A, None, Transfer(B)),
         Offer(B, A, Transfer(A))}

ByUser == {offer \in Offers : offer.signer = B}
=============================================================================
