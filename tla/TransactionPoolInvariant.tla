---------------------- MODULE TransactionPoolInvariant ----------------------
(* The inductive invariant of TransactionPool: what its safety properties need to   *)
(* know of the blocks on the chain and of the block being built.                    *)
EXTENDS TransactionPool

\* Every slot of a signer is used once in a life of its account.
UniqueSlots(S) == \A t, u \in S : same_use(t, u) => t = u

\* Nonce n in life d of an account comes no later than nonce m in life e.
not_after(d, n, e, m) == d < e \/ (d = e /\ n <= m)

\* What is known of the nonces in a block, and in the one being built.
here == [nonce |-> nonce, deaths |-> deaths]

\* No account goes back from block b to block c.
grows(b, c) ==
    \A a \in AccountId : not_after(b.deaths[a], b.nonce[a], c.deaths[a], c.nonce[a])

\* The signer of t has used its nonce by the end of block b.
used_by(t, b) == not_after(t.life, t.nonce + 1, b.deaths[t.signer], b.nonce[t.signer])

\* The signer of t had not used its nonce at the end of block b.
unused_at(t, b) == not_after(b.deaths[t.signer], b.nonce[t.signer], t.life, t.nonce)

\* A state between two extrinsics is one every block can end with, and a reorganisation
\* can go back to: its accounts are sound and nothing is pending in it.
Settled(block) ==
    \A a \in AccountId :
        /\ Sound(block.account[a])
        /\ block.account[a]["SponsorshipPending"] = 0
        /\ block.Sponsors[a] = None => OnHold(block.account[a]) = 0

BlocksSettled ==
    \A i \in DOMAIN chain : IsFiniteSet(chain[i].body) /\ Settled(chain[i])

\* A block is built where the unincluded segment has room for it, and the extrinsic being
\* applied in it is the one the payment extension has in flight.
CurrentInFlight ==
    /\ building => ConsensusHook
    /\ ~building => extrinsics = {} /\ xt.phase = "idle"
    /\ IsFiniteSet(extrinsics)
    /\ current = None <=> xt.phase = "idle"
    /\ current # None =>
          xt.signer = current.signer /\ xt.sponsor = current.sponsor /\ event = None

\* Nonces grow along the chain while an account lives, and an extrinsic of a block lies
\* between the lives and nonces its signer had before and after the block.
NoncesGrow ==
    /\ \A i, j \in DOMAIN chain : i <= j => grows(chain[i], chain[j])
    /\ \A i \in DOMAIN chain : UniqueSlots(applied(i))
    /\ \A i \in DOMAIN chain : \A t \in applied(i) : used_by(t, chain[i])
    /\ \A i \in 2 .. Len(chain) : \A t \in chain[i].body : unused_at(t, chain[i - 1])

\* The same of the block being built.
NoncesGrowHere ==
    /\ grows(Best, here)
    /\ UniqueSlots(extrinsics)
    /\ \A t \in extrinsics : unused_at(t, Best) /\ used_by(t, here)
    /\ current # None =>
          /\ unused_at(current, Best) /\ used_by(current, here)
          /\ \A t \in extrinsics : ~same_use(t, current)

\* What a block may charge to a sponsor that had the state st before it and funds on hold
\* before and after it.
Allowed(st, before, after, body, a) ==
    LET sponsored == {tx \in body : tx.sponsor = a}
    IN  /\ sponsored # {} => st # None /\ st.active
        /\ \A tx \in sponsored : tx.paid <= st.policy.max_fee_per_tx
        /\ after + spent(a, body) = before

does_nothing(a) ==
    (\A tx \in extrinsics : origin(tx) # a) /\ (current # None => origin(current) # a)

\* The block being built has charged a sponsor for which it dispatches no call only what its
\* parent state allows, and the fee in flight is under the cap as well.
ChargesAllowed ==
    \A a \in AccountId : does_nothing(a) =>
        /\ Sponsors[a] = Best.Sponsors[a]
        /\ Allowed(Sponsors[a], OnHold(Best.account[a]), OnHold(account[a]), extrinsics, a)
        /\ current # None /\ current.sponsor = a =>
              /\ Sponsors[a] # None /\ Sponsors[a].active
              /\ xt.fee <= Sponsors[a].policy.max_fee_per_tx

\* The inductive invariant.  PendingIsReservation is part of IInv; IncludedOnce follows from
\* the nonces.
PoolInv ==
    /\ IInv /\ PoolTypeOK /\ BlocksSettled /\ CurrentInFlight
    /\ NoncesGrow /\ NoncesGrowHere
    /\ ChargesAllowed /\ BlockRespectsSponsor

\* No block is open and no extrinsic is in flight.
Fresh ==
    /\ PoolTypeOK /\ ~building /\ extrinsics = {} /\ current = None /\ xt.phase = "idle"

\* Extrinsics after one more finalized block.
aged(S) == {older(tx) : tx \in S}
=============================================================================
