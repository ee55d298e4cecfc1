------------------------ MODULE DemoClientInvariant -------------------------
(* The inductive invariant of DemoClient.                                           *)
(*                                                                                  *)
(* The argument has three layers.  A block follows its parent: Alice stays          *)
(* registered, a pause stays, Bob pays nothing and Alice never gets money back.     *)
(* What a block says of Alice is explained by the extrinsics applied up to it.  And *)
(* the client goes on only when its extrinsic is in a finalized block, which tells  *)
(* which extrinsics can be anywhere when it signs the next one.                     *)
EXTENDS DemoClient, TransactionPoolInvariant

\* Alice's entry of a registry.
registered(registry) == registry[Alice] # None

paused(registry) == registry[Alice] # None /\ ~registry[Alice].active

is_register(t) == t.call.name = "register_sponsor"

is_remark(t) == t.call.name = "remark"

is_pause(t) == t.call.name = "pause"

\* An extrinsic made of the k-th entry of the script, and used in the first life of its
\* signer's account if it is used at all.
Scripted(t, k) ==
    /\ t.signer = script[k].signer /\ t.sponsor = script[k].sponsor
    /\ t.call = script[k].call /\ t.life = 0

\* The same signed extrinsic, whatever its age and its events.
Same(t, u) ==
    /\ t.signer = u.signer /\ t.sponsor = u.sponsor /\ t.call = u.call
    /\ t.nonce = u.nonce /\ t.id = u.id /\ t.life = u.life

in_flight == {current} \ {None}

\* Every signed extrinsic there is: with the node, or on its way to it.
Sent == known \cup extrinsics \cup in_flight \cup (IF at = "submit" THEN {extrinsic} ELSE {})

\* Only the client signs, one extrinsic of its script after the other.
ScriptOnly == \A t \in Sent : (\E k \in 1 .. 4 : Scripted(t, k)) /\ t.id <= signatures

\* No extrinsic has succeeded before it is dispatched.
Undispatched ==
    /\ \A t \in pool : ~t.ok
    /\ xt.phase = "prepared" => ~current.ok
    /\ at = "submit" => ~extrinsic.ok

\* What Alice has withdrawn for a fee and may get back: all but one unit at most.
due == IF xt.phase # "idle" /\ xt.sponsor = None THEN xt.fee - 1 ELSE 0

\* A state with accounts acc, registry s and nonces n, reached from the block p; "back" is
\* what Alice may still get back.
Follows(p, acc, s, n, back) ==
    /\ registered(p.Sponsors) => registered(s)
    /\ paused(p.Sponsors) => paused(s) /\ n[Bob] = p.nonce[Bob]
    /\ acc[Bob]["free"] = p.account[Bob]["free"]
    /\ acc[Alice]["free"] + back <= p.account[Alice]["free"]
    /\ ~registered(p.Sponsors) /\ registered(s) =>
          acc[Alice]["free"] + back + INITIAL_BUDGET < p.account[Alice]["free"]

\* What a registered Alice has on hold in a child of p, before the remarks in it.
before(p) == IF registered(p.Sponsors) THEN OnHold(p.account[Alice]) ELSE INITIAL_BUDGET

\* The dispatched extrinsics explain the registry s, and the settled ones what Alice has on
\* hold: she was paused before or is paused by one of them, what has succeeded has had its
\* effect, and at most one remark has been paid for.
Explained(was_paused, hold, acc, s, dispatched, settled) ==
    /\ paused(s) => was_paused \/ \E t \in dispatched : is_pause(t)
    /\ \A t \in dispatched : t.ok =>
          (is_register(t) => registered(s)) /\ (is_pause(t) => paused(s))
    /\ registered(s) =>
          /\ (\A t \in settled : ~is_remark(t)) => OnHold(acc[Alice]) = hold
          /\ \A t \in settled : is_remark(t) => OnHold(acc[Alice]) + t.paid = hold

\* No call of the script takes an account below the existential deposit: nobody is reaped,
\* and the nonces of a signer never start again.
NobodyDies ==
    \A a \in AccountId : deaths[a] = 0 /\ \A i \in DOMAIN chain : chain[i].deaths[a] = 0

\* The chain since the last finalized block.
ChainStory ==
    \A i \in 2 .. Len(chain) :
        /\ Follows(chain[i - 1], chain[i].account, chain[i].Sponsors, chain[i].nonce, 0)
        /\ Explained(paused(chain[i - 1].Sponsors), before(chain[i - 1]), chain[i].account,
                     chain[i].Sponsors, chain[i].body, chain[i].body)

\* Everything up to the last finalized block.
FinalStory ==
    Explained(FALSE, INITIAL_BUDGET, Finalized.account, Finalized.Sponsors, final, final)

\* The block being built.
HereStory ==
    /\ Follows(Best, account, Sponsors, nonce, due)
    /\ Explained(paused(Best.Sponsors), before(Best), account, Sponsors,
                 extrinsics \cup in_flight, extrinsics)
    /\ xt.phase # "idle" /\ xt.sponsor = None =>
          xt.fee >= 1 /\ account[Alice]["free"] + due < Best.account[Alice]["free"]
    /\ current # None /\ is_remark(current) => \A t \in extrinsics : ~is_remark(t)

\* Alice never holds more than one budget.
OneBudget ==
    /\ BudgetTakenOnce
    /\ OnHold(account[Alice]) <= INITIAL_BUDGET

\* Where the client is.
ClientTypes ==
    /\ at \in {"down", "query", "sign", "submit", "watch"}
    /\ step \in 1 .. 5
    /\ at \in {"sign", "submit", "watch"} => step <= 4
    /\ at \in {"submit", "watch"} =>
          /\ extrinsic \in SignedExtrinsic /\ extrinsic.id = signatures
          /\ Scripted(extrinsic, step)

\* What the extrinsics of this run are: when the client signs the next one, all earlier ones
\* have been used up; while it waits for one, no other one can be mistaken for it.
RunSlots ==
    /\ at \in {"query", "sign"} /\ step <= 4 =>
          \A t \in Sent : t.id = signatures => t.nonce < Finalized.nonce[t.signer]
    /\ at = "query" /\ step = 1 => \A t \in Sent : t.id # signatures
    /\ at \in {"submit", "watch"} =>
          \A t \in Sent : t.id = signatures =>
              \/ Same(t, extrinsic)
              \/ /\ t.nonce < Finalized.nonce[t.signer]
                 /\ t.signer = extrinsic.signer => t.nonce < extrinsic.nonce
    /\ at \in {"submit", "watch"} /\ step = 4 => extrinsic.nonce >= Finalized.nonce[Bob]

only_registers == \A t \in Sent : is_register(t)

\* Which extrinsics there can be, in terms of how far any run has come: a remark needs a
\* finalized registration, and the second remark a finalized pause.
ScriptOrder ==
    /\ ~registered(Finalized.Sponsors) => only_registers
    /\ step > 1 => registered(Finalized.Sponsors)
    /\ step > 3 => paused(Finalized.Sponsors)
    /\ \A t, u \in Sent : is_remark(t) /\ is_remark(u) =>
          Same(t, u) \/ paused(Finalized.Sponsors)
    /\ step = 1 /\ (\E t \in Sent : t.ok /\ is_register(t) /\ t.id = signatures)
          => only_registers
    /\ step = 2 /\ at \in {"query", "sign"} => only_registers
    /\ step = 2 \/ (step = 3 /\ at \in {"query", "sign"}) => \A t \in Sent : ~is_pause(t)
    /\ step >= 3 => \E t \in final : is_remark(t) /\ t.paid = paid

DemoState ==
    [sponsor_active : Option(BOOLEAN), alice_free : Nat, bob_free : Nat,
     budget_hold : Nat, pending_hold : Nat]

\* How the first report of a run relates to what is finalized later.
FirstReport ==
    /\ states \in Seq(DemoState)
    /\ at \in {"sign", "submit", "watch"} => Len(states) = step
    /\ at = "query" => Len(states) = step - 1
    /\ states # <<>> =>
          /\ states[1].bob_free = Finalized.account[Bob]["free"]
          /\ Finalized.account[Alice]["free"] <= states[1].alice_free
          /\ states[1].sponsor_active # None => registered(Finalized.Sponsors)
          /\ states[1].sponsor_active = None /\ registered(Finalized.Sponsors) =>
                Finalized.account[Alice]["free"] + INITIAL_BUDGET < states[1].alice_free
          /\ step > 1 => states[1].sponsor_active = None
          /\ (\E t \in Sent : t.ok /\ is_register(t) /\ t.id = signatures)
                => states[1].sponsor_active = None

\* The conjuncts that are about the node alone.
Story == NobodyDies /\ ChainStory /\ FinalStory /\ HereStory /\ OneBudget

\* The inductive invariant: each block and the one being built tell the same story of Alice's
\* registration, pause and holds as the extrinsics in them, the extrinsics of all runs of
\* main.rs that are still about come from its script in an order that finality allows, and
\* the client never mistakes one of them for the one whose finality it awaits.
DemoInv ==
    /\ PoolInv /\ ScriptOnly /\ Undispatched /\ Story
    /\ ClientTypes /\ RunSlots /\ ScriptOrder
    /\ FirstReport /\ ReportsAddUp /\ NeverUnexpected
=============================================================================
