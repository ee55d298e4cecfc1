--------------------------- MODULE DemoClientChain --------------------------
(* The facts that the proofs about the client rest on, and what finality, a     *)
(* reorganisation and the end of a block make of its invariant, given that they *)
(* keep the invariant of the pool and the chain.  That they do is shown in      *)
(* DemoClientProofs, from the theorems about the pool.                          *)
EXTENDS DemoClientInvariant, TLAPS

\* The contexts are large: a leaf that names no prover is given to Zenon, whose translation is
\* the lightest, then to the SMT solver and to Z3 under its own name.
USE ZenonT(3), SMTT(20), Z3T(20)

-----------------------------------------------------------------------------
(* Types. *)

\* The node always keeps a block, and the last one is the best.
LEMMA ChainFacts ==
    ASSUME PoolTypeOK
    PROVE  /\ Best = chain[Len(chain)] /\ Len(chain) \in DOMAIN chain
           /\ DOMAIN chain = 1 .. Len(chain) /\ Len(chain) \in Nat
           /\ \A i \in DOMAIN chain : chain[i] \in Block
           /\ Best \in Block
BY DEF PoolTypeOK, Best

\* The parts of a block.
LEMMA BlockFields ==
    ASSUME NEW b \in Block
    PROVE  /\ b.account \in [AccountId -> Account]
           /\ b.Sponsors \in [AccountId -> Option(SponsorState)]
           /\ b.nonce \in [AccountId -> Nat] /\ b.deaths \in [AccountId -> Nat]
           /\ b.body \subseteq SignedExtrinsic
BY DEF Block

\* The parts of a signed extrinsic.
LEMMA SignedFields ==
    ASSUME NEW tx \in SignedExtrinsic
    PROVE  /\ tx.signer \in AccountId /\ tx.sponsor \in Option(AccountId)
           /\ tx.nonce \in Nat /\ tx.paid \in Nat /\ tx.tip \in Tip
           /\ tx.call \in RuntimeCall /\ tx.life \in Nat /\ tx # None
BY TransactionPoolAssumption DEF SignedExtrinsic

\* Growing older changes nothing but the age.
LEMMA OlderFields ==
    ASSUME NEW tx \in SignedExtrinsic
    PROVE  /\ older(tx) \in SignedExtrinsic
           /\ older(tx).signer = tx.signer /\ older(tx).sponsor = tx.sponsor
           /\ older(tx).nonce = tx.nonce /\ older(tx).paid = tx.paid
           /\ older(tx).id = tx.id /\ older(tx).ok = tx.ok /\ older(tx).call = tx.call
           /\ older(tx).life = tx.life
<1>1. Lesser(tx.age + 1, Period) \in Nat
  BY TransactionPoolAssumption DEF Lesser, SignedExtrinsic
<1> QED
  BY <1>1 DEF older, SignedExtrinsic

-----------------------------------------------------------------------------
(* The script and the chain. *)

\* The entries of the script, once encoded and decoded again.
LEMMA ScriptFacts ==
    /\ script[1].signer = Alice /\ script[1].sponsor = None
    /\ script[1].call = register_sponsor_call
    /\ script[2].signer = Bob /\ script[2].sponsor = Alice
    /\ script[2].call = sponsored_remark_call
    /\ script[3].signer = Alice /\ script[3].sponsor = None
    /\ script[3].call = pause_call
    /\ script[4].signer = Bob /\ script[4].sponsor = Alice
    /\ script[4].call = sponsored_remark_call
    /\ \A k \in 1 .. 4 : script[k].tip = 0 /\ script[k].mortal = TRUE
    /\ Len(script) = 4
<1> DEFINE made(builder, who) ==
        builder.tip = 0 /\ builder.sponsor = who /\ builder.mortal = TRUE
           own == unsponsored(mortal(new_params))
           tipped == sponsor(tip(mortal(new_params), TIP), Alice)
           paid_for == sponsor(mortal(new_params), Alice)
<1>1. made(own, None)
  BY DEF unsponsored, mortal, new_params
<1>2. made(tipped, Alice)
  BY DEF sponsor, tip, mortal, new_params, TIP
<1>3. made(paid_for, Alice)
  BY DEF sponsor, mortal, new_params
<1>4. /\ script[1] = sign_with(Alice, register_sponsor_call, build(own))
      /\ script[2] = sign_with(Bob, sponsored_remark_call, build(tipped))
      /\ script[3] = sign_with(Alice, pause_call, build(own))
      /\ script[4] = sign_with(Bob, sponsored_remark_call, build(paid_for))
      /\ Len(script) = 4
  BY DEF script
<1> HIDE DEF own, tipped, paid_for
<1>6. /\ script[1].signer = Alice /\ script[1].sponsor = None
      /\ script[1].call = register_sponsor_call
      /\ script[1].tip = 0 /\ script[1].mortal = TRUE
  BY <1>1, <1>4 DEF sign_with, build, encode_value_to, decode
<1>7. /\ script[2].signer = Bob /\ script[2].sponsor = Alice
      /\ script[2].call = sponsored_remark_call
      /\ script[2].tip = 0 /\ script[2].mortal = TRUE
  BY <1>2, <1>4 DEF sign_with, build, encode_value_to, decode
<1>8. /\ script[3].signer = Alice /\ script[3].sponsor = None
      /\ script[3].call = pause_call
      /\ script[3].tip = 0 /\ script[3].mortal = TRUE
  BY <1>1, <1>4 DEF sign_with, build, encode_value_to, decode
<1>9. /\ script[4].signer = Bob /\ script[4].sponsor = Alice
      /\ script[4].call = sponsored_remark_call
      /\ script[4].tip = 0 /\ script[4].mortal = TRUE
  BY <1>3, <1>4 DEF sign_with, build, encode_value_to, decode
<1>10. \A k \in 1 .. 4 : k = 1 \/ k = 2 \/ k = 3 \/ k = 4
  OBVIOUS
<1> QED BY <1>4, <1>6, <1>7, <1>8, <1>9, <1>10

\* The three calls of the script.
LEMMA CallsOfScript ==
    /\ register_sponsor_call \in RuntimeCall /\ register_sponsor_call.name = "register_sponsor"
    /\ register_sponsor_call.amount = INITIAL_BUDGET
    /\ register_sponsor_call.sudo_as = None /\ pause_call.sudo_as = None
    /\ sponsored_remark_call.sudo_as = None
    /\ pause_call \in RuntimeCall /\ pause_call.name = "pause"
    /\ sponsored_remark_call \in RuntimeCall /\ sponsored_remark_call.name = "remark"
BY DemoClientAssumption
DEF register_sponsor_call, pause_call, sponsored_remark_call, dynamic_tx, RuntimeCall, Option

\* Who signs and who pays, for each of the three calls.
OfScript(t) ==
    \/ /\ is_register(t) /\ ~is_pause(t) /\ ~is_remark(t)
       /\ t.signer = Alice /\ t.sponsor = None /\ t.call = register_sponsor_call
    \/ /\ is_pause(t) /\ ~is_register(t) /\ ~is_remark(t)
       /\ t.signer = Alice /\ t.sponsor = None
    \/ /\ is_remark(t) /\ ~is_register(t) /\ ~is_pause(t)
       /\ t.signer = Bob /\ t.sponsor = Alice

\* Whatever has been sent is one of the script's four extrinsics, signed in an earlier call.
LEMMA SentFacts ==
    ASSUME ScriptOnly, NEW t \in Sent
    PROVE  OfScript(t) /\ t.id <= signatures /\ t.life = 0 /\ t.call.sudo_as = None
<1>1. PICK k \in 1 .. 4 : Scripted(t, k)
  BY DEF ScriptOnly
<1>2. k = 1 \/ k = 2 \/ k = 3 \/ k = 4
  BY <1>1
<1>3. OfScript(t) /\ t.life = 0 /\ t.call.sudo_as = None
  BY <1>1, <1>2, ScriptFacts, CallsOfScript
  DEF Scripted, OfScript, is_register, is_pause, is_remark
<1> QED BY <1>3 DEF ScriptOnly

\* Where signed extrinsics are.
LEMMA SentParts ==
    /\ pool \subseteq Sent /\ final \subseteq Sent /\ extrinsics \subseteq Sent
    /\ \A i \in DOMAIN chain : chain[i].body \subseteq Sent
    /\ current # None => current \in Sent
BY DEF Sent, known, in_flight

\* The finalized block is the first one the node keeps.
LEMMA FinalizedFacts ==
    ASSUME PoolTypeOK
    PROVE  /\ Finalized = chain[1] /\ 1 \in DOMAIN chain /\ Finalized \in Block
           /\ Len(chain) \in Nat /\ Len(chain) >= 1 /\ DOMAIN chain = 1 .. Len(chain)
           /\ applied(1) = final
BY ChainFacts DEF PoolTypeOK, Finalized, applied

\* The numbers of an account.
LEMMA AccountFacts ==
    ASSUME NEW acc \in [AccountId -> Account], NEW a \in AccountId
    PROVE  /\ acc[a]["free"] \in Nat /\ OnHold(acc[a]) \in Nat
           /\ acc[a]["SponsorshipBudget"] \in Nat /\ acc[a]["SponsorshipPending"] \in Nat
BY DEF Account, HoldReason, OnHold

\* Alice and Bob are two accounts of the chain (//Alice and //Bob in main).
LEMMA Members ==
    /\ Alice \in AccountId /\ Bob \in AccountId /\ Alice # Bob /\ INITIAL_BUDGET \in Nat
    /\ Alice # None
BY DemoClientAssumption, SponsoredTxAssumption

\* Every extrinsic costs something.
LEMMA FeeFacts == \A fee \in Fee, n \in Tip : fee \in Nat /\ fee >= 1 /\ n \in Nat
BY DemoClientAssumption, SponsoredTxAssumption

-----------------------------------------------------------------------------
(* What a step of the node leaves of the client's part of the invariant. *)

\* What is known of such a step from elsewhere, next to PoolInv': a finalized registration
\* or pause is there in the block being built, and preparing and settling a payment do to
\* what is on hold what they do in every extrinsic.
StatusStays ==
    /\ registered(Finalized.Sponsors) => registered(Sponsors)
    /\ paused(Finalized.Sponsors) => paused(Sponsors)

HoldsKept == \A a \in AccountId : OnHold(account'[a]) = OnHold(account[a])

reported == IF event' = None THEN 0 ELSE event'.actual_fee

HoldsPay ==
    /\ reported \in Nat
    /\ \A a \in AccountId :
          OnHold(account'[a]) + (IF a = xt.sponsor THEN reported ELSE 0) = OnHold(account[a])

\* Every extrinsic was there before the step.
Inherited == \A t \in Sent' : \E u \in Sent : Same(t, u)

ok_register(t) == t.ok /\ is_register(t) /\ t.id = signatures

\* The registration of this run succeeds only where no finalized block has one.
FirstSuccess ==
    (\E t \in Sent' : t.ok /\ is_register(t) /\ t.id = signatures') =>
        (\E t \in Sent : ok_register(t)) \/ ~registered(Finalized.Sponsors)

\* The last finalized block stays, or its child takes its place.
FinalizedFollows ==
    /\ Follows(Finalized, Finalized'.account, Finalized'.Sponsors, Finalized'.nonce, 0)
    /\ \A a \in AccountId : Finalized.nonce[a] <= Finalized'.nonce[a]

\* The client's variables, but for the age of what it is about to submit.
ClientWaits ==
    /\ at' = at /\ step' = step /\ states' = states /\ paid' = paid /\ result' = result
    /\ signatures' = signatures
    /\ at \in {"submit", "watch"} =>
          /\ extrinsic' \in SignedExtrinsic /\ Same(extrinsic', extrinsic)
          /\ extrinsic'.ok = extrinsic.ok

ClientInv ==
    ScriptOnly /\ ClientTypes /\ RunSlots /\ ScriptOrder /\ FirstReport /\ ReportsAddUp
    /\ NeverUnexpected

\* The invariant, split into the node's part and the client's part.
LEMMA DemoInvParts == DemoInv <=> PoolInv /\ Undispatched /\ Story /\ ClientInv
BY DEF DemoInv, ClientInv

\* An extrinsic that stays the same stays what it is.
LEMMA SameKind ==
    ASSUME NEW t, NEW u, Same(t, u)
    PROVE  /\ is_register(t) <=> is_register(u)
           /\ is_pause(t) <=> is_pause(u)
           /\ is_remark(t) <=> is_remark(u)
           /\ \A k \in 1 .. 4 : Scripted(t, k) <=> Scripted(u, k)
BY DEF Same, is_register, is_pause, is_remark, Scripted

\* Everything that was sent is a signed extrinsic.
LEMMA SentSigned ==
    ASSUME PoolTypeOK, ClientTypes
    PROVE  Sent \subseteq SignedExtrinsic
<1>1. \A i \in DOMAIN chain : chain[i].body \subseteq SignedExtrinsic
  BY ChainFacts, BlockFields
<1> QED BY <1>1 DEF PoolTypeOK, Sent, known, in_flight, ClientTypes, Option

\* A step of the node keeps the client's part of the invariant when what it adds is made
\* of earlier extrinsics, only a first success changes what has succeeded, and the
\* finalized block moves along the chain.
LEMMA ClientKept ==
    ASSUME DemoInv, PoolInv', Inherited, FirstSuccess, FinalizedFollows, ClientWaits,
           final \subseteq final'
    PROVE  ClientInv'
<1>0. /\ Finalized \in Block /\ Finalized' \in Block
      /\ Finalized.nonce \in [AccountId -> Nat] /\ Finalized'.nonce \in [AccountId -> Nat]
      /\ Finalized.account \in [AccountId -> Account]
      /\ Finalized'.account \in [AccountId -> Account]
  <2>1. Finalized \in Block
    BY FinalizedFacts DEF DemoInv, PoolInv
  <2>2. PoolTypeOK' => (Finalized \in Block)'
    BY FinalizedFacts, PTL
  <2>3. Finalized' \in Block
    BY Zenon, <2>2 DEF PoolInv, Block, Account, Option, SponsorState, SignedExtrinsic, RuntimeCall
  <2> QED BY <2>1, <2>3, BlockFields
<1>1. /\ at' = at /\ step' = step /\ states' = states /\ paid' = paid /\ result' = result
      /\ signatures' = signatures
  BY DEF ClientWaits
<1>2. /\ registered(Finalized.Sponsors) => registered(Finalized'.Sponsors)
      /\ paused(Finalized.Sponsors) =>
            paused(Finalized'.Sponsors) /\ Finalized'.nonce[Bob] = Finalized.nonce[Bob]
      /\ \A a \in AccountId : Finalized.nonce[a] <= Finalized'.nonce[a]
  BY DEF FinalizedFollows, Follows
<1>3. ASSUME NEW t \in Sent'
      PROVE  \E u \in Sent : /\ Same(t, u) /\ u \in SignedExtrinsic
                            /\ (\E k \in 1 .. 4 : Scripted(u, k)) /\ u.id <= signatures
  BY SentSigned DEF Inherited, DemoInv, PoolInv, ScriptOnly
<1>4. ScriptOnly'
  <2> SUFFICES ASSUME NEW t \in Sent'
               PROVE  (\E k \in 1 .. 4 : Scripted(t, k)) /\ t.id <= signatures'
    BY DEF ScriptOnly, Scripted
  <2>1. PICK u \in Sent : /\ Same(t, u)
                          /\ (\E k \in 1 .. 4 : Scripted(u, k)) /\ u.id <= signatures
    BY <1>3
  <2> QED BY <1>1, <2>1, SameKind DEF Same
<1>5. ClientTypes'
  BY <1>1 DEF DemoInv, ClientTypes, ClientWaits, Same, Scripted
<1>6. RunSlots'
  <2>1. ASSUME at \in {"query", "sign"}, step <= 4, NEW t \in Sent', t.id = signatures
        PROVE  t.nonce < Finalized'.nonce[t.signer]
    <3>1. PICK u \in Sent : Same(t, u) /\ u \in SignedExtrinsic
      BY <1>3
    <3>2. u.nonce < Finalized.nonce[u.signer]
      BY <2>1, <3>1 DEF DemoInv, RunSlots, Same
    <3>3. u.signer \in AccountId /\ u.nonce \in Nat
      BY <3>1, SignedFields
    <3> QED BY <1>0, <1>2, <3>1, <3>2, <3>3 DEF Same
  <2>2. ASSUME at = "query", step = 1, NEW t \in Sent'
        PROVE  t.id # signatures
    BY <1>3, <2>2 DEF DemoInv, RunSlots, Same
  <2>3. ASSUME at \in {"submit", "watch"}, NEW t \in Sent', t.id = signatures
        PROVE  \/ Same(t, extrinsic')
               \/ /\ t.nonce < Finalized'.nonce[t.signer]
                  /\ t.signer = extrinsic'.signer => t.nonce < extrinsic'.nonce
    <3>0. Same(extrinsic', extrinsic)
      BY <2>3 DEF ClientWaits
    <3>1. PICK u \in Sent : Same(t, u) /\ u \in SignedExtrinsic
      BY <1>3
    <3>2. \/ Same(u, extrinsic)
          \/ /\ u.nonce < Finalized.nonce[u.signer]
             /\ u.signer = extrinsic.signer => u.nonce < extrinsic.nonce
      BY <2>3, <3>1 DEF DemoInv, RunSlots, Same
    <3>3. u.signer \in AccountId /\ u.nonce \in Nat
      BY <3>1, SignedFields
    <3>4. CASE Same(u, extrinsic)
      BY <3>0, <3>1, <3>4 DEF Same
    <3>5. CASE /\ u.nonce < Finalized.nonce[u.signer]
               /\ u.signer = extrinsic.signer => u.nonce < extrinsic.nonce
      BY <1>0, <1>2, <3>0, <3>1, <3>3, <3>5 DEF Same
    <3> QED BY <3>2, <3>4, <3>5
  <2>4. ASSUME at \in {"submit", "watch"}, step = 4
        PROVE  extrinsic'.nonce >= Finalized'.nonce[Bob]
    <3>1. paused(Finalized.Sponsors) /\ extrinsic.nonce >= Finalized.nonce[Bob]
      BY <2>4 DEF DemoInv, RunSlots, ScriptOrder
    <3> QED BY <1>2, <2>4, <3>1 DEF ClientWaits, Same
  <2> QED BY <1>1, <2>1, <2>2, <2>3, <2>4 DEF RunSlots, Same
<1>8. only_registers => only_registers'
  BY SameKind DEF Inherited, only_registers, is_register
<1>9. ScriptOrder'
  <2> USE DEF DemoInv, ScriptOrder
  <2>1. ~registered(Finalized'.Sponsors) => only_registers'
    BY <1>2, <1>8
  <2>2. /\ step > 1 => registered(Finalized'.Sponsors)
        /\ step > 3 => paused(Finalized'.Sponsors)
    BY <1>2
  <2>3. \A t, u \in Sent' : is_remark(t) /\ is_remark(u) =>
            Same(t, u) \/ paused(Finalized'.Sponsors)
    <3> SUFFICES ASSUME NEW t \in Sent', NEW u \in Sent', is_remark(t), is_remark(u),
                        ~paused(Finalized'.Sponsors)
                 PROVE  Same(t, u)
      OBVIOUS
    <3>1. PICK v \in Sent, w \in Sent : Same(t, v) /\ Same(u, w)
      BY DEF Inherited
    <3>2. Same(v, w)
      BY <1>2, <3>1, SameKind
    <3> QED BY <3>1, <3>2 DEF Same
  <2>4. step = 1 /\ (\E t \in Sent' : t.ok /\ is_register(t) /\ t.id = signatures')
            => only_registers'
    BY <1>1, <1>8 DEF FirstSuccess, ok_register
  <2>5. step = 2 /\ at \in {"query", "sign"} => only_registers'
    BY <1>8
  <2>6. step = 2 \/ (step = 3 /\ at \in {"query", "sign"}) => \A t \in Sent' : ~is_pause(t)
    BY SameKind DEF Inherited
  <2>7. step >= 3 => \E t \in final' : is_remark(t) /\ t.paid = paid
    OBVIOUS
  <2> QED BY Zenon, <1>1, <2>1, <2>2, <2>3, <2>4, <2>5, <2>6, <2>7
          DEF registered, paused, is_remark, is_register, is_pause, Same
<1>10. FirstReport'
  <2>1. CASE states = <<>>
    BY <1>1, <2>1 DEF DemoInv, FirstReport
  <2>2. CASE states # <<>>
    <3>1. states[1] \in DemoState
      BY <2>2 DEF DemoInv, FirstReport
    <3> DEFINE first == states[1]
    <3>2. /\ first.bob_free = Finalized.account[Bob]["free"]
          /\ Finalized.account[Alice]["free"] <= first.alice_free
          /\ first.sponsor_active # None => registered(Finalized.Sponsors)
          /\ first.sponsor_active = None /\ registered(Finalized.Sponsors) =>
                Finalized.account[Alice]["free"] + INITIAL_BUDGET < first.alice_free
          /\ step > 1 => first.sponsor_active = None
          /\ (\E t \in Sent : ok_register(t)) => first.sponsor_active = None
      BY <2>2 DEF DemoInv, FirstReport, ok_register
    <3>3. first.alice_free \in Nat
      BY <3>1 DEF DemoState
    <3>4. /\ Finalized.account[Alice]["free"] \in Nat
          /\ Finalized'.account[Alice]["free"] \in Nat
      BY <1>0, AccountFacts, Members
    <3> HIDE DEF first
    <3>5. /\ first.bob_free = Finalized'.account[Bob]["free"]
          /\ Finalized'.account[Alice]["free"] <= first.alice_free
          /\ first.sponsor_active = None /\ registered(Finalized'.Sponsors) =>
                Finalized'.account[Alice]["free"] + INITIAL_BUDGET < first.alice_free
      BY <3>2, <3>3, <3>4, Members DEF FinalizedFollows, Follows
    <3>6. (\E t \in Sent' : t.ok /\ is_register(t) /\ t.id = signatures')
            => first.sponsor_active = None
      BY <3>2 DEF FirstSuccess
    <3> QED BY <1>1, <1>2, <2>2, <3>2, <3>5, <3>6
            DEF DemoInv, FirstReport, first, registered, is_register
  <2> QED BY <2>1, <2>2
<1>11. ReportsAddUp' /\ NeverUnexpected'
  BY <1>1 DEF DemoInv, ReportsAddUp, NeverUnexpected
<1> QED BY Zenon, <1>4, <1>5, <1>6, <1>9, <1>10, <1>11 DEF ClientInv

-----------------------------------------------------------------------------
(* Steps that leave the chain and the block being built alone. *)

Quiet ==
    /\ account' = account /\ Sponsors' = Sponsors /\ xt' = xt
    /\ nonce' = nonce /\ deaths' = deaths
    /\ extrinsics' = extrinsics /\ current' = current /\ chain' = chain /\ final' = final

\* A step that touches neither the chain nor the block being built keeps every story.
LEMMA StoryUnchanged ==
    ASSUME Story, Quiet
    PROVE  Story' /\ Finalized' = Finalized
<1>1. /\ account' = account /\ Sponsors' = Sponsors /\ xt' = xt
      /\ nonce' = nonce /\ deaths' = deaths
      /\ extrinsics' = extrinsics /\ current' = current /\ chain' = chain /\ final' = final
      /\ Best' = Best /\ Finalized' = Finalized /\ due' = due /\ in_flight' = in_flight
  BY DEF Quiet, Best, Finalized, due, in_flight
<1>2. ChainStory'
  BY <1>1 DEF Story, ChainStory
<1>3. FinalStory'
  BY Zenon, <1>1 DEF Story, FinalStory
<1>4. HereStory'
  BY <1>1 DEF Story, HereStory, is_remark
<1>5. OneBudget'
  BY <1>1 DEF Story, OneBudget, BudgetTakenOnce, OnHold
<1>6. NobodyDies'
  BY <1>1 DEF Story, NobodyDies
<1> QED BY <1>1, <1>2, <1>3, <1>4, <1>5, <1>6 DEF Story

\* A block that stays where it is.
LEMMA FinalizedStays ==
    ASSUME PoolTypeOK, Finalized' = Finalized
    PROVE  FinalizedFollows
<1>1. Finalized.account \in [AccountId -> Account] /\ Finalized.nonce \in [AccountId -> Nat]
  BY FinalizedFacts, BlockFields
<1>2. Finalized.account[Alice]["free"] \in Nat
  BY <1>1, AccountFacts, Members
<1> QED BY <1>1, <1>2 DEF FinalizedFollows, Follows

\* Every extrinsic is the same as itself.
LEMMA SameItself == \A t : Same(t, t)
BY DEF Same

\* A step of the node that makes no new extrinsic and no extrinsic succeed.
LEMMA SubsetStep ==
    ASSUME DemoInv, PoolInv', Story', Undispatched', Sent' \subseteq Sent,
           Finalized' = Finalized, final' = final, UNCHANGED <<clientVars, signatures>>
    PROVE  DemoInv'
<1>1. /\ at' = at /\ step' = step /\ states' = states /\ paid' = paid /\ result' = result
      /\ signatures' = signatures /\ extrinsic' = extrinsic
  BY DEF clientVars
<1>2. Inherited
  BY SameItself DEF Inherited
<1>3. FirstSuccess
  BY <1>1 DEF FirstSuccess, ok_register, is_register
<1>4. FinalizedFollows
  BY FinalizedStays DEF DemoInv, PoolInv
<1>5. ClientWaits
  BY <1>1, SameItself DEF ClientWaits, DemoInv, ClientTypes
<1>6. ClientInv'
  BY <1>2, <1>3, <1>4, <1>5, ClientKept
<1> QED BY <1>6 DEF DemoInv, ClientInv

\* revalidate, maintain and initialize_block.
LEMMA QuietStep ==
    ASSUME DemoInv, PoolInv', Quiet, pool' \subseteq pool, UNCHANGED <<clientVars, signatures>>
    PROVE  DemoInv'
<1>1. Story' /\ Finalized' = Finalized
  BY StoryUnchanged DEF DemoInv
<1>2. at' = at /\ extrinsic' = extrinsic
  BY DEF clientVars
<1>3. Sent' \subseteq Sent
  BY <1>2 DEF Quiet, Sent, known, in_flight
<1>4. Undispatched'
  BY <1>2 DEF DemoInv, Undispatched, Quiet
<1> QED BY <1>1, <1>3, <1>4, SubsetStep DEF Quiet

\* An extrinsic of the node with the events of the dispatch or of the fee added.
LEMMA EventStep ==
    ASSUME DemoInv, PoolInv', Story', Undispatched', Inherited, FirstSuccess,
           Finalized' = Finalized, final' = final, UNCHANGED <<clientVars, signatures>>
    PROVE  DemoInv'
<1>1. /\ at' = at /\ step' = step /\ states' = states /\ paid' = paid /\ result' = result
      /\ signatures' = signatures /\ extrinsic' = extrinsic
  BY DEF clientVars
<1>2. FinalizedFollows
  BY FinalizedStays DEF DemoInv, PoolInv
<1>3. ClientWaits
  BY <1>1, SameItself DEF ClientWaits, DemoInv, ClientTypes
<1>4. ClientInv'
  BY <1>2, <1>3, ClientKept
<1> QED BY <1>4 DEF DemoInv, ClientInv

\* The numbers the story is about.
LEMMA HereTypes ==
    ASSUME DemoInv
    PROVE  /\ account \in [AccountId -> Account] /\ Best.account \in [AccountId -> Account]
           /\ account[Alice]["free"] \in Nat /\ OnHold(account[Alice]) \in Nat
           /\ Best.account[Alice]["free"] \in Nat /\ OnHold(Best.account[Alice]) \in Nat
           /\ xt.fee \in Nat /\ due \in Nat /\ HereStory
<1>1. PoolTypeOK /\ account \in [AccountId -> Account] /\ xt.fee \in Nat /\ HereStory
  BY DEF DemoInv, PoolInv, IInv, TypeOK, InFlight, Story
<1>2. Best.account \in [AccountId -> Account]
  BY <1>1, ChainFacts, BlockFields
<1>3. due \in Nat
  BY <1>1 DEF due, HereStory
<1> QED BY <1>1, <1>2, <1>3, AccountFacts, Members

-----------------------------------------------------------------------------
(* Steps of the chain. *)

\* Where no block is being built there is nothing to tell yet.
LEMMA FreshStory == Fresh => HereStory
<1> SUFFICES ASSUME Fresh PROVE HereStory
  OBVIOUS
<1>1. /\ account = Best.account /\ Sponsors = Best.Sponsors /\ nonce = Best.nonce
      /\ extrinsics = {} /\ current = None /\ xt.phase = "idle"
  BY DEF Fresh, PoolTypeOK
<1>2. account[Alice]["free"] \in Nat
  BY AccountFacts, Members DEF Fresh, PoolTypeOK, TypeOK
<1>3. due = 0 /\ in_flight = {}
  BY <1>1 DEF due, in_flight
<1>4. Follows(Best, account, Sponsors, nonce, due)
  BY <1>1, <1>2, <1>3 DEF Follows
<1>5. Explained(paused(Best.Sponsors), before(Best), account, Sponsors,
                extrinsics \cup in_flight, extrinsics)
  BY <1>1, <1>3 DEF Explained, before
<1> QED BY <1>1, <1>4, <1>5 DEF HereStory

\* The same after a step.
LEMMA FreshStoryNext == Fresh' => HereStory'
BY FreshStory, PTL

\* A finished block continues the story with what was told while it was built.
LEMMA FinalizeBlockStory ==
    ASSUME DemoInv, finalize_block, PoolInv'
    PROVE  Story' /\ Finalized' = Finalized
<1> DEFINE b == [account |-> account, Sponsors |-> Sponsors, nonce |-> nonce,
                 deaths |-> deaths, body |-> extrinsics]
           m == Len(chain)
<1>0. /\ xt.phase = "idle" /\ chain' = Append(chain, b) /\ building' = FALSE
      /\ extrinsics' = {} /\ account' = account /\ Sponsors' = Sponsors /\ xt' = xt
      /\ nonce' = nonce /\ deaths' = deaths /\ current' = current /\ final' = final
  BY DEF finalize_block
<1>1. /\ b.account = account /\ b.Sponsors = Sponsors /\ b.nonce = nonce /\ b.deaths = deaths
      /\ b.body = extrinsics
  OBVIOUS
<1> HIDE DEF b
<1>2. current = None /\ due = 0 /\ in_flight = {}
  BY <1>0 DEF DemoInv, PoolInv, CurrentInFlight, due, in_flight
<1>3. chain \in Seq(Block) /\ m \in Nat /\ m >= 1 /\ DOMAIN chain = 1 .. m /\ Best = chain[m]
      /\ Finalized = chain[1]
  <2>1. PoolTypeOK
    BY DEF DemoInv, PoolInv
  <2> QED BY <2>1, ChainFacts, FinalizedFacts DEF PoolTypeOK
<1>4. /\ Len(chain') = m + 1 /\ DOMAIN chain' = 1 .. m + 1 /\ chain'[m + 1] = b
      /\ \A i \in 1 .. m : chain'[i] = chain[i]
  BY <1>0, <1>3
<1> HIDE DEF m
<1>5. Finalized' = Finalized
  <2>1. PoolTypeOK' => (Finalized = chain[1])'
    BY FinalizedFacts, PTL
  <2> QED BY <1>3, <1>4, <2>1 DEF PoolInv
<1>6. FinalStory'
  BY Zenon, <1>0, <1>5 DEF DemoInv, Story, FinalStory
<1>7. /\ Follows(Best, account, Sponsors, nonce, 0)
      /\ Explained(paused(Best.Sponsors), before(Best), account, Sponsors, extrinsics, extrinsics)
  BY <1>2, HereTypes DEF HereStory
<1>8. ASSUME NEW i \in 2 .. m + 1
      PROVE  /\ Follows(chain'[i - 1], chain'[i].account, chain'[i].Sponsors, chain'[i].nonce, 0)
             /\ Explained(paused(chain'[i - 1].Sponsors), before(chain'[i - 1]),
                          chain'[i].account, chain'[i].Sponsors, chain'[i].body, chain'[i].body)
  <2>1. CASE i \in 2 .. m
    <3>1. chain'[i] = chain[i] /\ chain'[i - 1] = chain[i - 1]
      BY <1>3, <1>4, <2>1
    <3>2. ChainStory
      BY DEF DemoInv, Story
    <3> QED BY <2>1, <3>1, <3>2 DEF ChainStory, m
  <2>2. CASE i = m + 1
    <3>1. chain'[i] = b /\ chain'[i - 1] = Best
      BY <1>3, <1>4, <2>2
    <3> QED BY <1>1, <1>7, <3>1
  <2> QED BY <1>3, <2>1, <2>2
<1>9. ChainStory'
  BY <1>4, <1>8 DEF ChainStory
<1>10. OneBudget'
  <2>1. OnHold(account[Alice]) <= INITIAL_BUDGET
        /\ \A i \in 1 .. m : OnHold(chain[i].account[Alice]) <= INITIAL_BUDGET
    BY <1>3 DEF DemoInv, Story, OneBudget, BudgetTakenOnce
  <2>2. \A i \in 1 .. m + 1 : OnHold(chain'[i].account[Alice]) <= INITIAL_BUDGET
    BY <1>1, <1>3, <1>4, <2>1
  <2> QED BY <1>0, <1>4, <2>1, <2>2 DEF OneBudget, BudgetTakenOnce, OnHold
<1>11. HereStory'
  BY <1>0, <1>2, FreshStoryNext DEF PoolInv, Fresh
<1>12. NobodyDies'
  <2>1. \A a \in AccountId : deaths[a] = 0 /\ \A i \in 1 .. m : chain[i].deaths[a] = 0
    BY <1>3 DEF DemoInv, Story, NobodyDies
  <2>2. \A i \in 1 .. m + 1 : i \in 1 .. m \/ i = m + 1
    BY <1>3
  <2> QED BY <1>0, <1>1, <1>4, <2>1, <2>2 DEF NobodyDies
<1> QED BY <1>5, <1>6, <1>9, <1>10, <1>11, <1>12 DEF Story

\* Sealing a block keeps the invariant.
LEMMA FinalizeBlockDemoStep ==
    ASSUME DemoInv, PoolInv', finalize_block, UNCHANGED clientVars
    PROVE  DemoInv'
<1> DEFINE b == [account |-> account, Sponsors |-> Sponsors, nonce |-> nonce,
                 deaths |-> deaths, body |-> extrinsics]
<1>0. /\ xt.phase = "idle" /\ chain' = Append(chain, b) /\ xt' = xt
      /\ extrinsics' = {} /\ current' = current /\ final' = final /\ pool' \subseteq pool
      /\ signatures' = signatures /\ at' = at /\ extrinsic' = extrinsic
  BY DEF finalize_block, clientVars
<1>1. b.body = extrinsics
  OBVIOUS
<1> HIDE DEF b
<1>3. Story' /\ Finalized' = Finalized
  BY FinalizeBlockStory
<1>4. Undispatched'
  BY <1>0 DEF DemoInv, Undispatched
<1>5. Sent' \subseteq Sent
  <2>1. chain \in Seq(Block) /\ Len(chain) \in Nat
    BY DEF DemoInv, PoolInv, PoolTypeOK
  <2>2. \A i \in DOMAIN chain' : chain'[i].body = extrinsics \/ \E j \in DOMAIN chain : chain'[i] = chain[j]
    BY <1>0, <1>1, <2>1
  <2> QED BY <1>0, <2>2 DEF Sent, known, in_flight
<1> QED BY <1>0, <1>3, <1>4, <1>5, SubsetStep

\* A reorganisation goes back to an earlier point of the story.
LEMMA RetractStory ==
    ASSUME DemoInv, NEW k \in 1 .. Len(chain), retract(k), PoolInv'
    PROVE  Story' /\ Finalized' = Finalized
<1>0. /\ ~building /\ k < Len(chain) /\ chain' = SubSeq(chain, 1, k)
      /\ account' = chain[k].account /\ deaths' = chain[k].deaths
      /\ xt' = xt /\ building' = building
      /\ extrinsics' = extrinsics /\ current' = current /\ final' = final
  BY DEF retract
<1>1. extrinsics = {} /\ xt.phase = "idle" /\ current = None
  BY <1>0 DEF DemoInv, PoolInv, CurrentInFlight
<1>2. /\ chain \in Seq(Block) /\ Len(chain) \in Nat /\ DOMAIN chain = 1 .. Len(chain)
      /\ Finalized = chain[1]
  <2>1. PoolTypeOK
    BY DEF DemoInv, PoolInv
  <2> QED BY <2>1, FinalizedFacts DEF PoolTypeOK
<1>3. /\ Len(chain') = k /\ DOMAIN chain' = 1 .. k
      /\ \A i \in 1 .. k : chain'[i] = chain[i] /\ i \in DOMAIN chain
  BY <1>0, <1>2
<1>4. Finalized' = Finalized
  <2>1. PoolTypeOK' => (Finalized = chain[1])'
    BY FinalizedFacts, PTL
  <2> QED BY <1>2, <1>3, <2>1 DEF PoolInv
<1>5. FinalStory'
  BY Zenon, <1>0, <1>4 DEF DemoInv, Story, FinalStory
<1>6. ChainStory'
  <2>1. ChainStory /\ 2 .. k \subseteq 2 .. Len(chain)
    BY <1>0, <1>2 DEF DemoInv, Story
  <2>2. \A i \in 2 .. k : chain'[i] = chain[i] /\ chain'[i - 1] = chain[i - 1]
    BY <1>3
  <2> QED BY <1>3, <2>1, <2>2 DEF ChainStory
<1>7. OneBudget'
  <2>1. \A i \in DOMAIN chain : OnHold(chain[i].account[Alice]) <= INITIAL_BUDGET
    BY DEF DemoInv, Story, OneBudget, BudgetTakenOnce
  <2> QED BY <1>0, <1>2, <1>3, <2>1 DEF OneBudget, BudgetTakenOnce, OnHold
<1>8. HereStory'
  BY <1>0, <1>1, FreshStoryNext DEF PoolInv, Fresh
<1>9. NobodyDies'
  <2>1. \A a \in AccountId : \A i \in DOMAIN chain : chain[i].deaths[a] = 0
    BY DEF DemoInv, Story, NobodyDies
  <2> QED BY <1>0, <1>2, <1>3, <2>1 DEF NobodyDies
<1> QED BY <1>4, <1>5, <1>6, <1>7, <1>8, <1>9 DEF Story

\* A reorganisation returns extrinsics to the pool and keeps the invariant.
LEMMA RetractDemoStep ==
    ASSUME DemoInv, PoolInv', NEW k \in 1 .. Len(chain), retract(k), UNCHANGED clientVars
    PROVE  DemoInv'
<1>0. /\ ~building /\ k < Len(chain) /\ chain' = SubSeq(chain, 1, k)
      /\ pool' = pool \cup UNION {{unapplied(tx) : tx \in chain[i].body} : i \in k + 1 .. Len(chain)}
      /\ xt' = xt /\ extrinsics' = extrinsics /\ current' = current /\ final' = final
      /\ signatures' = signatures /\ at' = at /\ extrinsic' = extrinsic
  BY DEF retract, clientVars
<1>2. Story' /\ Finalized' = Finalized
  BY RetractStory
<1>3. chain \in Seq(Block) /\ Len(chain) \in Nat /\ DOMAIN chain = 1 .. Len(chain)
  BY DEF DemoInv, PoolInv, PoolTypeOK
<1>4. \A t \in pool' : t \in pool \/ \E u \in Sent : Same(t, u) /\ ~t.ok
  <2> SUFFICES ASSUME NEW i \in k + 1 .. Len(chain), NEW u \in chain[i].body
               PROVE  u \in Sent /\ Same(unapplied(u), u) /\ ~unapplied(u).ok
    BY <1>0
  <2>1. i \in DOMAIN chain
    BY <1>3
  <2>2. u \in SignedExtrinsic
    BY <2>1, ChainFacts, BlockFields DEF DemoInv, PoolInv
  <2>3. u \in Sent /\ u.life = 0
    BY <2>1, SentParts, SentFacts DEF DemoInv
  <2> QED BY <2>2, <2>3 DEF unapplied, Same, SignedExtrinsic
<1>5. \A t \in Sent' : t \in Sent \/ \E u \in Sent : Same(t, u) /\ ~t.ok
  <2>1. \A i \in DOMAIN chain' : i \in DOMAIN chain /\ chain'[i] = chain[i]
    BY <1>0, <1>3
  <2> QED BY <1>0, <1>4, <2>1 DEF Sent, known, in_flight
<1>6. Inherited
  BY <1>5, SameItself DEF Inherited
<1>7. FirstSuccess
  BY <1>0, <1>5 DEF FirstSuccess, ok_register, is_register
<1>8. Undispatched'
  BY <1>0, <1>4 DEF DemoInv, Undispatched
<1> QED BY <1>0, <1>2, <1>6, <1>7, <1>8, EventStep

\* What the events of an extrinsic say, whatever its age.
alike(t, u) == t.call = u.call /\ t.ok = u.ok /\ t.paid = u.paid

Alike(D, E) ==
    /\ \A t \in D : \E u \in E : alike(t, u)
    /\ \A u \in E : \E t \in D : alike(t, u)

\* Age explains nothing.
LEMMA ExplainedAlike ==
    ASSUME NEW D, NEW E, Alike(D, E), NEW wp, NEW hold, NEW acc, NEW s,
           Explained(wp, hold, acc, s, E, E)
    PROVE  Explained(wp, hold, acc, s, D, D)
<1>1. paused(s) => wp \/ \E t \in D : is_pause(t)
  <2>1. paused(s) => wp \/ \E u \in E : is_pause(u)
    BY Zenon DEF Explained
  <2>2. \A u \in E : is_pause(u) => \E t \in D : is_pause(t)
    BY Zenon DEF Alike, alike, is_pause
  <2> QED BY Zenon, <2>1, <2>2
<1>2. \A t \in D : t.ok =>
         (is_register(t) => registered(s)) /\ (is_pause(t) => paused(s))
  BY DEF Explained, Alike, alike, is_pause, is_register
<1>3. ASSUME registered(s)
      PROVE  /\ (\A t \in D : ~is_remark(t)) => OnHold(acc[Alice]) = hold
             /\ \A t \in D : is_remark(t) => OnHold(acc[Alice]) + t.paid = hold
  BY <1>3 DEF Explained, Alike, alike, is_remark
<1> QED BY <1>1, <1>2, <1>3 DEF Explained

\* While nobody is reaped, nonces grow along the chain, and an extrinsic has the nonce its
\* signer had before it.
LEMMA PlainNonces ==
    ASSUME DemoInv
    PROVE  /\ \A i, j \in DOMAIN chain : i <= j =>
                 \A a \in AccountId : chain[i].nonce[a] <= chain[j].nonce[a]
           /\ \A i \in DOMAIN chain : \A t \in applied(i) : t.nonce < chain[i].nonce[t.signer]
           /\ \A i \in 2 .. Len(chain) : \A t \in chain[i].body :
                 chain[i - 1].nonce[t.signer] <= t.nonce
           /\ \A t \in extrinsics : Best.nonce[t.signer] <= t.nonce /\ t.nonce < nonce[t.signer]
           /\ \A a \in AccountId : Best.nonce[a] <= nonce[a]
<1>0. PoolTypeOK /\ NoncesGrow /\ NoncesGrowHere /\ NobodyDies /\ ScriptOnly /\ ClientTypes
  BY DEF DemoInv, PoolInv, Story
<1>1. \A t \in Sent : t.life = 0 /\ t.nonce \in Nat /\ t.signer \in AccountId
  BY <1>0, SentFacts, SentSigned, SignedFields
<1>2. /\ \A i \in DOMAIN chain : \A a \in AccountId :
            chain[i].deaths[a] = 0 /\ chain[i].nonce[a] \in Nat
      /\ \A a \in AccountId : deaths[a] = 0 /\ nonce[a] \in Nat
  <2>1. \A i \in DOMAIN chain : chain[i].nonce \in [AccountId -> Nat]
    BY <1>0, ChainFacts, BlockFields
  <2>2. nonce \in [AccountId -> Nat]
    BY <1>0 DEF PoolTypeOK
  <2> QED BY <1>0, <2>1, <2>2 DEF NobodyDies
<1>3. here.nonce = nonce /\ here.deaths = deaths
  BY DEF here
<1>4. Best = chain[Len(chain)] /\ Len(chain) \in DOMAIN chain /\ DOMAIN chain = 1 .. Len(chain)
      /\ Len(chain) \in Nat
  BY <1>0, ChainFacts
<1>5. \A i \in DOMAIN chain : applied(i) \subseteq Sent
  BY SentParts DEF applied
<1>6. \A n, m \in Nat : not_after(0, n, 0, m) => n <= m
  BY DEF not_after
<1>7. \A i, j \in DOMAIN chain : i <= j =>
          \A a \in AccountId : chain[i].nonce[a] <= chain[j].nonce[a]
  BY <1>0, <1>2, <1>6 DEF NoncesGrow, grows
<1>8. ASSUME NEW i \in DOMAIN chain, NEW t \in applied(i)
      PROVE  t.nonce < chain[i].nonce[t.signer]
  <2>1. t.life = 0 /\ t.nonce \in Nat /\ t.signer \in AccountId
    BY <1>1, <1>5
  <2>2. used_by(t, chain[i])
    BY <1>0 DEF NoncesGrow
  <2>3. not_after(0, t.nonce + 1, 0, chain[i].nonce[t.signer])
    BY <1>2, <2>1, <2>2 DEF used_by
  <2> QED BY <1>2, <2>1, <2>3 DEF not_after
<1>9. ASSUME NEW i \in 2 .. Len(chain), NEW t \in chain[i].body
      PROVE  chain[i - 1].nonce[t.signer] <= t.nonce
  <2>1. i \in DOMAIN chain /\ i - 1 \in DOMAIN chain
    BY <1>4
  <2>2. t.life = 0 /\ t.nonce \in Nat /\ t.signer \in AccountId
    BY <1>1, <2>1, SentParts
  <2>3. unused_at(t, chain[i - 1])
    BY <1>0 DEF NoncesGrow
  <2>4. not_after(0, chain[i - 1].nonce[t.signer], 0, t.nonce)
    BY <1>2, <2>1, <2>2, <2>3 DEF unused_at
  <2> QED BY <1>2, <2>1, <2>2, <2>4 DEF not_after
<1>10. ASSUME NEW t \in extrinsics
       PROVE  Best.nonce[t.signer] <= t.nonce /\ t.nonce < nonce[t.signer]
  <2>1. t.life = 0 /\ t.nonce \in Nat /\ t.signer \in AccountId
    BY <1>1, SentParts
  <2>2. unused_at(t, Best) /\ used_by(t, here)
    BY <1>0 DEF NoncesGrowHere
  <2>3. /\ not_after(0, Best.nonce[t.signer], 0, t.nonce)
        /\ not_after(0, t.nonce + 1, 0, nonce[t.signer])
    BY <1>2, <1>3, <1>4, <2>1, <2>2 DEF used_by, unused_at
  <2> QED BY <1>2, <1>4, <2>1, <2>3 DEF not_after
<1>11. \A a \in AccountId : Best.nonce[a] <= nonce[a]
  BY <1>0, <1>2, <1>3, <1>4, <1>6 DEF NoncesGrowHere, grows
<1> QED BY <1>7, <1>8, <1>9, <1>10, <1>11

\* The remark of the script is finalized once.
LEMMA OneRemark ==
    ASSUME DemoInv, Len(chain) > 1, NEW t \in final, is_remark(t),
           NEW u \in chain[2].body, is_remark(u)
    PROVE  FALSE
<1>0. PoolTypeOK /\ ChainStory /\ ScriptOrder
  BY DEF DemoInv, PoolInv, Story
<1>1. /\ Finalized = chain[1] /\ 1 \in DOMAIN chain /\ 2 \in DOMAIN chain
      /\ 2 \in 2 .. Len(chain) /\ applied(1) = final /\ applied(2) = chain[2].body
      /\ chain[1] \in Block /\ chain[2] \in Block /\ 2 - 1 = 1
  BY <1>0, FinalizedFacts, ChainFacts DEF applied
<1>2. t \in Sent /\ u \in Sent
  BY <1>1, SentParts
<1>3. t.signer = Bob /\ u.signer = Bob
  BY <1>2, SentFacts DEF DemoInv, OfScript
<1>4. t.nonce \in Nat /\ u.nonce \in Nat
  BY <1>2, SentSigned, SignedFields DEF DemoInv, PoolInv
<1>5. /\ t.nonce < chain[1].nonce[Bob] /\ u.nonce < chain[2].nonce[Bob]
      /\ chain[1].nonce[Bob] <= u.nonce
  BY <1>1, <1>3, PlainNonces
<1>6. chain[1].nonce[Bob] \in Nat /\ chain[2].nonce[Bob] \in Nat
  BY <1>1, BlockFields, Members
<1>7. CASE paused(Finalized.Sponsors)
  <2>1. chain[2].nonce[Bob] = chain[1].nonce[Bob]
    BY Zenon, <1>0, <1>1, <1>7 DEF ChainStory, Follows
  <2> QED BY <1>4, <1>5, <1>6, <2>1
<1>8. CASE Same(t, u)
  BY <1>4, <1>5, <1>6, <1>8 DEF Same
<1> QED BY <1>0, <1>2, <1>7, <1>8 DEF ScriptOrder

\* The story of a finalized block and that of its child make one.
LEMMA StoryExtends ==
    ASSUME DemoInv, Len(chain) > 1
    PROVE  Explained(FALSE, INITIAL_BUDGET, chain[2].account, chain[2].Sponsors,
                     final \cup chain[2].body, final \cup chain[2].body)
<1> DEFINE s == chain[2].Sponsors
           E == final \cup chain[2].body
           held == OnHold(chain[2].account[Alice])
<1>0. PoolTypeOK /\ ChainStory /\ FinalStory /\ ScriptOrder
  BY DEF DemoInv, PoolInv, Story
<1>1. /\ Finalized = chain[1] /\ 2 \in DOMAIN chain /\ 2 \in 2 .. Len(chain) /\ 2 - 1 = 1
      /\ Len(chain) \in Nat
  BY <1>0, FinalizedFacts
<1>2. /\ Follows(Finalized, chain[2].account, s, chain[2].nonce, 0)
      /\ Explained(paused(Finalized.Sponsors), before(Finalized), chain[2].account, s,
                   chain[2].body, chain[2].body)
  BY <1>0, <1>1 DEF ChainStory
<1>3. Explained(FALSE, INITIAL_BUDGET, Finalized.account, Finalized.Sponsors, final, final)
  BY Zenon, <1>0 DEF FinalStory
<1>4. /\ registered(Finalized.Sponsors) => registered(s)
      /\ paused(Finalized.Sponsors) => paused(s)
  BY Zenon, <1>2 DEF Follows
<1>5. paused(s) => \E t \in E : is_pause(t)
  BY Zenon, <1>2, <1>3 DEF Explained
<1>6. \A t \in E : t.ok => (is_register(t) => registered(s)) /\ (is_pause(t) => paused(s))
  BY Zenon, <1>2, <1>3, <1>4 DEF Explained
<1>7. ASSUME registered(s)
      PROVE  /\ (\A t \in E : ~is_remark(t)) => held = INITIAL_BUDGET
             /\ \A t \in E : is_remark(t) => held + t.paid = INITIAL_BUDGET
  <2>1. /\ (\A t \in chain[2].body : ~is_remark(t)) => held = before(Finalized)
        /\ \A t \in chain[2].body : is_remark(t) => held + t.paid = before(Finalized)
    BY <1>2, <1>7 DEF Explained
  <2>2. CASE ~registered(Finalized.Sponsors)
    <3>1. \A t \in E : t \in Sent
      BY <1>1, SentParts
    <3>2. \A t \in E : is_register(t) /\ ~is_remark(t)
      BY <1>0, <2>2, <3>1 DEF ScriptOrder, only_registers, is_register, is_remark
    <3> QED BY <2>1, <2>2, <3>2 DEF before
  <2>3. CASE registered(Finalized.Sponsors)
    <3> DEFINE old == OnHold(Finalized.account[Alice])
    <3>1. before(Finalized) = old
      BY <2>3 DEF before
    <3>2. /\ (\A t \in final : ~is_remark(t)) => old = INITIAL_BUDGET
          /\ \A t \in final : is_remark(t) => old + t.paid = INITIAL_BUDGET
      BY <1>3, <2>3 DEF Explained
    <3>3. \A t \in final, u \in chain[2].body : ~(is_remark(t) /\ is_remark(u))
      BY OneRemark
    <3> HIDE DEF old, held
    <3> QED BY <2>1, <3>1, <3>2, <3>3
  <2> QED BY <2>2, <2>3
<1> QED BY <1>5, <1>6, <1>7 DEF Explained

\* Ageing extrinsics and the ones of a finalized block.
final_again(tx) == [tx EXCEPT !.age = 0]

\* Growing older changes neither what an extrinsic is nor what it did.
LEMMA AgeFacts ==
    ASSUME NEW tx \in SignedExtrinsic
    PROVE  /\ Same(older(tx), tx) /\ alike(older(tx), tx)
           /\ Same(final_again(tx), tx) /\ alike(final_again(tx), tx)
<1>1. Same(older(tx), tx) /\ alike(older(tx), tx)
  BY OlderFields DEF Same, alike
<1>2. Same(final_again(tx), tx) /\ alike(final_again(tx), tx)
  BY DEF Same, alike, final_again, SignedExtrinsic
<1> QED BY <1>1, <1>2

\* Finalizing drops the oldest block: every other one moves down by one place.
LEMMA FinalizedChain ==
    ASSUME DemoInv, finalize, PoolInv'
    PROVE  /\ Len(chain) \in Nat /\ Len(chain) > 1 /\ DOMAIN chain = 1 .. Len(chain)
           /\ Len(chain') = Len(chain) - 1 /\ DOMAIN chain' = 1 .. Len(chain) - 1
           /\ \A i \in 1 .. Len(chain) - 1 :
                 /\ i + 1 \in DOMAIN chain
                 /\ chain'[i].account = chain[i + 1].account
                 /\ chain'[i].Sponsors = chain[i + 1].Sponsors
                 /\ chain'[i].nonce = chain[i + 1].nonce
                 /\ chain'[i].deaths = chain[i + 1].deaths
                 /\ chain'[i].body = aged(chain[i + 1].body)
                 /\ chain[i + 1].body \subseteq SignedExtrinsic
           /\ Finalized' = chain'[1] /\ Finalized = chain[1]
           /\ final' = final \cup {final_again(tx) : tx \in chain[2].body}
           /\ final \subseteq SignedExtrinsic
<1>0. /\ Len(chain) > 1
      /\ chain' = [i \in 1 .. Len(chain) - 1 |-> [chain[i + 1] EXCEPT !.body = aged(@)]]
      /\ final' = final \cup {final_again(tx) : tx \in chain[2].body}
  BY DEF finalize, aged, final_again
<1>1. PoolTypeOK /\ final \subseteq SignedExtrinsic
  BY DEF DemoInv, PoolInv, PoolTypeOK
<1>2. Len(chain) \in Nat /\ DOMAIN chain = 1 .. Len(chain) /\ Finalized = chain[1]
      /\ \A i \in DOMAIN chain : chain[i] \in Block
  BY <1>1, FinalizedFacts, ChainFacts
<1>3. DOMAIN chain' = 1 .. Len(chain) - 1 /\ Len(chain') = Len(chain) - 1
  <2>1. PoolTypeOK' => (Len(chain) \in Nat /\ DOMAIN chain = 1 .. Len(chain))'
    BY FinalizedFacts, PTL
  <2>2. Len(chain') \in Nat /\ DOMAIN chain' = 1 .. Len(chain')
    BY <2>1 DEF PoolInv
  <2>3. DOMAIN chain' = 1 .. Len(chain) - 1
    BY <1>0
  <2> QED BY <1>0, <1>2, <2>2, <2>3
<1>4. ASSUME NEW i \in 1 .. Len(chain) - 1
      PROVE  /\ i + 1 \in DOMAIN chain
             /\ chain'[i].account = chain[i + 1].account
             /\ chain'[i].Sponsors = chain[i + 1].Sponsors
             /\ chain'[i].nonce = chain[i + 1].nonce
             /\ chain'[i].deaths = chain[i + 1].deaths
             /\ chain'[i].body = aged(chain[i + 1].body)
             /\ chain[i + 1].body \subseteq SignedExtrinsic
  <2>1. i + 1 \in DOMAIN chain
    BY <1>2
  <2>2. chain[i + 1] \in Block
    BY <1>2, <2>1
  <2>3. chain'[i] = [chain[i + 1] EXCEPT !.body = aged(@)]
    BY <1>0
  <2> QED BY <2>1, <2>2, <2>3, BlockFields DEF Block
<1>5. Finalized' = chain'[1]
  <2>1. PoolTypeOK' => (Finalized = chain[1])'
    BY FinalizedFacts, PTL
  <2> QED BY <2>1 DEF PoolInv
<1> QED BY Zenon, <1>0, <1>1, <1>2, <1>3, <1>4, <1>5

\* The oldest block becomes the last finalized one.
LEMMA FinalizeStory ==
    ASSUME DemoInv, finalize, PoolInv'
    PROVE  Story' /\ FinalizedFollows
<1>0. /\ ~building /\ account' = account /\ xt' = xt /\ building' = building
      /\ extrinsics' = extrinsics /\ current' = current /\ deaths' = deaths
  BY DEF finalize, vars
<1>1. extrinsics = {} /\ xt.phase = "idle" /\ current = None
  BY <1>0 DEF DemoInv, PoolInv, CurrentInFlight
<1>2. HereStory'
  BY <1>0, <1>1, FreshStoryNext DEF PoolInv, Fresh
<1> DEFINE m == Len(chain)
<1>3. /\ m \in Nat /\ m > 1 /\ DOMAIN chain = 1 .. m
      /\ Len(chain') = m - 1 /\ DOMAIN chain' = 1 .. m - 1
      /\ \A i \in 1 .. m - 1 :
            /\ i + 1 \in DOMAIN chain
            /\ chain'[i].account = chain[i + 1].account
            /\ chain'[i].Sponsors = chain[i + 1].Sponsors
            /\ chain'[i].nonce = chain[i + 1].nonce
            /\ chain'[i].deaths = chain[i + 1].deaths
            /\ chain'[i].body = aged(chain[i + 1].body)
            /\ chain[i + 1].body \subseteq SignedExtrinsic
      /\ Finalized' = chain'[1] /\ Finalized = chain[1]
      /\ final' = final \cup {final_again(tx) : tx \in chain[2].body}
      /\ final \subseteq SignedExtrinsic
  BY Zenon, FinalizedChain
<1>4. ChainStory
  BY DEF DemoInv, Story
<1>5. ASSUME NEW i \in 2 .. m - 1
      PROVE  /\ Follows(chain'[i - 1], chain'[i].account, chain'[i].Sponsors, chain'[i].nonce, 0)
             /\ Explained(paused(chain'[i - 1].Sponsors), before(chain'[i - 1]),
                          chain'[i].account, chain'[i].Sponsors, chain'[i].body, chain'[i].body)
  <2>1. i + 1 \in 2 .. m /\ (i + 1) - 1 = i /\ i \in 1 .. m - 1 /\ i - 1 \in 1 .. m - 1
        /\ (i - 1) + 1 = i
    BY <1>3
  <2>2. /\ Follows(chain[i], chain[i + 1].account, chain[i + 1].Sponsors, chain[i + 1].nonce, 0)
        /\ Explained(paused(chain[i].Sponsors), before(chain[i]), chain[i + 1].account,
                     chain[i + 1].Sponsors, chain[i + 1].body, chain[i + 1].body)
    BY <1>4, <2>1 DEF ChainStory
  <2>3. /\ chain'[i - 1].account = chain[i].account
        /\ chain'[i - 1].Sponsors = chain[i].Sponsors
        /\ chain'[i - 1].nonce = chain[i].nonce
    BY <1>3, <2>1
  <2>4. /\ chain'[i].account = chain[i + 1].account
        /\ chain'[i].Sponsors = chain[i + 1].Sponsors
        /\ chain'[i].nonce = chain[i + 1].nonce
        /\ chain'[i].body = aged(chain[i + 1].body)
        /\ chain[i + 1].body \subseteq SignedExtrinsic
    BY <1>3, <2>1
  <2>5. Alike(aged(chain[i + 1].body), chain[i + 1].body)
    BY <2>4, AgeFacts DEF Alike, aged
  <2>6. Explained(paused(chain[i].Sponsors), before(chain[i]), chain[i + 1].account,
                  chain[i + 1].Sponsors, aged(chain[i + 1].body), aged(chain[i + 1].body))
    BY <2>2, <2>5, ExplainedAlike
  <2>7. before(chain'[i - 1]) = before(chain[i])
    BY <2>3 DEF before
  <2>8. Follows(chain'[i - 1], chain[i + 1].account, chain[i + 1].Sponsors, chain[i + 1].nonce, 0)
    BY Zenon, <2>2, <2>3 DEF Follows
  <2> QED BY <2>3, <2>4, <2>6, <2>7, <2>8
<1>6. ChainStory'
  BY Zenon, <1>3, <1>5 DEF ChainStory
<1>7. 1 \in 1 .. m - 1 /\ 1 + 1 = 2 /\ 2 \in 2 .. m /\ 2 - 1 = 1
  BY <1>3
<1>8. /\ Finalized'.account = chain[2].account /\ Finalized'.Sponsors = chain[2].Sponsors
      /\ Finalized'.nonce = chain[2].nonce /\ chain[2].body \subseteq SignedExtrinsic
      /\ 2 \in DOMAIN chain /\ 1 \in DOMAIN chain
  BY <1>3, <1>7
<1>9. FinalStory'
  <2>1. Alike(final', final \cup chain[2].body)
    <3>1. \A t : alike(t, t)
      BY DEF alike
    <3>2. \A u \in chain[2].body : alike(final_again(u), u)
      BY <1>8, AgeFacts
    <3> QED BY <1>3, <3>1, <3>2 DEF Alike
  <2>2. Explained(FALSE, INITIAL_BUDGET, chain[2].account, chain[2].Sponsors, final', final')
    BY Zenon, <1>3, <2>1, StoryExtends, ExplainedAlike
  <2> QED BY Zenon, <1>8, <2>2 DEF FinalStory
<1>10. OneBudget'
  <2>1. \A i \in 1 .. m : OnHold(chain[i].account[Alice]) <= INITIAL_BUDGET
    BY <1>3 DEF DemoInv, Story, OneBudget, BudgetTakenOnce
  <2>2. \A i \in 1 .. m - 1 : OnHold(chain'[i].account[Alice]) <= INITIAL_BUDGET
    BY <1>3, <2>1
  <2>3. OnHold(account'[Alice]) <= INITIAL_BUDGET
    BY <1>0 DEF DemoInv, Story, OneBudget
  <2>4. \A i \in DOMAIN chain' : OnHold(chain'[i].account[Alice]) <= INITIAL_BUDGET
    BY <1>3, <2>2
  <2>5. BudgetTakenOnce'
    BY <2>4 DEF BudgetTakenOnce, OnHold
  <2> QED BY <2>3, <2>5 DEF OneBudget, OnHold
<1>11. FinalizedFollows
  <2>1. Follows(Finalized, chain[2].account, chain[2].Sponsors, chain[2].nonce, 0)
    BY Zenon, <1>3, <1>4, <1>7 DEF ChainStory
  <2>3. \A a \in AccountId : chain[1].nonce[a] <= chain[2].nonce[a]
    <3>1. \A i, j \in DOMAIN chain : i <= j =>
             \A a \in AccountId : chain[i].nonce[a] <= chain[j].nonce[a]
      BY Zenon, PlainNonces
    <3>2. 1 <= 2
      OBVIOUS
    <3> QED BY Zenon, <1>8, <3>1, <3>2
  <2> QED BY <1>3, <1>8, <2>1, <2>3 DEF FinalizedFollows
<1>12. NobodyDies'
  <2>1. \A a \in AccountId : deaths[a] = 0 /\ \A i \in DOMAIN chain : chain[i].deaths[a] = 0
    BY DEF DemoInv, Story, NobodyDies
  <2> QED BY <1>0, <1>3, <2>1 DEF NobodyDies
<1> QED BY <1>2, <1>6, <1>9, <1>10, <1>11, <1>12 DEF Story

\* Finality advances and every mortal extrinsic ages, the client's own included.
LEMMA FinalizeDemoStep ==
    ASSUME DemoInv, PoolInv', Finalize
    PROVE  DemoInv'
<1>0. /\ finalize /\ pool' = aged(pool) /\ xt' = xt /\ ~building
      /\ extrinsics' = extrinsics /\ current' = current /\ signatures' = signatures
      /\ at' = at /\ step' = step /\ states' = states /\ paid' = paid /\ result' = result
      /\ extrinsic' = IF at = "submit" THEN older(extrinsic) ELSE extrinsic
  BY DEF Finalize, finalize, aged, vars
<1>2. Story' /\ FinalizedFollows
  BY <1>0, FinalizeStory
<1>3. /\ DOMAIN chain' = 1 .. Len(chain) - 1 /\ Len(chain) \in Nat /\ Len(chain) > 1
      /\ \A i \in 1 .. Len(chain) - 1 :
            /\ i + 1 \in DOMAIN chain /\ chain'[i].body = aged(chain[i + 1].body)
            /\ chain[i + 1].body \subseteq SignedExtrinsic
      /\ final' = final \cup {final_again(tx) : tx \in chain[2].body}
  BY Zenon, <1>0, FinalizedChain
<1>4. extrinsics = {} /\ current = None
  BY <1>0 DEF DemoInv, PoolInv, CurrentInFlight
<1>5. pool \subseteq SignedExtrinsic /\ (at \in {"submit", "watch"} => extrinsic \in SignedExtrinsic)
  BY DEF DemoInv, PoolInv, PoolTypeOK, ClientTypes
<1>6. ClientWaits
  <2>1. CASE at = "submit"
    BY <1>0, <1>5, <2>1, AgeFacts, OlderFields DEF ClientWaits
  <2>2. CASE at # "submit"
    BY <1>0, <1>5, <2>2, SameItself DEF ClientWaits
  <2> QED BY <2>1, <2>2
<1>7. ASSUME NEW t \in Sent' PROVE \E u \in Sent : Same(t, u) /\ t.ok = u.ok
  <2>1. CASE t \in pool'
    <3>1. PICK u \in pool : t = older(u)
      BY <1>0, <2>1 DEF aged
    <3>2. u \in Sent /\ u \in SignedExtrinsic
      BY <1>5, SentParts
    <3> QED BY <3>1, <3>2, AgeFacts DEF alike
  <2>2. CASE t \in final'
    <3>1. CASE t \in final
      BY <3>1, SentParts, SameItself
    <3>2. CASE \E u \in chain[2].body : t = final_again(u)
      <4>1. PICK u \in chain[2].body : t = final_again(u)
        BY <3>2
      <4>2. 1 \in 1 .. Len(chain) - 1 /\ 1 + 1 = 2
        BY <1>3
      <4>3. u \in SignedExtrinsic /\ u \in Sent
        BY <1>3, <4>2, SentParts
      <4> QED BY <4>1, <4>3, AgeFacts DEF alike
    <3> QED BY <1>3, <2>2, <3>1, <3>2
  <2>3. CASE \E i \in DOMAIN chain' : t \in chain'[i].body
    <3>1. PICK i \in 1 .. Len(chain) - 1 : t \in chain'[i].body
      BY <1>3, <2>3
    <3>2. PICK u \in chain[i + 1].body : t = older(u)
      BY <1>3, <3>1 DEF aged
    <3>3. u \in SignedExtrinsic /\ u \in Sent
      BY Zenon, <1>3, SentParts
    <3> QED BY <3>2, <3>3, AgeFacts DEF alike
  <2>4. CASE at = "submit" /\ t = older(extrinsic)
    <3>1. extrinsic \in Sent
      BY <2>4 DEF Sent
    <3> QED BY <1>5, <2>4, <3>1, AgeFacts DEF alike
  <2>5. \/ t \in pool' \/ t \in final' \/ \E i \in DOMAIN chain' : t \in chain'[i].body
        \/ at = "submit" /\ t = older(extrinsic)
    BY <1>0, <1>4 DEF Sent, known, in_flight
  <2> QED BY <2>1, <2>2, <2>3, <2>4, <2>5
<1>8. Inherited
  BY <1>7 DEF Inherited
<1>9. FirstSuccess
  BY <1>0, <1>7, SameKind DEF FirstSuccess, ok_register, Same, is_register
<1>10. Undispatched'
  <2>1. \A t \in pool' : ~t.ok
    BY Zenon, <1>0, <1>5, AgeFacts DEF aged, alike, DemoInv, Undispatched
  <2>2. at = "submit" => ~older(extrinsic).ok
    BY <1>5, AgeFacts DEF alike, DemoInv, Undispatched
  <2>3. xt.phase # "prepared"
    BY <1>0 DEF DemoInv, PoolInv, CurrentInFlight
  <2> QED BY <1>0, <2>1, <2>2, <2>3 DEF Undispatched
<1>11. final \subseteq final'
  BY <1>3
<1>12. ClientInv'
  BY Zenon, <1>2, <1>6, <1>8, <1>9, <1>11, ClientKept
<1> QED BY <1>2, <1>10, <1>12 DEF DemoInv, ClientInv

\* Before the first run the chain is at genesis and nothing was sent.
LEMMA GenesisStory ==
    ASSUME DemoInit, PoolInv
    PROVE  DemoInv
<1>0. PoolInit /\ at = "down" /\ step = 1
  BY DEF DemoInit
<1>1. states = <<>> /\ result = "None"
  BY DEF DemoInit
<1>2. /\ Init /\ building = FALSE /\ extrinsics = {} /\ current = None /\ final = {} /\ pool = {}
      /\ deaths = [a \in AccountId |-> 0]
      /\ chain = <<[account |-> account, Sponsors |-> Sponsors, nonce |-> nonce,
                     deaths |-> deaths, body |-> {}]>>
  BY <1>0 DEF PoolInit
<1>3. /\ Len(chain) = 1 /\ DOMAIN chain = {1} /\ chain[1].body = {}
      /\ chain[1].deaths = deaths /\ chain[1].account = account /\ chain[1].Sponsors = Sponsors /\ Finalized = chain[1]
  BY <1>2 DEF Finalized
<1>4. Sent = {} /\ xt.phase = "idle"
  BY <1>0, <1>2, <1>3 DEF Sent, known, in_flight, Init, Idle
<1>5. OnHold(account[Alice]) = 0 /\ ~registered(Sponsors)
  BY <1>2, Members DEF Init, Endowed, OnHold, HoldReason, registered
<1>6. ~paused(Sponsors)
  BY <1>5 DEF registered, paused
<1>7. ChainStory /\ FinalStory
  <2>1. ChainStory
    BY <1>3 DEF ChainStory
  <2>2. ~registered(Finalized.Sponsors) /\ ~paused(Finalized.Sponsors) /\ final = {}
    BY <1>2, <1>3, <1>5, <1>6
  <2>3. FinalStory
    BY <2>2 DEF FinalStory, Explained
  <2> QED BY <2>1, <2>3
<1>8. HereStory
  BY <1>2, <1>4, FreshStory DEF Fresh, PoolInv
<1>9. OneBudget
  BY <1>3, <1>5, Members DEF OneBudget, BudgetTakenOnce
<1>10. ScriptOnly /\ Undispatched
  BY <1>0, <1>2, <1>4 DEF ScriptOnly, Undispatched
<1>11. ClientTypes /\ RunSlots
  <2>1. ClientTypes
    BY <1>0 DEF ClientTypes
  <2>2. RunSlots
    BY <1>0, <1>4 DEF RunSlots
  <2> QED BY <2>1, <2>2
<1>12. ScriptOrder
  BY <1>0, <1>4 DEF ScriptOrder, only_registers
<1>13. FirstReport
  BY <1>0, <1>1 DEF FirstReport
<1>14. ReportsAddUp /\ NeverUnexpected
  BY <1>1 DEF ReportsAddUp, NeverUnexpected
<1>15. NobodyDies
  BY <1>2, <1>3 DEF NobodyDies
<1> QED BY Zenon, <1>7, <1>8, <1>9, <1>10, <1>11, <1>12, <1>13, <1>14, <1>15 DEF DemoInv, Story
=============================================================================
