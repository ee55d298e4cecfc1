--------------------------- MODULE DemoClientSteps --------------------------
(* What the steps of the client make of its invariant, given that they keep the *)
(* invariant of the pool and the chain.                                         *)
EXTENDS DemoClientChain

\* The contexts are large: a leaf that names no prover is given to Zenon, whose translation is
\* the lightest, then to the SMT solver and to Z3 under its own name.
USE ZenonT(3), SMTT(20), Z3T(20)

-----------------------------------------------------------------------------
(* The steps of the client. *)

\* The node waits while the client takes a step.
LEMMA NodeWaits ==
    ASSUME DemoInv, UNCHANGED <<vars, chainVars>>
    PROVE  /\ Story' /\ Finalized' = Finalized /\ Quiet
           /\ final' = final /\ chain' = chain /\ extrinsics' = extrinsics
           /\ current' = current /\ xt' = xt
<1>1. Quiet
  BY DEF Quiet, vars, chainVars
<1>2. Story' /\ Finalized' = Finalized
  BY <1>1, StoryUnchanged DEF DemoInv
<1> QED BY <1>1, <1>2 DEF Quiet

\* The same where the pool gets nothing.
LEMMA PoolWaits ==
    ASSUME DemoInv, UNCHANGED poolVars
    PROVE  /\ Story' /\ Finalized' = Finalized /\ final' = final
           /\ chain' = chain /\ extrinsics' = extrinsics /\ current' = current /\ xt' = xt
           /\ pool' = pool /\ signatures' = signatures
<1>1. UNCHANGED <<vars, chainVars>> /\ pool' = pool /\ signatures' = signatures
  BY DEF poolVars
<1> QED BY <1>1, NodeWaits

\* A new run starts with nothing signed.
LEMMA ConnectStep ==
    ASSUME DemoInv, PoolInv', connect
    PROVE  DemoInv'
<1>0. /\ at = "down" /\ signatures' = signatures + 1 /\ at' = "query" /\ step' = 1
      /\ states' = <<>> /\ result' = "None" /\ pool' = pool
      /\ UNCHANGED <<vars, chainVars>>
  BY DEF connect
<1>1. signatures \in Nat /\ pool \subseteq SignedExtrinsic
  BY DEF DemoInv, PoolInv, PoolTypeOK
<1>2. /\ PoolInv' /\ Story' /\ Finalized' = Finalized /\ final' = final
      /\ chain' = chain /\ extrinsics' = extrinsics /\ current' = current /\ xt' = xt
  BY <1>0, <1>1, NodeWaits
<1>3. Sent' = Sent
  BY <1>0, <1>2 DEF Sent, known, in_flight
<1>4. \A t \in Sent : t.id \in Nat /\ t.id <= signatures
  BY SentSigned DEF DemoInv, PoolInv, ScriptOnly, SignedExtrinsic
<1>5. \A t \in Sent : t.id < signatures' /\ t.id # signatures' /\ t.id <= signatures'
  BY <1>0, <1>1, <1>4
<1>6. Undispatched'
  BY <1>0, <1>2 DEF DemoInv, Undispatched
<1>7. ScriptOnly'
  BY <1>3, <1>5 DEF DemoInv, ScriptOnly, Scripted
<1>8. ClientTypes' /\ RunSlots'
  BY <1>0, <1>3, <1>5 DEF ClientTypes, RunSlots
<1>9. ScriptOrder'
  BY <1>0, <1>2, <1>3, <1>5 DEF DemoInv, ScriptOrder, only_registers, is_remark, is_register, Same
<1>10. FirstReport' /\ ReportsAddUp' /\ NeverUnexpected'
  BY <1>0 DEF FirstReport, ReportsAddUp, NeverUnexpected
<1> QED BY <1>2, <1>6, <1>7, <1>8, <1>9, <1>10 DEF DemoInv

\* query_demo_state reads what the finalized block holds: holds and their sum, and nothing
\* pending between extrinsics.
LEMMA QueryFacts ==
    ASSUME DemoInv, NEW q, q = query_demo_state(Finalized)
    PROVE  /\ q \in DemoState
           /\ q.pending_hold = 0 /\ q.budget_hold = OnHold(Finalized.account[Alice])
           /\ q.alice_free = Finalized.account[Alice]["free"]
           /\ q.bob_free = Finalized.account[Bob]["free"]
           /\ q.sponsor_active = None <=> ~registered(Finalized.Sponsors)
           /\ registered(Finalized.Sponsors) =>
                 /\ q.sponsor_active = FALSE <=> paused(Finalized.Sponsors)
                 /\ q.sponsor_active = TRUE <=> ~paused(Finalized.Sponsors)
<1>0. PoolTypeOK /\ BlocksSettled
  BY DEF DemoInv, PoolInv
<1>1. Finalized = chain[1] /\ 1 \in DOMAIN chain /\ Finalized \in Block
  BY <1>0, FinalizedFacts
<1>2. /\ Finalized.account \in [AccountId -> Account]
      /\ Finalized.Sponsors \in [AccountId -> Option(SponsorState)]
  BY <1>1, BlockFields
<1>3. Finalized.account[Alice]["SponsorshipPending"] = 0
  BY <1>0, <1>1, Members DEF BlocksSettled, Settled
<1> DEFINE acc == Finalized.account[Alice]
<1>4. /\ acc["free"] \in Nat /\ Finalized.account[Bob]["free"] \in Nat /\ OnHold(acc) \in Nat
      /\ acc["SponsorshipBudget"] \in Nat /\ acc["SponsorshipPending"] \in Nat
  BY <1>2, AccountFacts, Members
<1>5. ASSUME NEW r \in HoldReason PROVE sponsor_holds(Finalized, r) = acc[r]
  <2> DEFINE H == Holds(Finalized, Alice)
  <2>1. acc[r] \in Nat
    BY <1>4, <1>5 DEF HoldReason
  <2>2. \A h \in H : h.id = r => h.amount = acc[r] /\ acc[r] > 0
    BY DEF Holds
  <2>3. ASSUME acc[r] > 0 PROVE \E h \in H : h.id = r
    <3> DEFINE entry == [id |-> r, amount |-> acc[r]]
    <3>1. entry \in H /\ entry.id = r
      BY <1>5, <2>3 DEF Holds
    <3> QED BY <3>1
  <2>4. sponsor_holds(Finalized, r) =
           IF \E h \in H : h.id = r THEN (CHOOSE h \in H : h.id = r).amount ELSE 0
    BY DEF sponsor_holds, collect_sponsor_holds
  <2> HIDE DEF H, acc
  <2> QED BY <2>1, <2>2, <2>3, <2>4
<1>6. /\ sponsor_holds(Finalized, "SponsorshipBudget") = acc["SponsorshipBudget"]
      /\ sponsor_holds(Finalized, "SponsorshipPending") = acc["SponsorshipPending"]
  BY <1>5 DEF HoldReason
<1>7. OnHold(acc) = acc["SponsorshipBudget"]
  BY <1>3, <1>4 DEF OnHold
<1> DEFINE entry == Finalized.Sponsors[Alice]
           active == IF entry = None THEN None ELSE entry.active
<1>8. entry # None => entry.active \in BOOLEAN /\ entry.active # None
  BY <1>2, Members, DemoClientAssumption DEF Option, SponsorState
<1>9. /\ active \in Option(BOOLEAN) /\ (active = None <=> entry = None)
      /\ entry # None => /\ active = FALSE <=> ~entry.active
                         /\ active = TRUE <=> entry.active
  BY <1>8 DEF Option
<1>10. q = [sponsor_active |-> active, alice_free |-> acc["free"],
            bob_free |-> Finalized.account[Bob]["free"],
            budget_hold |-> acc["SponsorshipBudget"], pending_hold |-> 0]
  BY <1>3, <1>6 DEF query_demo_state, account_free_balance
<1> HIDE DEF active, acc
<1>11. /\ q.sponsor_active = active /\ q.pending_hold = 0
       /\ q.budget_hold = acc["SponsorshipBudget"]
       /\ q.alice_free = acc["free"] /\ q.bob_free = Finalized.account[Bob]["free"]
  BY <1>10
<1>12. q \in DemoState
  BY <1>4, <1>9, <1>10 DEF DemoState
<1> QED BY <1>7, <1>9, <1>11, <1>12 DEF registered, paused, acc

\* The i-th report, given the first one and the fee of the event.
AddsUp(i, state, first, fee) ==
    /\ state.pending_hold = 0
    /\ state.bob_free = first.bob_free
    /\ i > 1 => first.sponsor_active = None
    /\ i \in {2, 3} => state.sponsor_active = TRUE
    /\ i > 3 => state.sponsor_active = FALSE
    /\ i > 1 => state.budget_hold + (IF i > 2 THEN fee ELSE 0) = INITIAL_BUDGET
    /\ i > 1 => state.alice_free + INITIAL_BUDGET < first.alice_free

\* ReportsAddUp, one report at a time.
LEMMA AddUp == ReportsAddUp <=> \A i \in DOMAIN states : AddsUp(i, states[i], states[1], paid)
BY DEF ReportsAddUp, AddsUp

\* The same after a step.
LEMMA AddUpNext ==
    ReportsAddUp' <=> \A i \in DOMAIN states' : AddsUp(i, states'[i], states'[1], paid')
BY DEF ReportsAddUp, AddsUp

\* main sends four extrinsics.
LEMMA ScriptLength == Len(script) = 4
BY DEF script

\* What a run reports next follows from how far it has come.
LEMMA QueryReport ==
    ASSUME DemoInv, at = "query", NEW q, q = query_demo_state(Finalized), step > 1
    PROVE  /\ states # <<>> /\ states[1].sponsor_active = None
           /\ AddsUp(step, q, states[1], paid)
<1>0. /\ FirstReport /\ ScriptOrder /\ FinalStory /\ step \in 1 .. 5
      /\ registered(Finalized.Sponsors)
  BY DEF DemoInv, Story, ClientTypes, ScriptOrder
<1>1. states # <<>>
  BY <1>0 DEF FirstReport
<1>2. /\ states[1].sponsor_active = None
      /\ states[1].bob_free = Finalized.account[Bob]["free"]
      /\ Finalized.account[Alice]["free"] + INITIAL_BUDGET < states[1].alice_free
  BY <1>0, <1>1 DEF FirstReport
<1>3. /\ q.budget_hold = OnHold(Finalized.account[Alice])
      /\ q.alice_free = Finalized.account[Alice]["free"]
      /\ q.bob_free = Finalized.account[Bob]["free"]
      /\ q.sponsor_active = FALSE <=> paused(Finalized.Sponsors)
      /\ q.sponsor_active = TRUE <=> ~paused(Finalized.Sponsors)
      /\ q \in DemoState /\ q.pending_hold = 0
  BY Zenon, <1>0, QueryFacts
<1>4. step > 3 => q.sponsor_active = FALSE
  BY <1>0, <1>3 DEF ScriptOrder
<1>5. ASSUME step \in {2, 3} PROVE q.sponsor_active = TRUE
  <2>1. \A t \in final : ~is_pause(t)
    BY <1>0, <1>5, SentParts DEF ScriptOrder
  <2> QED BY <1>0, <1>3, <2>1 DEF FinalStory, Explained
<1>6. q.budget_hold + (IF step > 2 THEN paid ELSE 0) = INITIAL_BUDGET
  <2>1. CASE step = 2
    <3>1. \A t \in final : ~is_remark(t)
      BY <1>0, <2>1, SentParts DEF ScriptOrder, only_registers, is_register, is_remark
    <3>2. OnHold(Finalized.account[Alice]) = INITIAL_BUDGET
      BY <1>0, <3>1 DEF FinalStory, Explained
    <3> QED BY <1>3, <2>1, <3>2, Members
  <2>2. CASE step > 2
    <3>1. PICK t \in final : is_remark(t) /\ t.paid = paid
      BY <1>0, <2>2 DEF ScriptOrder
    <3>2. OnHold(Finalized.account[Alice]) + paid = INITIAL_BUDGET
      BY <1>0, <3>1 DEF FinalStory, Explained
    <3> QED BY <1>3, <2>2, <3>2
  <2> QED BY <1>0, <2>1, <2>2
<1>7. AddsUp(step, q, states[1], paid)
  BY Zenon, <1>2, <1>3, <1>4, <1>5, <1>6 DEF AddsUp
<1> QED BY <1>1, <1>2, <1>7

\* query_demo_state reports the finalized state; after the last report the run is over.
LEMMA QueryStep ==
    ASSUME DemoInv, PoolInv', query
    PROVE  DemoInv'
<1> DEFINE q == query_demo_state(Finalized)
<1>0. /\ at = "query" /\ states' = Append(states, q) /\ step' = step /\ paid' = paid
      /\ extrinsic' = extrinsic /\ UNCHANGED poolVars
      /\ \/ step <= Len(script) /\ at' = "sign" /\ result' = result
         \/ step > Len(script) /\ at' = "down" /\ result' = "Ok"
  BY DEF query
<1> HIDE DEF q
<1>1. /\ PoolInv' /\ Story' /\ Finalized' = Finalized /\ final' = final
      /\ chain' = chain /\ extrinsics' = extrinsics /\ current' = current /\ xt' = xt
      /\ pool' = pool /\ signatures' = signatures
  BY <1>0, PoolWaits
<1>2. step \in 1 .. 5 /\ ((at' = "sign" /\ step <= 4) \/ (at' = "down" /\ step = 5))
  BY <1>0, ScriptLength DEF DemoInv, ClientTypes
<1>3. Sent' = Sent
  BY <1>0, <1>1, <1>2 DEF Sent, known, in_flight
<1>4. Undispatched' /\ ScriptOnly'
  BY <1>1, <1>2, <1>3 DEF DemoInv, Undispatched, ScriptOnly, Scripted
<1>5. ClientTypes' /\ RunSlots'
  BY Zenon, <1>0, <1>1, <1>2, <1>3 DEF DemoInv, ClientTypes, RunSlots
<1>6. ScriptOrder'
  BY <1>0, <1>1, <1>2, <1>3
  DEF DemoInv, ScriptOrder, only_registers, is_remark, is_register, is_pause, Same
<1>7. NeverUnexpected'
  BY <1>0 DEF DemoInv, NeverUnexpected
<1>8. states \in Seq(DemoState) /\ Len(states) = step - 1 /\ q \in DemoState
  BY Zenon, <1>0, QueryFacts DEF DemoInv, FirstReport, q
<1>9. /\ states' \in Seq(DemoState) /\ Len(states') = step /\ states'[step] = q
      /\ DOMAIN states' = 1 .. step /\ DOMAIN states = 1 .. step - 1
      /\ \A i \in 1 .. step - 1 : states'[i] = states[i]
  <2> DEFINE n == Len(states)
  <2>1. n \in Nat /\ step = n + 1 /\ step - 1 = n
    BY <1>2, <1>8
  <2>2. /\ states' \in Seq(DemoState) /\ Len(states') = n + 1 /\ states'[n + 1] = q
        /\ DOMAIN states' = 1 .. n + 1 /\ DOMAIN states = 1 .. n
        /\ \A i \in 1 .. n : states'[i] = states[i]
    BY <1>0, <1>8
  <2> HIDE DEF n
  <2> QED BY <2>1, <2>2
<1>10. CASE step = 1
  <2>1. /\ states'[1] = q /\ DOMAIN states' = {1} /\ states' # <<>>
    BY <1>9, <1>10
  <2>2. ~\E t \in Sent : t.id = signatures
    BY <1>0, <1>10 DEF DemoInv, RunSlots
  <2>3. /\ q.pending_hold = 0 /\ q.alice_free = Finalized.account[Alice]["free"]
        /\ q.bob_free = Finalized.account[Bob]["free"] /\ q \in DemoState
        /\ q.sponsor_active = None <=> ~registered(Finalized.Sponsors)
    BY Zenon, QueryFacts DEF q
  <2>4. q.alice_free \in Nat
    BY <2>3 DEF DemoState
  <2>5. FirstReport'
    <3>1. /\ at' = "sign" /\ step' = 1 /\ Finalized' = Finalized /\ Sent' = Sent
          /\ signatures' = signatures
      BY <1>0, <1>1, <1>2, <1>3, <1>10
    <3>2. states' \in Seq(DemoState) /\ Len(states') = 1 /\ states'[1] = q
      BY <1>9, <1>10
    <3>3. /\ q.bob_free = Finalized.account[Bob]["free"]
          /\ Finalized.account[Alice]["free"] <= q.alice_free
      BY <2>3, <2>4
    <3>4. q.sponsor_active = None <=> ~registered(Finalized.Sponsors)
      BY Zenon, <2>3
    <3> QED BY <2>2, <3>1, <3>2, <3>3, <3>4 DEF FirstReport, registered
  <2>6. ReportsAddUp'
    <3>1. AddsUp(1, q, q, paid')
      BY <2>3 DEF AddsUp
    <3> QED BY <2>1, <3>1, AddUpNext
  <2> QED BY Zenon, <1>1, <1>4, <1>5, <1>6, <1>7, <2>5, <2>6 DEF DemoInv
<1>11. CASE step > 1
  <2>1. /\ states # <<>> /\ states[1].sponsor_active = None
        /\ AddsUp(step, q, states[1], paid)
    BY <1>0, <1>11, QueryReport DEF q
  <2>3. states'[1] = states[1] /\ states' # <<>> /\ 1 \in 1 .. step - 1
    BY <1>2, <1>9, <1>11
  <2>4. FirstReport'
    BY <1>0, <1>1, <1>2, <1>3, <1>9, <2>1, <2>3
    DEF DemoInv, FirstReport, registered, is_register
  <2>5. ReportsAddUp'
    <3>1. \A i \in 1 .. step - 1 : AddsUp(i, states[i], states[1], paid)
      BY <1>9, AddUp DEF DemoInv
    <3>2. \A i \in 1 .. step : i = step \/ i \in 1 .. step - 1
      BY <1>2
    <3>3. \A i \in 1 .. step : AddsUp(i, states'[i], states'[1], paid')
      BY Zenon, <1>0, <1>9, <2>1, <2>3, <3>1, <3>2
    <3> QED BY <1>9, <3>3, AddUpNext
  <2> QED BY Zenon, <1>1, <1>4, <1>5, <1>6, <1>7, <2>4, <2>5 DEF DemoInv
<1> QED BY <1>2, <1>10, <1>11

\* The extrinsic signed next, on the finalized state.
LEMMA SignFacts ==
    ASSUME DemoInv, sign
    PROVE  /\ step \in 1 .. 4 /\ extrinsic' \in SignedExtrinsic /\ Scripted(extrinsic', step)
           /\ extrinsic'.id = signatures /\ ~extrinsic'.ok
           /\ extrinsic'.nonce = Finalized.nonce[extrinsic'.signer]
           /\ step = 1 <=> is_register(extrinsic')
           /\ step = 3 <=> is_pause(extrinsic')
           /\ is_remark(extrinsic') <=> step \in {2, 4}
           /\ step = 4 => extrinsic'.signer = Bob
<1> DEFINE entry == script[step]
           n     == Finalized.nonce[entry.signer]
<1>0. step \in 1 .. 4 /\ PoolTypeOK /\ signatures \in Nat
  BY DEF sign, DemoInv, ClientTypes, PoolInv, PoolTypeOK
<1>1. Finalized.nonce \in [AccountId -> Nat]
  BY <1>0, FinalizedFacts, BlockFields
<1>2. step = 1 \/ step = 2 \/ step = 3 \/ step = 4
  BY <1>0
<1>3. /\ entry.signer \in AccountId /\ entry.sponsor \in Option(AccountId)
      /\ entry.tip \in Tip /\ entry.mortal \in BOOLEAN /\ entry.call \in RuntimeCall
      /\ step = 4 => entry.signer = Bob
      /\ step = 1 <=> entry.call.name = "register_sponsor"
      /\ step = 3 <=> entry.call.name = "pause"
      /\ entry.call.name = "remark" <=> step \in {2, 4}
  <2>1. /\ entry.signer \in {Alice, Bob} /\ entry.sponsor \in {Alice, None}
        /\ step = 4 => entry.signer = Bob
        /\ entry.tip = 0 /\ entry.mortal = TRUE
    BY <1>0, <1>2, ScriptFacts
  <2>2. /\ entry.call \in RuntimeCall
        /\ step = 1 <=> entry.call.name = "register_sponsor"
        /\ step = 3 <=> entry.call.name = "pause"
        /\ entry.call.name = "remark" <=> step \in {2, 4}
    BY <1>0, <1>2, ScriptFacts, CallsOfScript
  <2>3. 0 \in Tip
    BY DemoClientAssumption
  <2> HIDE DEF entry
  <2> QED BY Zenon, <2>1, <2>2, <2>3, Members DEF Option
<1>4. extrinsic' = [signer |-> entry.signer, sponsor |-> entry.sponsor, tip |-> entry.tip,
                    mortal |-> entry.mortal, call |-> entry.call, nonce |-> n,
                    id |-> signatures, age |-> 0, ok |-> FALSE, paid |-> 0, life |-> 0]
  BY DEF sign, signed, run
<1> DEFINE e == extrinsic'
<1> HIDE DEF entry, n
<1>5. n \in Nat
  BY <1>1, <1>3 DEF n
<1>6. e \in SignedExtrinsic
  BY <1>0, <1>3, <1>4, <1>5 DEF SignedExtrinsic
<1>7. /\ e.signer = entry.signer /\ e.sponsor = entry.sponsor /\ e.call = entry.call
      /\ e.nonce = n /\ e.id = signatures /\ e.ok = FALSE /\ e.life = 0
  BY <1>4
<1>8. Scripted(e, step)
  BY <1>7 DEF Scripted, entry
<1> QED BY Zenon, <1>0, <1>3, <1>6, <1>7, <1>8 DEF is_register, is_pause, is_remark, n

\* sign_and_submit makes the extrinsic of the current entry with the nonce it queried.
LEMMA SignStep ==
    ASSUME DemoInv, PoolInv', sign
    PROVE  DemoInv'
<1> DEFINE e == extrinsic'
<1>0. /\ at = "sign" /\ at' = "submit" /\ UNCHANGED poolVars
      /\ step' = step /\ states' = states /\ paid' = paid /\ result' = result
  BY DEF sign
<1>1. /\ PoolInv' /\ Story' /\ Finalized' = Finalized /\ final' = final
      /\ chain' = chain /\ extrinsics' = extrinsics /\ current' = current /\ xt' = xt
      /\ pool' = pool /\ signatures' = signatures
  BY <1>0, PoolWaits
<1>2. Sent' = Sent \cup {e}
  BY <1>0, <1>1 DEF Sent, known, in_flight
<1>3. /\ step \in 1 .. 4 /\ e \in SignedExtrinsic /\ Scripted(e, step)
      /\ e.id = signatures /\ ~e.ok /\ e.nonce = Finalized.nonce[e.signer]
      /\ step = 1 <=> is_register(e)
      /\ step = 3 <=> is_pause(e)
      /\ is_remark(e) <=> step \in {2, 4}
      /\ step = 4 => e.signer = Bob
  BY SignFacts
<1>4. signatures \in Nat /\ ScriptOrder
  BY DEF DemoInv, PoolInv, PoolTypeOK
<1> HIDE DEF e
<1>5. Undispatched'
  BY <1>0, <1>1, <1>3 DEF DemoInv, Undispatched, e
<1>6. ScriptOnly'
  <2>1. \A t \in Sent \cup {e} : (\E k \in 1 .. 4 : Scripted(t, k)) /\ t.id <= signatures
    BY <1>3, <1>4 DEF DemoInv, ScriptOnly
  <2> QED BY <1>1, <1>2, <2>1 DEF ScriptOnly, Scripted
<1>7. ClientTypes'
  BY <1>0, <1>1, <1>3 DEF ClientTypes, Scripted, e
<1>8. RunSlots'
  <2>1. ASSUME NEW t \in Sent \cup {e}, t.id = signatures
        PROVE  \/ Same(t, e)
               \/ t.nonce < Finalized.nonce[t.signer] /\ (t.signer = e.signer => t.nonce < e.nonce)
    <3>1. CASE t = e
      BY <3>1, SameItself
    <3>2. CASE t \in Sent
      <4>1. t.nonce < Finalized.nonce[t.signer]
        BY <1>0, <1>3, <2>1, <3>2 DEF DemoInv, RunSlots
      <4> QED BY <1>3, <4>1
    <3> QED BY <3>1, <3>2
  <2>2. step = 4 => e.nonce >= Finalized.nonce[Bob]
    <3>1. e.nonce \in Nat
      BY <1>3, SignedFields
    <3> QED BY <1>3, <3>1
  <2> QED BY Zenon, <1>0, <1>1, <1>2, <2>1, <2>2 DEF RunSlots, Same, e
<1>9. ScriptOrder'
  <2>1. ~registered(Finalized.Sponsors) => \A t \in Sent \cup {e} : is_register(t)
    BY <1>3, <1>4 DEF ScriptOrder, only_registers
  <2>2. \A t, u \in Sent \cup {e} : is_remark(t) /\ is_remark(u) =>
            Same(t, u) \/ paused(Finalized.Sponsors)
    <3>1. CASE step = 4
      BY <1>4, <3>1 DEF ScriptOrder
    <3>2. CASE step = 2
      <4>1. \A t \in Sent : ~is_remark(t)
        BY <1>0, <1>4, <3>2 DEF ScriptOrder, only_registers, is_register, is_remark
      <4> QED BY <4>1, SameItself
    <3>3. CASE step \notin {2, 4}
      <4>1. ~is_remark(e)
        BY <1>3, <3>3
      <4> QED BY <1>4, <4>1 DEF ScriptOrder
    <3> QED BY <3>1, <3>2, <3>3
  <2>3. step = 1 /\ (\E t \in Sent \cup {e} : t.ok /\ is_register(t) /\ t.id = signatures)
            => \A t \in Sent \cup {e} : is_register(t)
    BY <1>3, <1>4 DEF ScriptOrder, only_registers
  <2>4. step = 2 => \A t \in Sent \cup {e} : ~is_pause(t)
    BY <1>3, <1>4 DEF ScriptOrder
  <2>5. /\ step > 1 => registered(Finalized.Sponsors)
        /\ step > 3 => paused(Finalized.Sponsors)
        /\ step >= 3 => \E t \in final : is_remark(t) /\ t.paid = paid
    BY <1>4 DEF ScriptOrder
  <2> QED BY <1>0, <1>1, <1>2, <2>1, <2>2, <2>3, <2>4, <2>5
          DEF ScriptOrder, only_registers, registered, paused, is_register, is_remark, is_pause, Same
<1>10. FirstReport'
  <2>1. (\E t \in Sent' : t.ok /\ is_register(t) /\ t.id = signatures)
           => \E t \in Sent : t.ok /\ is_register(t) /\ t.id = signatures
    BY <1>2, <1>3
  <2>2. FirstReport
    BY DEF DemoInv
  <2> QED BY <1>0, <1>1, <2>1, <2>2 DEF FirstReport, registered, is_register
<1>11. ReportsAddUp' /\ NeverUnexpected'
  BY <1>0 DEF DemoInv, ReportsAddUp, NeverUnexpected
<1> QED BY <1>1, <1>5, <1>6, <1>7, <1>8, <1>9, <1>10, <1>11 DEF DemoInv

\* An extrinsic on its way reaches the pool.
LEMMA SubmitStep ==
    ASSUME DemoInv, PoolInv', at = "submit", submit(extrinsic), UNCHANGED signatures, at' = "watch",
           UNCHANGED <<step, extrinsic, states, paid, result>>
    PROVE  DemoInv'
<1>0. /\ UNCHANGED <<vars, chainVars>> /\ signatures' = signatures
      /\ pool' \subseteq pool \cup {extrinsic}
      /\ step' = step /\ extrinsic' = extrinsic /\ states' = states /\ paid' = paid
      /\ result' = result
  BY DEF submit
<1>1. /\ extrinsic \in SignedExtrinsic /\ pool \subseteq SignedExtrinsic /\ signatures \in Nat
      /\ extrinsic \in Sent /\ ~extrinsic.ok
  BY DEF DemoInv, PoolInv, PoolTypeOK, ClientTypes, Sent, Undispatched
<1>2. /\ PoolInv' /\ Story' /\ Finalized' = Finalized /\ final' = final
      /\ chain' = chain /\ extrinsics' = extrinsics /\ current' = current /\ xt' = xt
  BY <1>0, <1>1, NodeWaits
<1>3. Sent' \subseteq Sent
  BY <1>0, <1>1, <1>2 DEF Sent, known, in_flight
<1>4. Undispatched' /\ ScriptOnly'
  BY Zenon, <1>0, <1>1, <1>2, <1>3 DEF DemoInv, Undispatched, ScriptOnly, Scripted
<1>5. ClientTypes' /\ RunSlots'
  BY <1>0, <1>2, <1>3 DEF DemoInv, ClientTypes, RunSlots, Same, Scripted
<1>6. ScriptOrder'
  BY Zenon, <1>0, <1>2, <1>3
  DEF DemoInv, ScriptOrder, only_registers, is_remark, is_register, is_pause, Same
<1>7. FirstReport'
  BY Zenon, <1>0, <1>2, <1>3 DEF DemoInv, FirstReport, registered, is_register
<1>8. ReportsAddUp' /\ NeverUnexpected'
  BY <1>0 DEF DemoInv, ReportsAddUp, NeverUnexpected
<1> QED BY Zenon, <1>2, <1>4, <1>5, <1>6, <1>7, <1>8 DEF DemoInv

\* A run ends at an await, with an error that is not the unexpected success.
LEMMA ExitStep ==
    ASSUME DemoInv, PoolInv', UNCHANGED poolVars, exit("Error")
    PROVE  DemoInv'
<1>0. /\ at' = "down" /\ result' = "Error" /\ step' = step /\ extrinsic' = extrinsic
      /\ states' = states /\ paid' = paid
  BY DEF exit
<1>1. /\ PoolInv' /\ Story' /\ Finalized' = Finalized /\ final' = final
      /\ chain' = chain /\ extrinsics' = extrinsics /\ current' = current /\ xt' = xt
      /\ pool' = pool /\ signatures' = signatures
  BY PoolWaits
<1>2. Sent' \subseteq Sent
  BY <1>0, <1>1 DEF Sent, known, in_flight
<1>3. Undispatched' /\ ScriptOnly'
  BY <1>0, <1>1, <1>2 DEF DemoInv, Undispatched, ScriptOnly, Scripted
<1>4. ClientTypes' /\ RunSlots'
  BY <1>0 DEF DemoInv, ClientTypes, RunSlots
<1>5. ScriptOrder'
  BY Zenon, <1>0, <1>1, <1>2
  DEF DemoInv, ScriptOrder, only_registers, is_remark, is_register, is_pause, Same
<1>6. FirstReport'
  BY Zenon, <1>0, <1>1, <1>2 DEF DemoInv, FirstReport, registered, is_register
<1>7. ReportsAddUp' /\ NeverUnexpected'
  BY <1>0 DEF DemoInv, ReportsAddUp, NeverUnexpected
<1> QED BY Zenon, <1>1, <1>3, <1>4, <1>5, <1>6, <1>7 DEF DemoInv

\* The last extrinsic is rejected, and the run goes on to its last report.
LEMMA FailedStep ==
    ASSUME DemoInv, PoolInv', UNCHANGED poolVars, at \in {"sign", "submit", "watch"}, failed
    PROVE  DemoInv'
<1>1. CASE exit("Error")
  BY <1>1, ExitStep
<1>2. CASE step = 4 /\ at' = "query" /\ step' = step + 1
           /\ UNCHANGED <<extrinsic, states, paid, result>>
  <2>0. /\ at' = "query" /\ step = 4 /\ step' = 5 /\ extrinsic' = extrinsic
        /\ states' = states /\ paid' = paid /\ result' = result
    BY <1>2
  <2>1. /\ PoolInv' /\ Story' /\ Finalized' = Finalized /\ final' = final
        /\ chain' = chain /\ extrinsics' = extrinsics /\ current' = current /\ xt' = xt
        /\ pool' = pool /\ signatures' = signatures
    BY PoolWaits
  <2>2. Sent' \subseteq Sent
    BY <2>0, <2>1 DEF Sent, known, in_flight
  <2>3. Undispatched' /\ ScriptOnly'
    BY Zenon, <2>0, <2>1, <2>2 DEF DemoInv, Undispatched, ScriptOnly, Scripted
  <2>4. ClientTypes' /\ RunSlots'
    BY <2>0 DEF DemoInv, ClientTypes, RunSlots
  <2>5. ScriptOrder'
    BY <2>0, <2>1, <2>2
    DEF DemoInv, ScriptOrder, only_registers, is_remark, is_register, is_pause, Same
  <2>6. FirstReport'
    BY <2>0, <2>1, <2>2 DEF DemoInv, FirstReport, registered, is_register
  <2>7. ReportsAddUp' /\ NeverUnexpected'
    BY <2>0 DEF DemoInv, ReportsAddUp, NeverUnexpected
  <2> QED BY Zenon, <2>1, <2>3, <2>4, <2>5, <2>6, <2>7 DEF DemoInv
<1> QED BY <1>1, <1>2 DEF failed, rejected

\* The extrinsic the client finds in a finalized block is the one it has signed, and what it
\* does is done there.
LEMMA MineIsFinal ==
    ASSUME DemoInv, at = "watch", NEW t \in final, is_mine(t), t.ok
    PROVE  /\ t \in Sent /\ Same(t, extrinsic) /\ t.id = signatures /\ step \in 1 .. 3
           /\ t.nonce \in Nat /\ t.nonce < Finalized.nonce[t.signer]
           /\ step = 1 => is_register(t) /\ registered(Finalized.Sponsors)
           /\ step = 2 => is_remark(t)
           /\ step = 3 => paused(Finalized.Sponsors)
<1>0. /\ t \in Sent /\ extrinsic.id = signatures /\ Scripted(extrinsic, step) /\ step \in 1 .. 4
      /\ PoolTypeOK /\ FinalStory
  BY SentParts DEF DemoInv, ClientTypes, PoolInv, Story
<1>1. t \in SignedExtrinsic /\ t.nonce \in Nat /\ t.signer \in AccountId
  BY <1>0, SentSigned, SignedFields DEF DemoInv
<1>2. t.id = signatures /\ t.signer = extrinsic.signer /\ t.nonce = extrinsic.nonce
  BY <1>0 DEF is_mine, same_slot
<1>3. Same(t, extrinsic)
  <2>1. Same(t, extrinsic) \/ t.nonce < extrinsic.nonce
    BY <1>0, <1>2 DEF DemoInv, RunSlots
  <2> QED BY <1>1, <1>2, <2>1
<1>4. Finalized = chain[1] /\ 1 \in DOMAIN chain /\ applied(1) = final /\ Finalized \in Block
  BY <1>0, FinalizedFacts
<1>5. t.nonce < Finalized.nonce[t.signer]
  BY <1>4, PlainNonces
<1>6. Scripted(t, step)
  BY <1>0, <1>3, SameKind
<1>7. step # 4
  <2> SUFFICES ASSUME step = 4 PROVE FALSE
    OBVIOUS
  <2>1. t.signer = Bob
    BY <1>6, ScriptFacts DEF Scripted
  <2>2. extrinsic.nonce >= Finalized.nonce[Bob] /\ Finalized.nonce[Bob] \in Nat
    BY Zenon, <1>4, BlockFields, Members DEF DemoInv, RunSlots
  <2> QED BY <1>1, <1>2, <1>5, <2>1, <2>2
<1>8. /\ step = 1 => is_register(t)
      /\ step = 2 => is_remark(t)
      /\ step = 3 => is_pause(t)
  BY <1>6, ScriptFacts, CallsOfScript DEF Scripted, is_register, is_remark, is_pause
<1>9. /\ step = 1 => registered(Finalized.Sponsors)
      /\ step = 3 => paused(Finalized.Sponsors)
  BY <1>0, <1>8 DEF FinalStory, Explained
<1> QED BY <1>0, <1>1, <1>2, <1>3, <1>5, <1>7, <1>8, <1>9

\* wait_for_finalized_success returns the finalized extrinsic and the run goes on.
LEMMA SucceededStep ==
    ASSUME DemoInv, PoolInv', UNCHANGED poolVars, at = "watch", NEW t \in final, is_mine(t), t.ok,
           succeeded(t)
    PROVE  DemoInv'
<1>0. /\ t \in Sent /\ Same(t, extrinsic) /\ t.id = signatures /\ step \in 1 .. 3
      /\ t.nonce < Finalized.nonce[t.signer]
      /\ step = 1 => is_register(t) /\ registered(Finalized.Sponsors)
      /\ step = 2 => is_remark(t)
      /\ step = 3 => paused(Finalized.Sponsors)
  BY MineIsFinal
<1>a. step \in 1 .. 3
  BY Zenon, <1>0
<1>b. step = 1 \/ step = 2 \/ step = 3
  BY <1>a
<1>1. /\ at' = "query" /\ step' = step + 1 /\ extrinsic' = extrinsic /\ states' = states
      /\ result' = result /\ paid' = IF step = 2 THEN t.paid ELSE paid
  BY <1>0 DEF succeeded, rejected, find_sponsored_fee_paid
<1>2. /\ PoolInv' /\ Story' /\ Finalized' = Finalized /\ final' = final
      /\ chain' = chain /\ extrinsics' = extrinsics /\ current' = current /\ xt' = xt
      /\ pool' = pool /\ signatures' = signatures
  BY PoolWaits
<1>3. Sent' = Sent
  BY <1>1, <1>2 DEF Sent, known, in_flight
<1>4. Undispatched' /\ ScriptOnly'
  BY <1>1, <1>2, <1>3 DEF DemoInv, Undispatched, ScriptOnly, Scripted
<1>5. ClientTypes'
  BY <1>0, <1>1 DEF DemoInv, ClientTypes
<1>6. RunSlots'
  <2>1. \A u \in Sent : u.id = signatures => u.nonce < Finalized.nonce[u.signer]
    BY <1>0 DEF DemoInv, RunSlots, Same
  <2>2. step' # 1
    <3>1. step' = step + 1
      BY Zenon, <1>1
    <3> QED BY <1>a, <3>1
  <2>3. at' = "query" /\ Sent' = Sent /\ signatures' = signatures /\ Finalized' = Finalized
    BY Zenon, <1>1, <1>2, <1>3
  <2> QED BY <2>1, <2>2, <2>3 DEF RunSlots
<1>7. ScriptOrder'
  <2>0. ScriptOrder
    BY DEF DemoInv
  <2>1. step = 1 => only_registers
    BY <1>0, <2>0 DEF ScriptOrder
  <2>2. \A u \in Sent : is_register(u) => ~is_pause(u)
    BY DEF is_register, is_pause
  <2>3. step \in {1, 2} => \A u \in Sent : ~is_pause(u)
    BY Zenon, <2>0, <2>1, <2>2 DEF ScriptOrder, only_registers
  <2>4. step' >= 3 => \E u \in final : is_remark(u) /\ u.paid = paid'
    <3>1. CASE step = 1
      BY <1>1, <3>1
    <3>2. CASE step = 2
      BY <1>0, <1>1, <3>2
    <3>3. CASE step = 3
      BY <1>1, <2>0, <3>3 DEF ScriptOrder
    <3> QED BY Zenon, <1>b, <3>1, <3>2, <3>3
  <2>5. /\ step' > 1 => registered(Finalized.Sponsors)
        /\ step' > 3 => paused(Finalized.Sponsors)
        /\ step' # 1 /\ (step' = 2 => step = 1) /\ (step' = 3 => step = 2)
    BY <1>0, <1>1, <2>0 DEF ScriptOrder
  <2>6. /\ ~registered(Finalized.Sponsors) => only_registers
        /\ \A u, v \in Sent : is_remark(u) /\ is_remark(v) =>
              Same(u, v) \/ paused(Finalized.Sponsors)
    BY <2>0 DEF ScriptOrder
  <2> QED BY <1>1, <1>2, <1>3, <2>1, <2>3, <2>4, <2>5, <2>6
          DEF ScriptOrder, only_registers, is_remark, is_register, is_pause, Same
<1>8. FirstReport /\ Len(states) = step /\ states \in Seq(DemoState)
  BY DEF DemoInv, FirstReport
<1>9. FirstReport'
  <2>1. step = 1 => \E u \in Sent : u.ok /\ is_register(u) /\ u.id = signatures
    BY <1>0
  <2>2. step = 1 \/ step > 1
    BY <1>0
  <2>3. states # <<>> => states[1].sponsor_active = None
    BY <1>8, <2>1, <2>2 DEF FirstReport
  <2>4. /\ at' = "query" /\ states' = states /\ Len(states') = step' - 1
        /\ Finalized' = Finalized /\ step' > 1
    BY <1>0, <1>1, <1>2, <1>8
  <2> QED BY Zenon, <1>8, <2>3, <2>4 DEF FirstReport, registered
<1>10. ReportsAddUp'
  <2>1. CASE step # 2
    BY Zenon, <1>1, <2>1 DEF DemoInv, ReportsAddUp
  <2>2. CASE step = 2
    <3>1. \A i \in DOMAIN states : i \in 1 .. 2 /\ AddsUp(i, states[i], states[1], paid)
      BY <1>8, <2>2, AddUp DEF DemoInv
    <3>2. \A i \in DOMAIN states : AddsUp(i, states[i], states[1], paid')
      BY <3>1 DEF AddsUp
    <3> QED BY <1>1, <3>2, AddUpNext
  <2> QED BY <2>1, <2>2
<1>11. NeverUnexpected'
  BY <1>1 DEF DemoInv, NeverUnexpected
<1> QED BY <1>2, <1>4, <1>5, <1>6, <1>7, <1>9, <1>10, <1>11 DEF DemoInv

-----------------------------------------------------------------------------
(* All steps of the client. *)

\* Every step of the client keeps the invariant, and so does finality.
LEMMA ClientDemoStep ==
    ASSUME DemoInv, PoolInv', connect \/ Client \/ disconnect \/ Finalize \/ UNCHANGED demoVars
    PROVE  DemoInv'
<1>1. CASE connect
  BY <1>1, ConnectStep
<1>2. CASE query
  BY <1>2, QueryStep
<1>3. CASE sign
  BY <1>3, SignStep
<1>4. CASE sign_and_submit_then_watch
  <2>1. at = "submit" /\ at \in {"sign", "submit", "watch"}
    BY <1>4 DEF sign_and_submit_then_watch
  <2>2. CASE refused /\ failed /\ UNCHANGED poolVars
    BY <2>1, <2>2, FailedStep
  <2>3. CASE ~(refused /\ failed /\ UNCHANGED poolVars)
    BY Zenon, <1>4, <2>1, <2>3, SubmitStep DEF sign_and_submit_then_watch
  <2> QED BY <2>2, <2>3
<1>5. CASE wait_for_finalized_success
  <2>1. /\ at = "watch" /\ at \in {"sign", "submit", "watch"} /\ UNCHANGED poolVars
        /\ (\E t \in final : is_mine(t) /\ t.ok /\ succeeded(t)) \/ failed
    BY <1>5 DEF wait_for_finalized_success
  <2>2. CASE failed
    BY <2>1, <2>2, FailedStep
  <2>3. CASE \E t \in final : is_mine(t) /\ t.ok /\ succeeded(t)
    BY <2>1, <2>3, SucceededStep
  <2> QED BY <2>1, <2>2, <2>3
<1>6. CASE disconnect
  <2>1. /\ UNCHANGED poolVars
        /\ exit("Error") \/ (at \in {"sign", "submit", "watch"} /\ failed)
    BY <1>6 DEF disconnect
  <2> QED BY <2>1, ExitStep, FailedStep
<1>7. CASE Finalize
  BY <1>7, FinalizeDemoStep
<1>8. CASE UNCHANGED demoVars
  <2>1. UNCHANGED poolVars /\ UNCHANGED clientVars
    BY <1>8 DEF demoVars
  <2>2. UNCHANGED <<vars, chainVars>> /\ pool' = pool /\ signatures' = signatures
    BY <2>1 DEF poolVars
  <2>3. Quiet
    BY <2>2, NodeWaits
  <2> QED BY Zenon, <2>1, <2>2, <2>3, QuietStep
<1> QED BY Zenon, <1>1, <1>2, <1>3, <1>4, <1>5, <1>6, <1>7, <1>8 DEF Client
=============================================================================
