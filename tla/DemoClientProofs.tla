-------------------------- MODULE DemoClientProofs --------------------------
(* Proofs about the demonstration client, for any fees, balances, eras, numbers of  *)
(* runs and reorganisations.                                                        *)
EXTENDS DemoClientBlocks, DemoClientSteps, TransactionPoolProofs

\* The contexts are large: a leaf that names no prover is given to Zenon, whose translation is
\* the lightest, then to the SMT solver and to Z3 under its own name.
USE ZenonT(3), SMTT(20), Z3T(20)

-----------------------------------------------------------------------------
(* What has reached a finalized block. *)

\* A registration and a pause that are finalized are there in every later block.
LEMMA StatusKept ==
    ASSUME PoolTypeOK, ChainStory
    PROVE  /\ registered(Finalized.Sponsors) => registered(Best.Sponsors)
           /\ paused(Finalized.Sponsors) => paused(Best.Sponsors)
<1>0. /\ Finalized = chain[1] /\ Best = chain[Len(chain)] /\ Len(chain) \in Nat
      /\ Len(chain) >= 1
  BY FinalizedFacts, BestFacts
<1>1. ASSUME registered(Finalized.Sponsors), ~registered(Best.Sponsors) PROVE FALSE
  <2> DEFINE T == {i \in 1 .. Len(chain) : ~registered(chain[i].Sponsors)}
  <2>1. T \subseteq Nat /\ T # {}
    BY <1>0, <1>1
  <2>2. PICK n \in T : \A m \in T : n <= m
    <3> HIDE DEF T
    <3> QED BY Zenon, <2>1, LeastNat
  <2>3. n \in 2 .. Len(chain) /\ n - 1 \in 1 .. Len(chain)
    BY <1>0, <1>1, <2>2
  <2>4. registered(chain[n - 1].Sponsors)
    BY <1>0, <2>2, <2>3
  <2>5. registered(chain[n].Sponsors)
    BY <2>3, <2>4 DEF ChainStory, Follows
  <2> QED BY <2>2, <2>5
<1>2. ASSUME paused(Finalized.Sponsors), ~paused(Best.Sponsors) PROVE FALSE
  <2> DEFINE T == {i \in 1 .. Len(chain) : ~paused(chain[i].Sponsors)}
  <2>1. T \subseteq Nat /\ T # {}
    BY <1>0, <1>2
  <2>2. PICK n \in T : \A m \in T : n <= m
    <3> HIDE DEF T
    <3> QED BY Zenon, <2>1, LeastNat
  <2>3. n \in 2 .. Len(chain) /\ n - 1 \in 1 .. Len(chain)
    BY <1>0, <1>2, <2>2
  <2>4. paused(chain[n - 1].Sponsors)
    BY <1>0, <2>2, <2>3
  <2>5. paused(chain[n].Sponsors)
    BY <2>3, <2>4 DEF ChainStory, Follows
  <2> QED BY <2>2, <2>5
<1> QED BY <1>1, <1>2

\* And in the block being built.
LEMMA StatusHere ==
    ASSUME DemoInv
    PROVE  StatusStays
BY StatusKept DEF DemoInv, PoolInv, Story, HereStory, Follows, StatusStays

-----------------------------------------------------------------------------
(* What is known of the pool and of payments. *)

\* Every step of the node and of the client keeps what is known of the pool and the chain.
LEMMA PoolKept ==
    ASSUME DemoInv, [DemoNext]_demoVars
    PROVE  PoolInv'
<1>0. /\ PoolInv /\ pool \subseteq SignedExtrinsic /\ gossip \subseteq SignedExtrinsic
      /\ signatures \in Nat /\ ClientTypes
  BY DEF DemoInv, PoolInv, PoolTypeOK
<1>1. ASSUME UNCHANGED <<vars, chainVars>>, pool' \subseteq SignedExtrinsic, gossip' = gossip,
             signatures' \in Nat
      PROVE  PoolInv'
  BY <1>0, <1>1, PoolStep
<1>2. ASSUME UNCHANGED poolVars PROVE PoolInv'
  BY <1>0, <1>1, <1>2 DEF poolVars
<1>3. CASE connect
  <2>1. UNCHANGED <<vars, chainVars, pool, gossip>> /\ signatures' = signatures + 1
    BY <1>3 DEF connect
  <2> QED BY <1>0, <1>1, <2>1
<1>4. CASE query \/ sign \/ wait_for_finalized_success \/ disconnect \/ UNCHANGED demoVars
  BY <1>2, <1>4 DEF query, sign, wait_for_finalized_success, disconnect, demoVars
<1>5. CASE sign_and_submit_then_watch
  <2>1. CASE UNCHANGED poolVars
    BY <1>2, <2>1
  <2>2. CASE submit(extrinsic) /\ UNCHANGED <<gossip, signatures>>
    <3>1. extrinsic \in SignedExtrinsic
      BY <1>0, <1>5 DEF sign_and_submit_then_watch, ClientTypes
    <3>2. /\ UNCHANGED <<vars, chainVars>> /\ pool' \subseteq pool \cup {extrinsic}
          /\ gossip' = gossip /\ signatures' = signatures
      BY <2>2 DEF submit
    <3> QED BY <1>0, <1>1, <3>1, <3>2
  <2> QED BY <1>5, <2>1, <2>2 DEF sign_and_submit_then_watch
<1>6. CASE Finalize
  BY <1>0, <1>6, FinalizeStep DEF Finalize
<1>7. CASE Node
  <2>1. CASE (\E t \in pool : revalidate(t)) \/ maintain
    <3>1. UNCHANGED <<vars, chainVars, gossip, signatures>> /\ pool' \subseteq pool
      BY <2>1 DEF revalidate, maintain
    <3> QED BY <1>0, <1>1, <3>1
  <2>2. CASE Include
    BY <1>0, <2>2, ApplyExtrinsicStep DEF Include
  <2>3. CASE Produce
    BY <1>0, <2>3, InitializeBlockStep, DispatchCallStep, SettleStep, FinalizeBlockStep DEF Produce
  <2>4. CASE Reorganise
    BY <1>0, <2>4, RetractStep DEF Reorganise
  <2> QED BY <1>7, <2>1, <2>2, <2>3, <2>4 DEF Node
<1> QED BY <1>3, <1>4, <1>5, <1>6, <1>7 DEF DemoNext, Client

\* prepare takes the fee of a sponsored extrinsic from nobody's free balance and no
\* extrinsic's fee from anything on hold.
LEMMA IncludePays ==
    ASSUME DemoInv, Include
    PROVE  PaysExactly /\ HoldsKept
<1>1. PICK tx \in pool, fee \in Fee : apply_extrinsic(tx, fee)
  BY DEF Include
<1> DEFINE x == charged(tx, fee)
<1>2. tx \in SignedExtrinsic /\ IInv
  BY DEF DemoInv, PoolInv, PoolTypeOK
<1>3. x \in Extrinsic /\ x.signer # None /\ validate_and_prepare(x)
  BY <1>1, <1>2, ChargedFacts DEF apply_extrinsic
<1> HIDE DEF x
<1> QED BY <1>2, <1>3, StartPaysExactly, PrepareKeepsHolds DEF HoldsKept

\* post_dispatch_details takes from what the sponsor has on hold the fee it reports.
LEMMA SettlePays ==
    ASSUME DemoInv, NEW fee \in Fee, settle(fee)
    PROVE  PaysExactly /\ HoldsPay
<1>1. post_dispatch_details(fee) /\ xt.phase = "dispatched" /\ IInv
  BY DEF settle, post_dispatch_details, DemoInv, PoolInv
<1>2. event = None
  BY <1>1 DEF DemoInv, PoolInv, CurrentInFlight
<1>3. PaysExactly
  BY <1>1, SettlePaysExactly
<1>4. HoldsPay
  BY <1>1, <1>2, SettleTakesPaid DEF HoldsPay, reported
<1> QED BY <1>3, <1>4

-----------------------------------------------------------------------------
(* The theorems. *)

\* The invariant holds before the first run.
LEMMA DemoInitInv == DemoInit => DemoInv
BY PoolInitInv, GenesisStory DEF DemoInit

\* Every step of the client and of the node keeps it.
LEMMA DemoNextInv == DemoInv /\ [DemoNext]_demoVars => DemoInv'
<1> SUFFICES ASSUME DemoInv, [DemoNext]_demoVars PROVE DemoInv'
  OBVIOUS
<1>1. PoolInv'
  BY PoolKept
<1>2. CASE Node
  BY <1>1, <1>2, NodeDemoStep, StatusHere, IncludePays, SettlePays
<1>3. CASE ~Node
  BY <1>1, <1>3, ClientDemoStep DEF DemoNext
<1> QED BY <1>2, <1>3

\* The invariant holds for every number of runs, of reorganisations and of failures.
THEOREM DemoInvariance == DemoSpec => []DemoInv
BY DemoInitInv, DemoNextInv, PTL DEF DemoSpec

\* main never returns "paused sponsored transaction unexpectedly succeeded": by the time it
\* signs the last remark the pause is finalized, and no earlier remark has its nonce.
THEOREM PauseIsRespected == DemoSpec => []NeverUnexpected
<1>1. DemoInv => NeverUnexpected
  BY DEF DemoInv
<1> QED BY <1>1, DemoInvariance, PTL

\* The DemoStates a run prints add up, whatever earlier runs have left on the chain.
THEOREM ReportsAlwaysAddUp == DemoSpec => []ReportsAddUp
<1>1. DemoInv => ReportsAddUp
  BY DEF DemoInv
<1> QED BY <1>1, DemoInvariance, PTL

\* However often main is run again, no block on the chain has more than one budget of
\* Alice's on hold.
THEOREM OneBudgetOnly == DemoSpec => []BudgetTakenOnce
<1>1. DemoInv => BudgetTakenOnce
  BY DEF DemoInv, Story, OneBudget
<1> QED BY <1>1, DemoInvariance, PTL

\* The promise to Alice as a sponsor is kept in every block while the client runs against the
\* node: no step of the client moves what she offers or has pending.
THEOREM ClientHonoursEscrow == DemoSpec => BlocksKeepEscrow
<1>1. DemoInv /\ DemoInv' /\ [DemoNext]_demoVars =>
         [retractions' = retractions =>
            UNCHANGED Escrow!escrowVars \/ Escrow!EscrowNext]_<<account, Sponsors>>
  <2> SUFFICES ASSUME DemoInv, DemoInv', [DemoNext]_demoVars, retractions' = retractions,
                      ~ UNCHANGED <<account, Sponsors>>
               PROVE  UNCHANGED Escrow!escrowVars \/ Escrow!EscrowNext
    OBVIOUS
  <2>1. PoolInv /\ PoolInv'
    BY DEF DemoInv
  <2>2. CASE Finalize \/ Node
    BY <2>1, <2>2, NodeKeepsEscrow DEF Finalize, Node, PoolNext
  <2>3. CASE connect \/ Client \/ disconnect \/ UNCHANGED demoVars
    BY <2>3 DEF connect, Client, query, sign, sign_and_submit_then_watch, submit,
                wait_for_finalized_success, disconnect, demoVars, poolVars, vars
  <2> QED BY <2>2, <2>3 DEF DemoNext
<1> QED BY <1>1, DemoInvariance, PTL DEF DemoSpec, BlocksKeepEscrow
=============================================================================
