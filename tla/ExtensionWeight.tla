-------------------------- MODULE ExtensionWeight --------------------------
(***************************************************************************)
(* How a block accounts for the weight of SponsoredChargeTransactionPayment *)
(* (extension.rs).  Before dispatch the block is charged what the call and  *)
(* weight() declare.  After dispatch the extension returns a weight from    *)
(* post_dispatch_details; the TransactionExtension trait of the SDK takes   *)
(* it for declared weight that was not used, and gives it back to the block.*)
(*                                                                         *)
(* "work" counts what the extension's own comments count: its storage       *)
(* accesses, in the units of DbWeight.                                      *)
(***************************************************************************)
EXTENDS Naturals

CONSTANTS
    Read, Write,    \* DbWeight
    BaseWeight,     \* weight of ChargeTransactionPayment
    CallWeight,     \* weights a call may have
    MaxExtrinsics,  \* what extrinsics may use of a block
    Path,           \* the payment paths in use
    MaxSponsored    \* bound: sponsored extrinsics in a block, which its length limits

ASSUME ExtensionWeightAssumption ==
    /\ Read \in Nat /\ Write \in Nat /\ BaseWeight \in Nat /\ MaxExtrinsics \in Nat
    /\ CallWeight \subseteq Nat /\ MaxSponsored \in Nat
    /\ Path \subseteq {"Sponsored", "Unsponsored", "NoCharge"}

VARIABLES
    block,     \* weight the block has registered
    work,      \* weight the block has really used
    extrinsic, \* the extrinsic being applied: phase, path, declared and actual weight
    sponsored  \* history: how many sponsored extrinsics the block has settled

weightVars == <<block, work, extrinsic, sponsored>>

NoExtrinsic == [phase |-> "idle", path |-> "Unsponsored", declared |-> 0, actual |-> 0]

reads_writes(r, w) == r * Read + w * Write

Monus(m, n) == IF m >= n THEN m - n ELSE 0

\* Faulty variant: what the sponsor costs is left out.
weight_of_base(path) == BaseWeight

\* weight(): validate and prepare, not settlement.
weight(path) ==
    BaseWeight + (IF path = "Sponsored" THEN reads_writes(2, 2) ELSE 0)

\* What validate and prepare do.  With neither a sponsor nor a signer, which AuthorizeCall
\* makes possible, ChargeTransactionPayment has nobody to charge and does nothing.
overhead(path) ==
    IF path = "NoCharge" THEN 0
    ELSE BaseWeight + (IF path = "Sponsored" THEN reads_writes(2, 2) ELSE 0)

\* What settle_sponsored_fee does after dispatch.
settlement_weight(path) ==
    IF path = "Sponsored" THEN reads_writes(7, 7) ELSE 0

\* Faulty variant: the settlement weight is returned on all paths.
unspent_on_all_paths(path) == reads_writes(7, 7)

\* What post_dispatch_details returns: the settlement weight on the sponsored path.
\* ChargeTransactionPayment, on the others, returns zero when it has charged somebody and
\* its own weight when it has not.
unspent(path) == IF path = "NoCharge" THEN BaseWeight ELSE settlement_weight(path)

-----------------------------------------------------------------------------
WeightInit == block = 0 /\ work = 0 /\ extrinsic = NoExtrinsic /\ sponsored = 0

\* CheckWeight: an extrinsic starts only if what it declares fits the block.
validate_and_prepare(path, call) ==
    /\ extrinsic.phase = "idle"
    /\ block + call + weight(path) <= MaxExtrinsics
    /\ path = "Sponsored" => sponsored < MaxSponsored
    /\ block' = block + call + weight(path)
    /\ work' = work + overhead(path)
    /\ extrinsic' = [phase |-> "prepared", path |-> path,
                     declared |-> call + weight(path), actual |-> 0]
    /\ UNCHANGED sponsored

\* The call uses at most what it declared; PostDispatchInfo then carries what it used
\* plus the weight of the extension.
dispatch(used) ==
    /\ extrinsic.phase = "prepared"
    /\ used + weight(extrinsic.path) <= extrinsic.declared
    /\ work' = work + used
    /\ extrinsic' = [extrinsic EXCEPT !.phase = "dispatched",
                                      !.actual = used + weight(extrinsic.path)]
    /\ UNCHANGED <<block, sponsored>>

\* Settlement runs, and the actual weight loses what the extension returned.  The
\* block gets back what was declared and not used.
post_dispatch ==
    /\ extrinsic.phase = "dispatched"
    /\ work' = work + settlement_weight(extrinsic.path)
    /\ LET actual == Monus(extrinsic.actual, unspent(extrinsic.path))
       IN  block' = block - (extrinsic.declared - actual)
    /\ sponsored' = sponsored + (IF extrinsic.path = "Sponsored" THEN 1 ELSE 0)
    /\ extrinsic' = NoExtrinsic

\* The next block starts.
initialize_block ==
    /\ extrinsic.phase = "idle"
    /\ block' = 0 /\ work' = 0 /\ sponsored' = 0
    /\ UNCHANGED extrinsic

WeightNext ==
    \/ \E path \in Path, call \in CallWeight : validate_and_prepare(path, call)
    \/ \E used \in CallWeight : dispatch(used)
    \/ post_dispatch
    \/ initialize_block

WeightSpec == WeightInit /\ [][WeightNext]_weightVars

-----------------------------------------------------------------------------
\* Between extrinsics a block has registered all the work it did: "the weight consumed
\* by the settlement logic (slash, restore, event deposit)" included, which
\* settle_sponsored_fee reports for this purpose.
WorkIsMetered == extrinsic.phase = "idle" => work <= block

\* What sponsored extrinsics have left out of the block's account, at most: their settlement,
\* which weight() does not declare, and the same once more, which post_dispatch_details
\* gives back.
unregistered == sponsored * (2 * reads_writes(7, 7))

\* What a block fails to register is bounded by the settlements in it: every sponsored
\* extrinsic hides at most twice the settlement weight of settle_sponsored_fee, whatever
\* its call, and no other extrinsic hides anything, however many of them give weight back.
ShortfallIsSettlement == extrinsic.phase = "idle" => work <= block + unregistered

\* And so no block does more work than MaxExtrinsics allows but for that, at any point of any
\* extrinsic, although CheckWeight hands the room that is given back to later extrinsics.
OverrunIsSettlement == work <= MaxExtrinsics + unregistered
=============================================================================
