--------------------------- MODULE TransactionFee ---------------------------
(***************************************************************************)
(* The fee of an extrinsic: WeightToFee of the runtime (runtime/src/lib.rs) *)
(* inside pallet_transaction_payment, from the estimate that validate makes *)
(* to the actual fee that settle_sponsored_fee charges (extension.rs).      *)
(*                                                                         *)
(* That the fee multiplier moves only between extrinsics is the SDK's doing, *)
(* and taken from it.                                                       *)
(***************************************************************************)
EXTENDS Naturals

CONSTANTS
    MILLI_UNIT,
    ExtrinsicBaseWeight,    \* reference time of an empty extrinsic
    MaxBlock,               \* weight at which WeightToFee is capped
    ACCURACY,               \* Perbill: parts in one
    TransactionByteFee,
    One,                    \* FixedU128: parts in one, of the multiplier
    Multiplier,             \* multipliers FeeMultiplierUpdate may set, in parts of One
    Weight, Length, Tip     \* what extrinsics may have

ASSUME TransactionFeeAssumption ==
    /\ MILLI_UNIT \in Nat /\ ExtrinsicBaseWeight \in Nat \ {0} /\ MaxBlock \in Nat
    /\ ACCURACY \in Nat \ {0} /\ One \in Nat \ {0} /\ TransactionByteFee \in Nat
    /\ Multiplier \subseteq Nat /\ Multiplier # {}
    /\ Weight \subseteq Nat /\ Length \subseteq Nat /\ Tip \subseteq Nat

VARIABLES
    multiplier,     \* NextFeeMultiplier
    xt,             \* the extrinsic being applied, with its estimate
    computed        \* the actual fee of the last extrinsic, before the clamp

vars == <<multiplier, xt, computed>>

Least(m, n) == IF m <= n THEN m ELSE n

-----------------------------------------------------------------------------
(* WeightToFee. *)

\* Perbill::from_rational rounds down.
from_rational(p, q) == (p * ACCURACY) \div q

\* Perbill * n rounds to the nearest, and down at the middle.
perbill_mul(parts, n) ==
    LET product == parts * n
    IN  product \div ACCURACY +
            (IF 2 * (product % ACCURACY) > ACCURACY THEN 1 ELSE 0)

\* The one coefficient of the polynomial, of degree 1.
polynomial ==
    LET p == MILLI_UNIT \div 10
        q == 100 * ExtrinsicBaseWeight
    IN  [coeff_integer |-> p \div q, coeff_frac |-> from_rational(p % q, q)]

weight_to_fee(weight) ==
    LET w == Least(weight, MaxBlock)
    IN  polynomial.coeff_integer * w + perbill_mul(polynomial.coeff_frac, w)

length_to_fee(len) == len * TransactionByteFee

-----------------------------------------------------------------------------
(* compute_fee and compute_actual_fee. *)

compute_fee_raw(len, weight, tip, pays_fee) ==
    IF pays_fee
    THEN weight_to_fee(ExtrinsicBaseWeight) + length_to_fee(len)
            + (multiplier * weight_to_fee(weight)) \div One + tip
    ELSE tip

compute_fee(len, info, tip) == compute_fee_raw(len, info.weight, tip, info.pays_fee)

\* Faulty variant: a call may report more weight than it declared.
actual_fee_uncapped(len, info, post_info, tip) ==
    compute_fee_raw(len, post_info.actual_weight, tip, info.pays_fee /\ post_info.pays_fee)

\* calc_actual_weight never exceeds what was declared, and a fee that was waived
\* before dispatch stays waived.
compute_actual_fee(len, info, post_info, tip) ==
    compute_fee_raw(len, Least(post_info.actual_weight, info.weight), tip,
                    info.pays_fee /\ post_info.pays_fee)

-----------------------------------------------------------------------------
NoXt == [phase |-> "idle"]

\* The chain may be at any multiplier when this part of it is observed.
Init ==
    /\ multiplier \in Multiplier
    /\ xt = NoXt
    /\ computed = 0

\* validate: estimated_fee_with_tip is what prepare reserves.
validate(len, info, tip) ==
    /\ xt.phase = "idle"
    /\ xt' = [phase |-> "prepared", len |-> len, info |-> info, tip |-> tip,
              estimated_fee_with_tip |-> compute_fee(len, info, tip)]
    /\ UNCHANGED <<multiplier, computed>>

\* settle_sponsored_fee, up to the clamp.
post_dispatch_details(post_info) ==
    /\ xt.phase = "prepared"
    /\ computed' = compute_actual_fee(xt.len, xt.info, post_info, xt.tip)
    /\ xt' = [xt EXCEPT !.phase = "settled"]
    /\ UNCHANGED multiplier

next_extrinsic ==
    /\ xt.phase = "settled"
    /\ xt' = NoXt
    /\ UNCHANGED <<multiplier, computed>>

\* on_finalize of pallet_transaction_payment: FeeMultiplierUpdate gives the next multiplier,
\* once every extrinsic of the block is applied.
on_finalize ==
    /\ xt.phase = "idle"
    /\ multiplier' \in Multiplier
    /\ UNCHANGED <<xt, computed>>

DispatchInfo == [weight : Weight, pays_fee : BOOLEAN]

PostDispatchInfo == [actual_weight : Weight, pays_fee : BOOLEAN]

Next ==
    \/ \E len \in Length, info \in DispatchInfo, tip \in Tip : validate(len, info, tip)
    \/ \E post_info \in PostDispatchInfo : post_dispatch_details(post_info)
    \/ next_extrinsic
    \/ on_finalize

Spec == Init /\ [][Next]_vars

-----------------------------------------------------------------------------
\* "Validation and prepare reserve the worst-case fee": whatever weight a call turns
\* out to have used, the fee computed after dispatch lies between the tip and the
\* estimate, so settle_sponsored_fee never has to clamp and always finds the tip.
EstimateIsWorstCase ==
    xt.phase = "settled" => xt.tip <= computed /\ computed <= xt.estimated_fee_with_tip

\* "in Rococo, extrinsic base weight (smallest non-zero weight) is mapped to 1
\* MILLI_UNIT: in our template, we map to 1/10 of that": what the comment on
\* WeightToFee::polynomial says of the base weight.
BaseWeightCostsTenthOfMilliUnit ==
    xt.phase = "prepared" => weight_to_fee(ExtrinsicBaseWeight) = MILLI_UNIT \div 10
=============================================================================
