-------------------------- MODULE ComponentProofs --------------------------
(***************************************************************************)
(* Proofs about the components that stand by themselves, each for all       *)
(* values of its constants: the fee reserved before dispatch is the worst   *)
(* case, a block's account of weight is short by settlements alone, the     *)
(* template pallet accounts for what it stores, and the node's start-up     *)
(* ends in a node that serves its role.                                     *)
(***************************************************************************)
EXTENDS TransactionFee, ExtensionWeight, TemplatePallet, NodeService, FiniteSetTheorems, TLAPS

(* TransactionFee: division and rounding. *)

\* A quotient and a remainder: what \div and % mean.
LEMMA DivMod ==
    ASSUME NEW n \in Nat, NEW d \in Nat \ {0}
    PROVE  /\ n \div d \in Nat /\ n % d \in Nat
           /\ n = d * (n \div d) + (n % d) /\ n % d < d
BY SMT

\* Multiplication is monotone.
LEMMA MulMonotone ==
    ASSUME NEW k \in Nat, NEW m \in Nat, NEW n \in Nat, m <= n
    PROVE  k * m <= k * n
BY SMT

\* Division by the same divisor is monotone.
LEMMA DivMonotone ==
    ASSUME NEW m \in Nat, NEW n \in Nat, NEW d \in Nat \ {0}, m <= n
    PROVE  m \div d <= n \div d
<1> DEFINE qm == m \div d
           qn == n \div d
<1>1. /\ qm \in Nat /\ m % d \in Nat /\ m = d * qm + (m % d) /\ m % d < d
      /\ qn \in Nat /\ n % d \in Nat /\ n = d * qn + (n % d) /\ n % d < d
  BY DivMod
<1> SUFFICES ASSUME qn < qm PROVE FALSE
  BY <1>1, SMT
<1>2. d * (qn + 1) <= d * qm
  BY <1>1, MulMonotone, qn + 1 \in Nat, qn + 1 <= qm
<1>3. d * (qn + 1) = d * qn + d
  BY <1>1, SMT
<1> HIDE DEF qm, qn
<1> QED
  BY <1>1, <1>2, <1>3, SMT

-----------------------------------------------------------------------------
\* Rounding to the nearest is monotone: from one multiple of ACCURACY to the next the
\* quotient grows by more than the rounding can lose.
LEMMA PerbillMonotone ==
    ASSUME NEW parts \in Nat, NEW m \in Nat, NEW n \in Nat, m <= n
    PROVE  /\ perbill_mul(parts, m) \in Nat /\ perbill_mul(parts, n) \in Nat
           /\ perbill_mul(parts, m) <= perbill_mul(parts, n)
<1> DEFINE A == ACCURACY
           x == parts * m
           y == parts * n
           qx == x \div A
           rx == x % A
           qy == y \div A
           ry == y % A
<1>1. A \in Nat \ {0} /\ x \in Nat /\ y \in Nat /\ x <= y
  BY TransactionFeeAssumption, MulMonotone, SMT
<1> HIDE DEF x, y, A
<1>2. /\ qx \in Nat /\ rx \in Nat /\ x = A * qx + rx /\ rx < A
      /\ qy \in Nat /\ ry \in Nat /\ y = A * qy + ry /\ ry < A
  BY <1>1, DivMod
<1>3. qx <= qy
  BY <1>1, DivMonotone
<1>4. qx = qy => rx <= ry
  BY <1>1, <1>2, SMT
<1>5. /\ perbill_mul(parts, m) = qx + (IF 2 * rx > A THEN 1 ELSE 0)
      /\ perbill_mul(parts, n) = qy + (IF 2 * ry > A THEN 1 ELSE 0)
  BY DEF perbill_mul, x, y, A
<1> HIDE DEF qx, qy, rx, ry
<1> QED
  BY <1>1, <1>2, <1>3, <1>4, <1>5, SMT

\* The coefficient of WeightToFee is not negative.
LEMMA PolynomialType == polynomial.coeff_integer \in Nat /\ polynomial.coeff_frac \in Nat
<1> DEFINE p == MILLI_UNIT \div 10
           q == 100 * ExtrinsicBaseWeight
<1>1. p \in Nat /\ q \in Nat \ {0}
  <2>1. MILLI_UNIT \div 10 \in Nat
    BY TransactionFeeAssumption, 10 \in Nat \ {0}, DivMod
  <2> QED
    BY <2>1, TransactionFeeAssumption
<1> HIDE DEF p, q
<1>2. p \div q \in Nat /\ p % q \in Nat
  BY <1>1, DivMod
<1>3. (p % q) * ACCURACY \in Nat
  BY <1>2, TransactionFeeAssumption
<1>4. ((p % q) * ACCURACY) \div q \in Nat
  BY <1>1, <1>3, DivMod
<1> QED
  BY <1>2, <1>4 DEF polynomial, from_rational, p, q

\* A heavier call is never cheaper.
LEMMA WeightToFeeMonotone ==
    ASSUME NEW m \in Nat, NEW n \in Nat, m <= n
    PROVE  /\ weight_to_fee(m) \in Nat /\ weight_to_fee(n) \in Nat
           /\ weight_to_fee(m) <= weight_to_fee(n)
<1> DEFINE i == polynomial.coeff_integer
           f == polynomial.coeff_frac
           v == Least(m, MaxBlock)
           w == Least(n, MaxBlock)
<1>1. i \in Nat /\ f \in Nat
  BY PolynomialType
<1>2. v \in Nat /\ w \in Nat /\ v <= w
  BY TransactionFeeAssumption DEF Least
<1>3. weight_to_fee(m) = i * v + perbill_mul(f, v)
  BY DEF weight_to_fee
<1>4. weight_to_fee(n) = i * w + perbill_mul(f, w)
  BY DEF weight_to_fee
<1> HIDE DEF i, f, v, w
<1>5. i * v \in Nat /\ i * w \in Nat /\ i * v <= i * w
  BY <1>1, <1>2, MulMonotone
<1>6. /\ perbill_mul(f, v) \in Nat /\ perbill_mul(f, w) \in Nat
      /\ perbill_mul(f, v) <= perbill_mul(f, w)
  BY <1>1, <1>2, PerbillMonotone, Zenon
<1> QED
  BY <1>3, <1>4, <1>5, <1>6

\* At one multiplier the fee grows with the weight, covers the tip, and is no smaller
\* when it is not waived.
LEMMA FeeMonotone ==
    ASSUME NEW len \in Nat, NEW tip \in Nat, NEW v \in Nat, NEW w \in Nat, v <= w,
           NEW b \in BOOLEAN, NEW c \in BOOLEAN, b => c, multiplier \in Nat
    PROVE  /\ tip <= compute_fee_raw(len, v, tip, b)
           /\ compute_fee_raw(len, v, tip, b) <= compute_fee_raw(len, w, tip, c)
           /\ compute_fee_raw(len, v, tip, b) \in Nat
           /\ compute_fee_raw(len, w, tip, c) \in Nat
<1> DEFINE base == weight_to_fee(ExtrinsicBaseWeight)
           bytes == length_to_fee(len)
           av == (multiplier * weight_to_fee(v)) \div One
           aw == (multiplier * weight_to_fee(w)) \div One
<1>1. base \in Nat
  BY TransactionFeeAssumption, WeightToFeeMonotone, ExtrinsicBaseWeight \in Nat,
     ExtrinsicBaseWeight <= ExtrinsicBaseWeight
<1>2. bytes \in Nat
  BY TransactionFeeAssumption DEF length_to_fee
<1>3. av \in Nat /\ aw \in Nat /\ av <= aw
  <2>1. /\ weight_to_fee(v) \in Nat /\ weight_to_fee(w) \in Nat
        /\ weight_to_fee(v) <= weight_to_fee(w)
    BY WeightToFeeMonotone
  <2>2. /\ multiplier * weight_to_fee(v) \in Nat /\ multiplier * weight_to_fee(w) \in Nat
        /\ multiplier * weight_to_fee(v) <= multiplier * weight_to_fee(w)
    BY <2>1, MulMonotone
  <2>3. One \in Nat \ {0}
    BY TransactionFeeAssumption
  <2> QED
    BY <2>2, <2>3, DivMonotone, DivMod
<1>4. compute_fee_raw(len, v, tip, b) = IF b THEN base + bytes + av + tip ELSE tip
  BY DEF compute_fee_raw
<1>5. compute_fee_raw(len, w, tip, c) = IF c THEN base + bytes + aw + tip ELSE tip
  BY DEF compute_fee_raw
<1> HIDE DEF base, bytes, av, aw
<1> QED
  BY <1>1, <1>2, <1>3, <1>4, <1>5

-----------------------------------------------------------------------------
\* An extrinsic in flight.
Applied ==
    [phase : {"prepared", "settled"}, len : Length, info : DispatchInfo, tip : Tip,
     estimated_fee_with_tip : Nat]

\* The strengthening: the estimate is what compute_fee would still find at settlement.
EstimateCurrent ==
    /\ multiplier \in Multiplier
    /\ \/ xt = NoXt
       \/ /\ xt \in Applied
          /\ xt.estimated_fee_with_tip = compute_fee(xt.len, xt.info, xt.tip)

FeeInv == EstimateCurrent /\ EstimateIsWorstCase

\* Every step keeps the estimate current and the worst case.
LEMMA FeeStep == FeeInv /\ [Next]_vars => FeeInv'
<1> SUFFICES ASSUME FeeInv, [Next]_vars PROVE FeeInv'
  OBVIOUS
<1> USE DEF FeeInv
<1>1. ASSUME NEW len \in Length, NEW info \in DispatchInfo, NEW tip \in Tip,
             validate(len, info, tip)
      PROVE  FeeInv'
  <2> DEFINE estimate == compute_fee(len, info, tip)
  <2>1. /\ multiplier' = multiplier /\ multiplier \in Multiplier
        /\ xt' = [phase |-> "prepared", len |-> len, info |-> info, tip |-> tip,
                  estimated_fee_with_tip |-> estimate]
    BY <1>1 DEF validate, EstimateCurrent
  <2>2. /\ len \in Nat /\ tip \in Nat /\ info.weight \in Nat /\ info.pays_fee \in BOOLEAN
        /\ multiplier \in Nat
    BY <2>1, TransactionFeeAssumption, Zenon DEF DispatchInfo
  <2>3. estimate \in Nat
    <3> DEFINE w == info.weight
               c == info.pays_fee
    <3>1. w \in Nat /\ w <= w /\ c \in BOOLEAN /\ (c => c)
      BY <2>2
    <3>2. estimate = compute_fee_raw(len, w, tip, c)
      BY DEF compute_fee
    <3> HIDE DEF w, c
    <3>3. compute_fee_raw(len, w, tip, c) \in Nat
      BY <2>2, <3>1, FeeMonotone, Zenon
    <3> QED
      BY <3>2, <3>3
  <2>4. estimate' = estimate
    BY <2>1 DEF compute_fee, compute_fee_raw
  <2> HIDE DEF estimate
  <2>5. /\ xt'.phase = "prepared" /\ xt'.len = len /\ xt'.info = info /\ xt'.tip = tip
        /\ xt'.estimated_fee_with_tip = estimate /\ xt' \in Applied
    BY <2>1, <2>3 DEF Applied
  <2>6. EstimateCurrent'
    BY <2>1, <2>4, <2>5 DEF EstimateCurrent, estimate
  <2>7. EstimateIsWorstCase'
    BY <2>5 DEF EstimateIsWorstCase
  <2> QED
    BY <2>6, <2>7
<1>2. ASSUME NEW post_info \in PostDispatchInfo, post_dispatch_details(post_info)
      PROVE  FeeInv'
  <2>1. /\ xt \in Applied /\ multiplier \in Multiplier
        /\ xt.estimated_fee_with_tip = compute_fee(xt.len, xt.info, xt.tip)
    BY <1>2 DEF post_dispatch_details, EstimateCurrent, NoXt
  <2> DEFINE v == Least(post_info.actual_weight, xt.info.weight)
             b == xt.info.pays_fee /\ post_info.pays_fee
  <2>2. /\ xt.len \in Nat /\ xt.tip \in Nat /\ multiplier \in Nat
        /\ xt.info.weight \in Nat /\ xt.info.pays_fee \in BOOLEAN
        /\ post_info.actual_weight \in Nat /\ post_info.pays_fee \in BOOLEAN
    BY <2>1, TransactionFeeAssumption, Zenon DEF Applied, DispatchInfo, PostDispatchInfo
  <2>3. v \in Nat /\ v <= xt.info.weight /\ b \in BOOLEAN /\ (b => xt.info.pays_fee)
    BY <2>2 DEF Least
  <2>4. computed' = compute_fee_raw(xt.len, v, xt.tip, b)
    BY <1>2 DEF post_dispatch_details, compute_actual_fee
  <2>5. xt.estimated_fee_with_tip = compute_fee_raw(xt.len, xt.info.weight, xt.tip,
                                                    xt.info.pays_fee)
    BY <2>1 DEF compute_fee
  <2> HIDE DEF v, b
  <2>6. xt.tip <= computed' /\ computed' <= xt.estimated_fee_with_tip
    <3> DEFINE w == xt.info.weight
               c == xt.info.pays_fee
               l == xt.len
               t == xt.tip
    <3>1. /\ w \in Nat /\ v <= w /\ c \in BOOLEAN /\ (b => c) /\ l \in Nat /\ t \in Nat
          /\ v \in Nat /\ b \in BOOLEAN /\ multiplier \in Nat
      BY <2>2, <2>3
    <3>2. /\ computed' = compute_fee_raw(l, v, t, b)
          /\ xt.estimated_fee_with_tip = compute_fee_raw(l, w, t, c)
      BY <2>4, <2>5
    <3> HIDE DEF w, c, l, t
    <3>3. /\ t <= compute_fee_raw(l, v, t, b)
          /\ compute_fee_raw(l, v, t, b) <= compute_fee_raw(l, w, t, c)
      BY <3>1, FeeMonotone, Zenon
    <3> QED
      BY <3>2, <3>3 DEF t
  <2>7. /\ xt' \in Applied /\ multiplier' = multiplier
        /\ xt'.len = xt.len /\ xt'.info = xt.info /\ xt'.tip = xt.tip
        /\ xt'.estimated_fee_with_tip = xt.estimated_fee_with_tip
    BY <1>2, <2>1 DEF post_dispatch_details, Applied
  <2>8. compute_fee(xt.len, xt.info, xt.tip)' = compute_fee(xt.len, xt.info, xt.tip)
    BY <2>7 DEF compute_fee, compute_fee_raw
  <2>9. EstimateCurrent'
    BY <2>1, <2>7, <2>8 DEF EstimateCurrent
  <2>10. EstimateIsWorstCase'
    BY <2>6, <2>7 DEF EstimateIsWorstCase
  <2> QED
    BY <2>9, <2>10
<1>3. CASE next_extrinsic
  BY <1>3 DEF next_extrinsic, EstimateCurrent, EstimateIsWorstCase, NoXt
<1>4. CASE on_finalize
  <2>1. xt = NoXt
    BY <1>4 DEF on_finalize, EstimateCurrent, Applied
  <2> QED
    BY <1>4, <2>1 DEF on_finalize, EstimateCurrent, EstimateIsWorstCase, NoXt
<1>5. CASE UNCHANGED vars
  BY <1>5 DEF vars, EstimateCurrent, EstimateIsWorstCase, compute_fee, compute_fee_raw
<1> QED
  BY <1>1, <1>2, <1>3, <1>4, <1>5 DEF Next

\* The fee found at settlement is never above the reservation of prepare nor below the
\* tip: the clamp in settle_sponsored_fee is dead code, whatever the runtime's scale.
THEOREM ReservationSuffices == Spec => []EstimateIsWorstCase
<1>1. Init => FeeInv
  BY DEF Init, FeeInv, EstimateCurrent, EstimateIsWorstCase, NoXt
<1>2. FeeInv => EstimateIsWorstCase
  BY DEF FeeInv
<1> QED
  BY <1>1, <1>2, FeeStep, PTL DEF Spec

-----------------------------------------------------------------------------
(* ExtensionWeight. *)

Flight ==
    [phase : {"idle", "prepared", "dispatched"}, path : Path \cup {"Unsponsored"},
     declared : Nat, actual : Nat]

\* What the block has registered covers, but for the settlements it has left out, the work
\* done and, until the call has run, what the call may still use of its declared weight.
\* What validate and prepare declare and do not do is still to be given back.
MeteredInv ==
    /\ block \in Nat /\ work \in Nat /\ sponsored \in Nat /\ extrinsic \in Flight
    /\ block <= MaxExtrinsics
    /\ extrinsic.phase = "idle" => work <= block + unregistered
    /\ extrinsic.phase # "idle" => extrinsic.declared <= block
    /\ extrinsic.phase = "prepared" =>
          /\ weight(extrinsic.path) <= extrinsic.declared
          /\ work + extrinsic.declared <= block + overhead(extrinsic.path) + unregistered
    /\ extrinsic.phase = "dispatched" =>
          /\ extrinsic.actual <= extrinsic.declared
          /\ work + extrinsic.declared + weight(extrinsic.path)
                <= block + extrinsic.actual + overhead(extrinsic.path) + unregistered

\* What the settlement of an extrinsic adds to unregistered.
hides(path) == IF path = "Sponsored" THEN 2 * reads_writes(7, 7) ELSE 0

\* On every path weight() covers what validate and prepare do.  What settlement does and what
\* is given back are covered by it too, but for twice the settlement weight of a sponsored
\* extrinsic.
LEMMA PathWeights ==
    ASSUME NEW path \in Path \cup {"Unsponsored"}
    PROVE  /\ weight(path) \in Nat /\ overhead(path) \in Nat /\ overhead(path) <= weight(path)
           /\ settlement_weight(path) \in Nat /\ unspent(path) \in Nat /\ hides(path) \in Nat
           /\ settlement_weight(path) + unspent(path) + overhead(path)
                 <= weight(path) + hides(path)
<1> DEFINE s == reads_writes(2, 2)
           t == reads_writes(7, 7)
<1>1. s \in Nat /\ t \in Nat /\ BaseWeight \in Nat
  BY ExtensionWeightAssumption DEF reads_writes
<1>2. path \in {"Sponsored", "Unsponsored", "NoCharge"}
  BY ExtensionWeightAssumption
<1>3. /\ weight(path) = BaseWeight + (IF path = "Sponsored" THEN s ELSE 0)
      /\ overhead(path) = IF path = "NoCharge" THEN 0
                          ELSE BaseWeight + (IF path = "Sponsored" THEN s ELSE 0)
      /\ settlement_weight(path) = IF path = "Sponsored" THEN t ELSE 0
      /\ unspent(path) = IF path = "NoCharge" THEN BaseWeight
                         ELSE IF path = "Sponsored" THEN t ELSE 0
      /\ hides(path) = IF path = "Sponsored" THEN 2 * t ELSE 0
  BY DEF weight, overhead, settlement_weight, unspent, hides
<1> HIDE DEF s, t
<1> QED
  BY <1>1, <1>2, <1>3, SMT

\* Multiplication distributes over the successor.
LEMMA MulSuccessor ==
    ASSUME NEW m \in Nat, NEW k \in Nat
    PROVE  m * k \in Nat /\ (m + 1) * k = m * k + k
BY SMT

\* unregistered is a number that depends on the settled extrinsics alone.
LEMMA UnregisteredGrows ==
    ASSUME sponsored \in Nat
    PROVE  /\ unregistered \in Nat
           /\ sponsored' = sponsored => unregistered' = unregistered
           /\ sponsored' = 0 => unregistered' = 0
           /\ \A path \in Path \cup {"Unsponsored"} :
                 sponsored' = sponsored + (IF path = "Sponsored" THEN 1 ELSE 0) =>
                     sponsored' \in Nat /\ unregistered' = unregistered + hides(path)
<1> DEFINE c == 2 * reads_writes(7, 7)
<1>1. c \in Nat /\ c' = c
  BY ExtensionWeightAssumption DEF reads_writes
<1>2. unregistered = sponsored * c /\ unregistered' = sponsored' * c
  BY <1>1 DEF unregistered, reads_writes
<1>3. \A path : hides(path) = IF path = "Sponsored" THEN c ELSE 0
  BY DEF hides
<1> HIDE DEF c
<1>4. sponsored * c \in Nat /\ (sponsored + 1) * c = sponsored * c + c /\ 0 * c = 0
  BY <1>1, MulSuccessor, SMT
<1>5. ASSUME NEW path \in Path \cup {"Unsponsored"},
             sponsored' = sponsored + (IF path = "Sponsored" THEN 1 ELSE 0)
      PROVE  sponsored' \in Nat /\ unregistered' = unregistered + hides(path)
  <2>1. CASE path = "Sponsored"
    BY <1>1, <1>2, <1>3, <1>4, <1>5, <2>1
  <2>2. CASE path # "Sponsored"
    <3>1. sponsored' = sponsored /\ hides(path) = 0
      BY <1>3, <1>5, <2>2
    <3> QED
      BY <1>2, <1>4, <3>1
  <2> QED
    BY <2>1, <2>2
<1> QED
  BY <1>2, <1>4, <1>5

\* Every step, on every path, keeps the accounts.
LEMMA MeteredStep ==
    ASSUME MeteredInv, [WeightNext]_weightVars
    PROVE  MeteredInv'
<1> DEFINE D == unregistered
           path0 == extrinsic.path
           W == weight(path0)
           V == overhead(path0)
<1> USE ExtensionWeightAssumption
<1>0. /\ block \in Nat /\ work \in Nat /\ sponsored \in Nat /\ D \in Nat
      /\ path0 \in Path \cup {"Unsponsored"}
      /\ extrinsic.declared \in Nat /\ extrinsic.actual \in Nat
      /\ W \in Nat /\ V \in Nat /\ V <= W
  <2>1. /\ block \in Nat /\ work \in Nat /\ sponsored \in Nat
        /\ path0 \in Path \cup {"Unsponsored"}
        /\ extrinsic.declared \in Nat /\ extrinsic.actual \in Nat
    BY DEF MeteredInv, Flight
  <2> HIDE DEF path0
  <2> QED
    BY <2>1, PathWeights, UnregisteredGrows
<1>1. ASSUME NEW path \in Path, NEW call \in CallWeight, validate_and_prepare(path, call)
      PROVE  MeteredInv'
  <2> DEFINE w == weight(path)
             v == overhead(path)
  <2>1. call \in Nat /\ path \in Path \cup {"Unsponsored"}
    OBVIOUS
  <2>2. w \in Nat /\ v \in Nat /\ v <= w
    BY <2>1, PathWeights
  <2>3. /\ block' = block + call + w /\ block' <= MaxExtrinsics /\ sponsored' = sponsored
        /\ work' = work + v /\ work <= block + D
        /\ extrinsic' = [phase |-> "prepared", path |-> path,
                         declared |-> call + w, actual |-> 0]
    BY <1>1 DEF validate_and_prepare, MeteredInv
  <2>4. weight(extrinsic.path)' = w /\ overhead(extrinsic.path)' = v
    BY <2>3 DEF weight, overhead, reads_writes
  <2>5. unregistered' = D
    BY <1>0, <2>3, UnregisteredGrows
  <2> HIDE DEF w, v, D
  <2>6. extrinsic' \in Flight /\ extrinsic'.phase = "prepared" /\ extrinsic'.declared = call + w
    BY <2>1, <2>2, <2>3 DEF Flight
  <2>7. /\ block' \in Nat /\ work' \in Nat /\ sponsored' \in Nat
        /\ w <= call + w /\ call + w <= block'
        /\ work' + (call + w) <= block' + v + D
    BY <1>0, <2>1, <2>2, <2>3
  <2> QED
    BY <2>3, <2>4, <2>5, <2>6, <2>7 DEF MeteredInv
<1>2. ASSUME NEW used \in CallWeight, dispatch(used)
      PROVE  MeteredInv'
  <2> DEFINE n == used + W
  <2>1. /\ used \in Nat /\ n \in Nat
        /\ work' = work + used /\ n <= extrinsic.declared
        /\ block' = block /\ sponsored' = sponsored
        /\ extrinsic' = [extrinsic EXCEPT !.phase = "dispatched", !.actual = n]
        /\ extrinsic.declared <= block /\ block <= MaxExtrinsics
        /\ work + extrinsic.declared <= block + V + D
    BY <1>0, <1>2 DEF dispatch, MeteredInv
  <2>2. /\ extrinsic' \in Flight /\ extrinsic'.phase = "dispatched"
        /\ extrinsic'.declared = extrinsic.declared /\ extrinsic'.actual = n
        /\ extrinsic'.path = path0
    <3> DEFINE P == Path \cup {"Unsponsored"}
    <3>1. extrinsic \in [phase : {"idle", "prepared", "dispatched"}, path : P, declared : Nat,
                         actual : Nat]
      BY DEF MeteredInv, Flight
    <3> HIDE DEF n, P
    <3>2. extrinsic' = [phase |-> "dispatched", path |-> extrinsic.path,
                        declared |-> extrinsic.declared, actual |-> n]
      BY <2>1, <3>1, Zenon
    <3>3. extrinsic' \in [phase : {"idle", "prepared", "dispatched"}, path : P, declared : Nat,
                          actual : Nat]
      BY <2>1, <3>1, <3>2
    <3> QED
      BY <3>2, <3>3 DEF Flight, P
  <2>3. weight(extrinsic.path)' = W /\ overhead(extrinsic.path)' = V
    BY <2>2 DEF weight, overhead, reads_writes
  <2>4. unregistered' = D
    BY <1>0, <2>1, UnregisteredGrows
  <2>5. work' + extrinsic.declared + W <= block + n + V + D /\ work' \in Nat
    <3> HIDE DEF W, V, D
    <3> QED
      BY <1>0, <2>1
  <2> HIDE DEF n, W, V, D, path0
  <2> QED
    BY <1>0, <2>1, <2>2, <2>3, <2>4, <2>5 DEF MeteredInv
<1>3. CASE post_dispatch
  <2> DEFINE S == settlement_weight(path0)
             U == unspent(path0)
             H == hides(path0)
             left == Monus(extrinsic.actual, U)
  <2>1. /\ work' = work + S /\ block' = block - (extrinsic.declared - left)
        /\ extrinsic' = NoExtrinsic /\ extrinsic.phase = "dispatched"
        /\ sponsored' = sponsored + (IF path0 = "Sponsored" THEN 1 ELSE 0)
    BY <1>3 DEF post_dispatch
  <2>2. /\ extrinsic.declared <= block /\ block <= MaxExtrinsics
        /\ extrinsic.actual <= extrinsic.declared
        /\ work + extrinsic.declared + W <= block + extrinsic.actual + V + D
    BY <2>1 DEF MeteredInv
  <2>3. S \in Nat /\ U \in Nat /\ H \in Nat /\ S + U + V <= W + H
    <3> HIDE DEF path0
    <3> QED
      BY <1>0, PathWeights
  <2>4. sponsored' \in Nat /\ unregistered' = D + H
    <3> HIDE DEF path0
    <3> QED
      BY <1>0, <2>1, UnregisteredGrows, Zenon
  <2> HIDE DEF S, U, H, W, V, D, path0
  <2>5. left \in Nat /\ left <= extrinsic.actual /\ extrinsic.actual <= left + U
    BY <1>0, <2>3 DEF Monus
  <2> HIDE DEF left
  <2>6. /\ block' \in Nat /\ block' <= MaxExtrinsics /\ work' \in Nat
        /\ work' <= block' + (D + H)
    BY <1>0, <2>1, <2>2, <2>3, <2>5
  <2>7. extrinsic' \in Flight /\ extrinsic'.phase = "idle"
    BY <2>1 DEF Flight, NoExtrinsic
  <2> QED
    BY <2>4, <2>6, <2>7 DEF MeteredInv
<1>4. CASE initialize_block
  <2>1. unregistered' = 0
    BY <1>0, <1>4, UnregisteredGrows DEF initialize_block
  <2> QED
    BY <1>4, <2>1 DEF initialize_block, MeteredInv
<1>5. CASE UNCHANGED weightVars
  <2>1. unregistered' = D
    BY <1>0, <1>5, UnregisteredGrows DEF weightVars
  <2>2. weight(extrinsic.path)' = W /\ overhead(extrinsic.path)' = V
    BY <1>5 DEF weightVars, weight, overhead, reads_writes
  <2> QED
    BY <1>5, <2>1, <2>2 DEF weightVars, MeteredInv
<1> QED
  BY <1>1, <1>2, <1>3, <1>4, <1>5 DEF WeightNext

\* A block that has done nothing has nothing to account for.
LEMMA MeteredInit == WeightInit => MeteredInv
<1> SUFFICES ASSUME WeightInit PROVE MeteredInv
  OBVIOUS
<1>1. sponsored = 0 /\ unregistered \in Nat
  BY UnregisteredGrows DEF WeightInit
<1> QED
  BY <1>1, ExtensionWeightAssumption DEF WeightInit, MeteredInv, Flight, NoExtrinsic

\* Whatever paths the extrinsics of a block take, its account is short by the settlements of
\* settle_sponsored_fee, counted twice, and by nothing else.
THEOREM ShortfallBounded == WeightSpec => []ShortfallIsSettlement
<1>1. MeteredInv => ShortfallIsSettlement
  BY DEF MeteredInv, ShortfallIsSettlement
<1> QED
  BY <1>1, MeteredInit, MeteredStep, PTL DEF WeightSpec

\* Whatever paths they take, the work of a block exceeds its limit by no more than that, at
\* any point of any extrinsic.
THEOREM OverrunBounded == WeightSpec => []OverrunIsSettlement
<1>1. MeteredInv => OverrunIsSettlement
  <2> SUFFICES ASSUME MeteredInv PROVE work <= MaxExtrinsics + unregistered
    BY DEF OverrunIsSettlement
  <2> DEFINE path0 == extrinsic.path
             W == weight(path0)
             V == overhead(path0)
             D == unregistered
  <2>1. /\ block \in Nat /\ work \in Nat /\ sponsored \in Nat
        /\ path0 \in Path \cup {"Unsponsored"} /\ block <= MaxExtrinsics
        /\ extrinsic.declared \in Nat /\ extrinsic.actual \in Nat
        /\ extrinsic.phase \in {"idle", "prepared", "dispatched"}
    BY DEF MeteredInv, Flight
  <2>2. W \in Nat /\ V \in Nat /\ V <= W /\ D \in Nat
    <3> HIDE DEF path0
    <3> QED
      BY <2>1, PathWeights, UnregisteredGrows
  <2>3. \/ work <= block + D
        \/ W <= extrinsic.declared /\ work + extrinsic.declared <= block + V + D
        \/ /\ extrinsic.actual <= extrinsic.declared
           /\ work + extrinsic.declared + W <= block + extrinsic.actual + V + D
    BY <2>1 DEF MeteredInv
  <2>4. work <= MaxExtrinsics + D
    <3> HIDE DEF W, V, D, path0
    <3> QED
      BY <2>1, <2>2, <2>3, ExtensionWeightAssumption
  <2> QED
    BY <2>4
<1> QED
  BY <1>1, MeteredInit, MeteredStep, PTL DEF WeightSpec

-----------------------------------------------------------------------------
(* TemplatePallet. *)

\* The accounting holds for every width of BlockNumber.
THEOREM Accounted == TemplateSpec => []StoredIsAccounted
<1>1. TemplateInit => StoredIsAccounted
  BY DEF TemplateInit, StoredIsAccounted
<1>2. StoredIsAccounted /\ [TemplateNext]_templateVars => StoredIsAccounted'
  <2> SUFFICES ASSUME StoredIsAccounted, [TemplateNext]_templateVars PROVE StoredIsAccounted'
    OBVIOUS
  <2> USE TemplateAssumption DEF BlockNumber
  <2>1. ASSUME NEW error, fails(error) PROVE StoredIsAccounted'
    BY <2>1 DEF fails, StoredIsAccounted, Event
  <2>2. ASSUME NEW origin \in AccountId \cup {NotSigned}, NEW bn \in BlockNumber,
               do_something(origin, bn)
        PROVE  StoredIsAccounted'
    <3>1. CASE origin = NotSigned
      BY <2>1, <2>2, <3>1 DEF do_something
    <3>2. CASE origin \in AccountId
      <4>1. /\ Something' = bn /\ bn \in Nat /\ increments' = 0
            /\ stored' = [block_number |-> bn, who |-> origin]
        BY <2>2, <3>2 DEF do_something
      <4> QED
        BY <3>2, <4>1 DEF StoredIsAccounted, Event
    <3> QED
      BY <3>1, <3>2
  <2>3. ASSUME NEW origin \in AccountId \cup {NotSigned}, cause_error(origin)
        PROVE  StoredIsAccounted'
    <3>1. CASE Something # NoValue /\ add_checked
      <4>1. CASE Something = MAX
        BY <2>1, <3>1, <4>1 DEF add_checked
      <4>2. CASE Something < MAX
        BY <3>1, <4>2 DEF add_checked, StoredIsAccounted, Event, fails
      <4> QED
        BY <3>1, <4>1, <4>2 DEF add_checked
    <3> QED
      BY <2>1, <2>3, <3>1 DEF cause_error
  <2>4. CASE UNCHANGED templateVars
    BY <2>4 DEF templateVars, StoredIsAccounted, Event
  <2> QED
    BY <2>2, <2>3, <2>4 DEF TemplateNext
<1> QED
  BY <1>1, <1>2, PTL DEF TemplateSpec

-----------------------------------------------------------------------------
(* NodeService: start-up and the end of the node. *)

\* The calls start_parachain_node makes once it has the relay chain interface.
AfterRelay ==
    {"parachain_id", "network", "offchain", "spawn_tasks", "hwbench", "overseer_handle",
     "relay_chain_tasks", "bootnode", "consensus", "running"}

Spawned == tasks \cup ended

\* What each stage of start-up has obtained and spawned: the strengthening that carries
\* the collator key and the tasks from where they are made to where they are needed.
Wired ==
    /\ outcome # "Panic"
    /\ pc \in AfterRelay /\ is_authority => "collator_key" \in handles
    /\ pc \in AfterRelay \cup {"relay_interface"} => {"txpool", "import-queue"} \subseteq Spawned
    /\ pc \in AfterRelay => "relay-chain-node" \in Spawned
    /\ pc \in {"bootnode", "consensus", "running"} => "cumulus-consensus" \in Spawned
    /\ "aura" \in Spawned <=> (pc = "running" /\ is_authority)

\* Leaving the process re-establishes Wired, unless it is the panic.
LEMMA ExitWired ==
    ASSUME NEW answer, answer # "Panic", exit(answer)
    PROVE  Wired'
BY DEF exit, Wired, AfterRelay, Spawned

\* Without a process there is nothing to wire.
LEMMA WiredInit == NodeInit => Wired
BY DEF NodeInit, Wired, AfterRelay, Spawned

\* A step before the relay chain interface.
LEMMA RunWired == Wired /\ (run \/ relay_config \/ command \/ new_partial) => Wired'
<1> SUFFICES ASSUME Wired, run \/ relay_config \/ command \/ new_partial PROVE Wired'
  OBVIOUS
<1>1. CASE run
  <2>1. CASE proceed(after_runner(cli.cmd), {}, {})
    <3>1. after_runner(cli.cmd) \in {"new_partial", "relay_config", "command"}
      BY DEF after_runner
    <3>2. pc = "run"
      BY <1>1 DEF run
    <3> QED BY <2>1, <3>1, <3>2 DEF proceed, Wired, AfterRelay, Spawned, is_authority
  <2> QED BY <1>1, <2>1, ExitWired DEF run
<1>2. CASE relay_config
  <2>1. CASE proceed("new_partial", {}, {}) \/ proceed("command", {}, {})
    BY <1>2, <2>1 DEF relay_config, proceed, Wired, AfterRelay, Spawned, is_authority
  <2> QED BY <1>2, <2>1, ExitWired DEF relay_config
<1>3. CASE command
  BY <1>3, ExitWired DEF command
<1>4. CASE new_partial
  <2>1. CASE proceed(after_partial, {"client", "import_queue"}, partial_tasks)
    <3>1. after_partial \in {"relay_interface", "command"}
      BY DEF after_partial
    <3>2. {"txpool", "import-queue"} \subseteq partial_tasks /\ "aura" \notin partial_tasks
      BY DEF partial_tasks, build_import_queue
    <3>3. pc = "new_partial"
      BY <1>4 DEF new_partial
    <3> QED BY <2>1, <3>1, <3>2, <3>3 DEF proceed, Wired, AfterRelay, Spawned, is_authority
  <2> QED BY <1>4, <2>1, ExitWired DEF new_partial
<1> QED BY <1>1, <1>2, <1>3, <1>4

\* The steps from the relay chain interface to the running node.
LEMMA StartWired == Wired /\ start_parachain_node => Wired'
<1> SUFFICES ASSUME Wired, start_parachain_node PROVE Wired'
  OBVIOUS
<1> USE DEF proceed, Wired, AfterRelay, Spawned, is_authority
<1>1. CASE new_partial
  BY <1>1, RunWired
<1>2. CASE build_relay_chain_interface
  <2>1. CASE proceed("parachain_id", relay_interface_parts, {"relay-chain-node"})
    BY <1>2, <2>1 DEF build_relay_chain_interface, relay_interface_parts
  <2> QED BY <1>2, <2>1, ExitWired DEF build_relay_chain_interface
<1>3. CASE parachain_id
  BY <1>3, ExitWired DEF parachain_id
<1>4. CASE build_network
  BY <1>4, ExitWired DEF build_network
<1>5. CASE offchain_workers
  BY <1>5, ExitWired DEF offchain_workers
<1>6. CASE spawn_tasks
  BY <1>6, ExitWired DEF spawn_tasks, create_full
<1>7. CASE hwbench
  BY <1>7 DEF hwbench, hwbench_tasks
<1>8. CASE overseer_handle
  BY <1>8, ExitWired DEF overseer_handle
<1>9. CASE start_relay_chain_tasks
  BY <1>9, ExitWired DEF start_relay_chain_tasks
<1>10. CASE start_bootnode_tasks
  BY <1>10 DEF start_bootnode_tasks
<1>11. CASE start_consensus
  BY <1>11 DEF start_consensus, collate
<1> QED
  BY <1>1, <1>2, <1>3, <1>4, <1>5, <1>6, <1>7, <1>8, <1>9, <1>10, <1>11, Zenon
  DEF start_parachain_node

\* Every step of the process, of its tasks and of its user preserves the wiring.
LEMMA NextWired == Wired /\ [NodeNext]_nodeVars => Wired'
<1> SUFFICES ASSUME Wired, [NodeNext]_nodeVars PROVE Wired'
  OBVIOUS
<1>1. ASSUME NEW args \in Args, start(args) PROVE Wired'
  BY <1>1 DEF start, Wired, AfterRelay, Spawned, is_authority
<1>2. CASE run \/ relay_config \/ command
  BY <1>2, RunWired
<1>3. CASE start_parachain_node
  BY <1>3, StartWired
<1>4. CASE run_node_until_exit
  BY <1>4, ExitWired DEF run_node_until_exit
<1>5. ASSUME NEW t \in tasks, task_ends(t) PROVE Wired'
  BY <1>5 DEF task_ends, Wired, AfterRelay, Spawned, is_authority
<1>6. CASE signal
  BY <1>6 DEF signal, Wired, AfterRelay, Spawned, is_authority
<1>7. CASE UNCHANGED nodeVars
  BY <1>7 DEF nodeVars, Wired, AfterRelay, Spawned, is_authority
<1> QED BY <1>1, <1>2, <1>3, <1>4, <1>5, <1>6, <1>7 DEF NodeNext, Step

\* At every point of start_parachain_node the tasks and handles of the earlier calls are
\* there, or their tasks have ended since.
THEOREM AlwaysWired == NodeSpec => []Wired
BY WiredInit, NextWired, PTL DEF NodeSpec

\* No command line makes collator_key.expect of start_parachain_node panic.
THEOREM NeverPanics == NodeSpec => []NoPanic
<1>1. Wired => NoPanic
  BY DEF Wired, NoPanic
<1> QED BY <1>1, AlwaysWired, PTL

\* A running node that has lost none of the tasks of its role serves that role.
THEOREM RunningServes == NodeSpec => []UpMeansServing
<1>1. Wired => UpMeansServing
  BY DEF Wired, UpMeansServing, Vital, Spawned, AfterRelay, is_authority
<1> QED BY <1>1, AlwaysWired, PTL

-----------------------------------------------------------------------------
(* Types. *)

\* The tasks that the calls before a stage may have spawned.  No call spawns a task that an
\* earlier one has spawned, which keeps the running tasks apart from the ended ones.
SpawnedBy(stage) ==
    LET partial == {"txpool", "import-queue", "telemetry"}
        network == partial \cup {"relay-chain-node", "network"}
        informant == network \cup {"offchain-workers", "informant"}
        consensus == informant \cup {"telemetry_hwbench", "cumulus-consensus", "bootnode"}
    IN  CASE stage \in {"down", "run", "relay_config", "new_partial"} -> {}
          [] stage \in {"command", "relay_interface"} -> partial
          [] stage \in {"parachain_id", "network"} -> partial \cup {"relay-chain-node"}
          [] stage = "offchain" -> network
          [] stage = "spawn_tasks" -> network \cup {"offchain-workers"}
          [] stage = "hwbench" -> informant
          [] stage \in {"overseer_handle", "relay_chain_tasks"} ->
                informant \cup {"telemetry_hwbench"}
          [] stage = "bootnode" -> consensus \ {"bootnode"}
          [] stage = "consensus" -> consensus
          [] OTHER -> consensus \cup {"aura"}

\* The inductive form of TypeOK.
TypeInv ==
    /\ TypeOK
    /\ IsFiniteSet(ended)
    /\ Spawned \subseteq SpawnedBy(pc)

\* Before the first process there are no tasks.
LEMMA TypeInit == NodeInit => TypeInv
<1> SUFFICES ASSUME NodeInit PROVE TypeInv
  OBVIOUS
<1>1. cli \in Cli
  <2>1. PICK args : args \in Args
    BY NodeServiceAssumption
  <2>2. NoArgs \in Args
    BY <2>1 DEF NoArgs
  <2> QED BY <2>2, NodeServiceAssumption DEF NodeInit
<1>2. IsFiniteSet(ended) /\ Cardinality(ended) = 0
  BY FS_EmptySet DEF NodeInit
<1>3. Spawned \subseteq SpawnedBy(pc) /\ tasks \cap ended = {}
  BY DEF NodeInit, Spawned
<1>4. outcome \in Results /\ signalled \in BOOLEAN
  BY Zenon DEF NodeInit, Results
<1> QED BY <1>1, <1>2, <1>3, <1>4, NodeServiceAssumption DEF TypeInv, TypeOK

\* The end of a process drops every task.
LEMMA ExitTyped ==
    ASSUME TypeInv, NEW answer \in Results, exit(answer)
    PROVE  TypeInv'
<1>1. IsFiniteSet(ended') /\ Cardinality(ended') = 0
  BY FS_EmptySet DEF exit
<1>2. Spawned' \subseteq SpawnedBy(pc')
  BY DEF exit, Spawned
<1>3. cli' \in Cli /\ outcome' \in Results /\ signalled' \in BOOLEAN /\ tasks' \cap ended' = {}
  BY Zenon DEF exit, TypeInv, TypeOK
<1> QED BY <1>1, <1>2, <1>3, NodeServiceAssumption DEF TypeInv, TypeOK

\* A call of start-up that spawns new tasks only.
LEMMA ProceedTyped ==
    ASSUME TypeInv, NEW next, NEW obtained, NEW spawned, proceed(next, obtained, spawned),
           spawned \cap SpawnedBy(pc) = {}, SpawnedBy(pc) \cup spawned \subseteq SpawnedBy(next)
    PROVE  TypeInv'
<1>1. tasks' = tasks \cup spawned /\ ended' = ended /\ pc' = next
  BY DEF proceed
<1>2. Spawned' \subseteq SpawnedBy(pc')
  BY <1>1 DEF TypeInv, Spawned
<1>3. tasks' \cap ended' = {}
  BY <1>1 DEF TypeInv, TypeOK, Spawned
<1>4. cli' \in Cli /\ outcome' \in Results /\ signalled' \in BOOLEAN
      /\ Cardinality(ended') <= MaxEnded /\ IsFiniteSet(ended')
  BY <1>1 DEF proceed, TypeInv, TypeOK
<1> QED BY <1>2, <1>3, <1>4 DEF TypeInv, TypeOK

\* A task moves from those that run to those that have ended, within the bound.
LEMMA TaskEndsTyped ==
    ASSUME TypeInv, NEW t, task_ends(t)
    PROVE  TypeInv'
<1>1. t \in tasks /\ Cardinality(ended) < MaxEnded
      /\ tasks' = tasks \ {t} /\ ended' = ended \cup {t} /\ pc' = pc
  BY DEF task_ends
<1>2. Spawned' \subseteq SpawnedBy(pc') /\ tasks' \cap ended' = {}
  BY <1>1 DEF TypeInv, TypeOK, Spawned
<1>3. IsFiniteSet(ended') /\ Cardinality(ended') <= MaxEnded
  <2>1. IsFiniteSet(ended) /\ Cardinality(ended) \in Nat
    BY FS_CardinalityType DEF TypeInv
  <2>2. IsFiniteSet(ended \cup {t})
        /\ (Cardinality(ended \cup {t}) = Cardinality(ended)
            \/ Cardinality(ended \cup {t}) = Cardinality(ended) + 1)
    BY <2>1, FS_AddElement
  <2> QED BY <1>1, <2>1, <2>2, NodeServiceAssumption
<1>4. cli' \in Cli /\ outcome' \in Results /\ signalled' \in BOOLEAN
  BY DEF task_ends, TypeInv, TypeOK
<1> QED BY <1>2, <1>3, <1>4 DEF TypeInv, TypeOK

\* The calls of start_parachain_node.
LEMMA StartTyped == TypeInv /\ start_parachain_node => TypeInv'
<1> SUFFICES ASSUME TypeInv, start_parachain_node PROVE TypeInv'
  OBVIOUS
<1>0. {"ConfigError", "Error", "Panic"} \subseteq Results
  BY DEF Results
<1>1. CASE new_partial
  <2>1. CASE proceed(after_partial, {"client", "import_queue"}, partial_tasks)
    <3>1. SpawnedBy(pc) = {}
      BY <1>1 DEF new_partial, SpawnedBy
    <3>2. partial_tasks \subseteq SpawnedBy(after_partial)
      BY DEF partial_tasks, build_import_queue, after_partial, SpawnedBy
    <3> QED BY <2>1, <3>1, <3>2, ProceedTyped
  <2> QED BY <1>0, <1>1, <2>1, ExitTyped DEF new_partial
<1>2. CASE build_relay_chain_interface
  <2>1. CASE proceed("parachain_id", relay_interface_parts, {"relay-chain-node"})
    <3>1. pc = "relay_interface"
      BY <1>2 DEF build_relay_chain_interface
    <3>2. {"relay-chain-node"} \cap SpawnedBy(pc) = {}
          /\ SpawnedBy(pc) \cup {"relay-chain-node"} \subseteq SpawnedBy("parachain_id")
      BY <3>1 DEF SpawnedBy
    <3> QED BY <2>1, <3>2, ProceedTyped
  <2> QED BY <1>0, <1>2, <2>1, ExitTyped DEF build_relay_chain_interface
<1>3. CASE parachain_id
  <2>1. CASE proceed("network", {"para_id"}, {})
    <3>1. SpawnedBy(pc) = SpawnedBy("network")
      BY <1>3 DEF parachain_id, SpawnedBy
    <3> QED BY <2>1, <3>1, ProceedTyped
  <2> QED BY <1>0, <1>3, <2>1, ExitTyped DEF parachain_id
<1>4. CASE build_network
  <2>1. CASE proceed("offchain", {"network", "sync_service"}, {"network"})
    <3>1. {"network"} \cap SpawnedBy(pc) = {}
          /\ SpawnedBy(pc) \cup {"network"} \subseteq SpawnedBy("offchain")
      BY <1>4 DEF build_network, SpawnedBy
    <3> QED BY <2>1, <3>1, ProceedTyped
  <2> QED BY <1>0, <1>4, <2>1, ExitTyped DEF build_network
<1>5. CASE offchain_workers
  <2>1. {"offchain-workers"} \cap SpawnedBy(pc) = {}
        /\ SpawnedBy(pc) \cup {"offchain-workers"} \subseteq SpawnedBy("spawn_tasks")
    BY <1>5 DEF offchain_workers, SpawnedBy
  <2>2. CASE proceed("spawn_tasks", {}, {"offchain-workers"})
    BY <2>1, <2>2, ProceedTyped
  <2>3. CASE proceed("spawn_tasks", {}, {})
    BY <2>1, <2>3, ProceedTyped
  <2> QED BY <1>0, <1>5, <2>2, <2>3, ExitTyped DEF offchain_workers
<1>6. CASE spawn_tasks
  <2>1. CASE proceed("hwbench", create_full, {"informant"})
    <3>1. {"informant"} \cap SpawnedBy(pc) = {}
          /\ SpawnedBy(pc) \cup {"informant"} \subseteq SpawnedBy("hwbench")
      BY <1>6 DEF spawn_tasks, SpawnedBy
    <3> QED BY <2>1, <3>1, ProceedTyped
  <2> QED BY <1>0, <1>6, <2>1, ExitTyped DEF spawn_tasks
<1>7. CASE hwbench
  <2>1. hwbench_tasks \cap SpawnedBy(pc) = {}
        /\ SpawnedBy(pc) \cup hwbench_tasks \subseteq SpawnedBy("overseer_handle")
    BY <1>7 DEF hwbench, hwbench_tasks, SpawnedBy
  <2> QED BY <1>7, <2>1, ProceedTyped DEF hwbench
<1>8. CASE overseer_handle
  <2>1. CASE proceed("relay_chain_tasks", {"overseer_handle"}, {})
    <3>1. SpawnedBy(pc) = SpawnedBy("relay_chain_tasks")
      BY <1>8 DEF overseer_handle, SpawnedBy
    <3> QED BY <2>1, <3>1, ProceedTyped
  <2> QED BY <1>0, <1>8, <2>1, ExitTyped DEF overseer_handle
<1>9. CASE start_relay_chain_tasks
  <2>1. CASE proceed("bootnode", {"relay_chain_tasks"}, {"cumulus-consensus"})
    <3>1. {"cumulus-consensus"} \cap SpawnedBy(pc) = {}
          /\ SpawnedBy(pc) \cup {"cumulus-consensus"} \subseteq SpawnedBy("bootnode")
      BY <1>9 DEF start_relay_chain_tasks, SpawnedBy
    <3> QED BY <2>1, <3>1, ProceedTyped
  <2> QED BY <1>0, <1>9, <2>1, ExitTyped DEF start_relay_chain_tasks
<1>10. CASE start_bootnode_tasks
  <2>1. {"bootnode"} \cap SpawnedBy(pc) = {}
        /\ SpawnedBy(pc) \cup {"bootnode"} \subseteq SpawnedBy("consensus")
    BY <1>10 DEF start_bootnode_tasks, SpawnedBy
  <2> QED BY <1>10, <2>1, ProceedTyped DEF start_bootnode_tasks
<1>11. CASE start_consensus
  <2>1. {"aura"} \cap SpawnedBy(pc) = {}
        /\ SpawnedBy(pc) \cup {"aura"} \subseteq SpawnedBy("running")
    BY <1>11 DEF start_consensus, SpawnedBy
  <2>2. CASE proceed("running", {}, {"aura"})
    BY <2>1, <2>2, ProceedTyped
  <2>3. CASE proceed("running", {}, {})
    BY <2>1, <2>3, ProceedTyped
  <2> QED BY <1>0, <1>11, <2>2, <2>3, ExitTyped DEF start_consensus, collate
<1> QED
  BY <1>1, <1>2, <1>3, <1>4, <1>5, <1>6, <1>7, <1>8, <1>9, <1>10, <1>11
  DEF start_parachain_node

\* Every step of the process, of its tasks and of its user preserves the types.
LEMMA NextTyped == TypeInv /\ [NodeNext]_nodeVars => TypeInv'
<1> SUFFICES ASSUME TypeInv, [NodeNext]_nodeVars PROVE TypeInv'
  OBVIOUS
<1>0. {"ConfigError", "Error", "Unsupported", "Ok"} \subseteq Results
  BY DEF Results
<1>1. ASSUME NEW args \in Args, start(args) PROVE TypeInv'
  <2>1. SpawnedBy(pc') = SpawnedBy(pc)
    BY <1>1 DEF start, SpawnedBy
  <2>2. cli' \in Cli /\ outcome' \in Results
    BY <1>1, NodeServiceAssumption DEF start, Results
  <2> QED BY <1>1, <2>1, <2>2 DEF start, TypeInv, TypeOK, Spawned
<1>2. CASE run
  <2>1. CASE proceed(after_runner(cli.cmd), {}, {})
    <3>1. SpawnedBy(pc) = {}
      BY <1>2 DEF run, SpawnedBy
    <3> QED BY <2>1, <3>1, ProceedTyped
  <2> QED BY <1>0, <1>2, <2>1, ExitTyped DEF run
<1>3. CASE relay_config
  <2>1. SpawnedBy(pc) = {}
    BY <1>3 DEF relay_config, SpawnedBy
  <2>2. CASE proceed("new_partial", {}, {})
    BY <2>1, <2>2, ProceedTyped
  <2>3. CASE proceed("command", {}, {})
    BY <2>1, <2>3, ProceedTyped
  <2> QED BY <1>0, <1>3, <2>2, <2>3, ExitTyped DEF relay_config
<1>4. CASE command
  BY <1>0, <1>4, ExitTyped DEF command
<1>5. CASE start_parachain_node
  BY <1>5, StartTyped
<1>6. CASE run_node_until_exit
  BY <1>0, <1>6, ExitTyped DEF run_node_until_exit
<1>7. ASSUME NEW t \in tasks, task_ends(t) PROVE TypeInv'
  BY <1>7, TaskEndsTyped
<1>8. CASE signal
  BY <1>8 DEF signal, TypeInv, TypeOK, Spawned
<1>9. CASE UNCHANGED nodeVars
  BY <1>9 DEF nodeVars, TypeInv, TypeOK, Spawned
<1> QED BY <1>1, <1>2, <1>3, <1>4, <1>5, <1>6, <1>7, <1>8, <1>9 DEF NodeNext, Step

\* No call of run or start_parachain_node spawns a task twice, so a task runs or has
\* ended; the process always has arguments that run was given and an outcome run returns.
THEOREM TypeCorrect == NodeSpec => []TypeOK
<1>1. TypeInv => TypeOK
  BY DEF TypeInv
<1> QED BY <1>1, TypeInit, NextTyped, PTL DEF NodeSpec

-----------------------------------------------------------------------------
(* The built-in chains. *)

\* load_spec finds a specification for a built-in chain, and the runtime its preset.
LEMMA BuiltinSpec ==
    ASSUME cli.chain \in Builtin
    PROVE  /\ spec \in {development_chain_spec, local_chain_spec}
           /\ spec # None
           /\ spec.relay_chain = RELAY_CHAIN
           /\ get_preset(spec.preset) \in {development_config_genesis, local_testnet_genesis}
           /\ get_preset(spec.preset) # None
<1>1. spec \in {development_chain_spec, local_chain_spec}
  BY Zenon DEF spec, load_spec, Builtin
<1>2. get_preset(spec.preset) \in {development_config_genesis, local_testnet_genesis}
  <2>1. CASE spec = development_chain_spec
    <3>1. spec.preset = "development"
      BY <2>1 DEF development_chain_spec
    <3> QED BY <3>1 DEF get_preset
  <2>2. CASE spec = local_chain_spec
    <3>1. spec.preset = "local_testnet"
      BY <2>2 DEF local_chain_spec
    <3> QED BY <3>1 DEF get_preset
  <2> QED BY <1>1, <2>1, <2>2
<1>3. spec.relay_chain = RELAY_CHAIN
  BY <1>1 DEF development_chain_spec, local_chain_spec
<1> QED BY <1>1, <1>2, <1>3, ChainSpecAssumption

\* The calls that end with a configuration error.
LEMMA ConfigErrorStarts ==
    ASSUME BuiltinChainsStart, run \/ relay_config \/ new_partial
    PROVE  BuiltinChainsStart'
<1> SUFFICES ASSUME outcome' = "ConfigError", cli'.chain \in Builtin
             PROVE  cli'.relay_chain \notin {""} \cup KnownRelayChain
  BY Zenon DEF BuiltinChainsStart
<1>1. cli' = cli
  BY DEF run, relay_config, new_partial, exit, proceed
<1>2. CASE run
  <2>1. spec # None
    BY <1>1, BuiltinSpec
  <2> QED BY <1>1, <1>2, <2>1, Zenon DEF run, exit, proceed, BuiltinChainsStart
<1>3. CASE relay_config
  <2>1. CASE chain_id \notin KnownRelayChain
    BY <1>1, <2>1, BuiltinSpec, NodeServiceAssumption, Zenon DEF chain_id, extension_chain_id
  <2> QED BY <1>1, <1>3, <2>1, Zenon DEF relay_config, proceed, BuiltinChainsStart
<1>4. CASE new_partial
  <2>1. ~new_full_parts_fails
    BY <1>1, BuiltinSpec DEF new_full_parts_fails
  <2> QED BY <1>1, <1>4, <2>1, Zenon DEF new_partial, exit, proceed, BuiltinChainsStart
<1> QED BY <1>2, <1>3, <1>4, Zenon

\* load_spec, RelayChainCli::new and new_full_parts fail on a built-in chain only when the
\* command line names a relay chain that is not known.
THEOREM BuiltinChainsAlwaysStart == NodeSpec => []BuiltinChainsStart
<1>1. NodeInit => BuiltinChainsStart
  BY Zenon DEF NodeInit, BuiltinChainsStart
<1>2. BuiltinChainsStart /\ [NodeNext]_nodeVars => BuiltinChainsStart'
  <2> SUFFICES ASSUME BuiltinChainsStart, [NodeNext]_nodeVars PROVE BuiltinChainsStart'
    OBVIOUS
  <2>1. CASE run \/ relay_config \/ new_partial
    BY <2>1, ConfigErrorStarts
  <2>2. ASSUME NEW args \in Args, start(args) PROVE BuiltinChainsStart'
    BY <2>2, Zenon DEF start, BuiltinChainsStart
  <2>3. CASE command \/ run_node_until_exit
    BY <2>3, Zenon DEF command, run_node_until_exit, exit, BuiltinChainsStart
  <2>4. CASE start_parachain_node /\ ~new_partial
    BY <2>4, Zenon DEF start_parachain_node, build_relay_chain_interface, parachain_id,
       build_network, offchain_workers, spawn_tasks, hwbench, overseer_handle,
       start_relay_chain_tasks, start_bootnode_tasks, start_consensus, collate, exit,
       proceed, BuiltinChainsStart
  <2>5. ASSUME NEW t \in tasks, task_ends(t) PROVE BuiltinChainsStart'
    BY <2>5, Zenon DEF task_ends, BuiltinChainsStart
  <2>6. CASE signal
    BY <2>6, Zenon DEF signal, BuiltinChainsStart
  <2>7. CASE UNCHANGED nodeVars
    BY <2>7, Zenon DEF nodeVars, BuiltinChainsStart
  <2> QED BY <2>1, <2>2, <2>3, <2>4, <2>5, <2>6, <2>7 DEF NodeNext, Step
<1> QED BY <1>1, <1>2, PTL DEF NodeSpec

\* What testnet_genesis makes of the two collators of a preset, whatever the existential
\* deposit: it endows them with more than the candidacy bond.
THEOREM GenesisAlwaysCollates == NodeSpec => []GenesisCollates
<1>1. GenesisCollates
  <2> SUFFICES ASSUME cli.chain \in Builtin PROVE GenesisCollates
    BY DEF GenesisCollates
  <2> DEFINE genesis == get_preset(spec.preset)
             keys == {<<"Alice", [aura |-> "AliceAura"]>>, <<"Bob", [aura |-> "BobAura"]>>}
  <2>1. genesis = testnet_genesis({<<"Alice", "AliceAura">>, <<"Bob", "BobAura">>},
                                  well_known, "Alice", PARACHAIN_ID)
    BY BuiltinSpec DEF development_config_genesis, local_testnet_genesis
  <2> HIDE DEF genesis
  <2>2. genesis.session_keys = keys
    <3>1. genesis.session_keys =
            {<<pair[1], template_session_keys(pair[2])>> :
                pair \in {<<"Alice", "AliceAura">>, <<"Bob", "BobAura">>}}
      BY <2>1 DEF testnet_genesis
    <3> QED BY <3>1 DEF template_session_keys
  <2>3. genesis.invulnerables = {"Alice", "Bob"} /\ genesis.sudo = "Alice"
    BY <2>1 DEF testnet_genesis
  <2>4. \A a \in {"Alice", "Bob"} :
            a \in DOMAIN genesis.balances /\ genesis.balances[a] >= genesis.candidacy_bond
    BY <2>1, ChainSpecAssumption DEF testnet_genesis, well_known
  <2>5. {k[1] : k \in keys} = {"Alice", "Bob"}
    OBVIOUS
  <2>6. \A k, l \in keys : k[1] = l[1] <=> k[2] = l[2]
    <3>1. [aura |-> "AliceAura"].aura # [aura |-> "BobAura"].aura
      OBVIOUS
    <3> QED BY <3>1
  <2> HIDE DEF keys
  <2>7. /\ genesis.invulnerables # {}
        /\ {k[1] : k \in genesis.session_keys} = genesis.invulnerables
        /\ \A k, l \in genesis.session_keys : k[1] = l[1] <=> k[2] = l[2]
        /\ \A a \in genesis.invulnerables \cup {genesis.sudo} :
                a \in DOMAIN genesis.balances /\ genesis.balances[a] >= genesis.candidacy_bond
    BY <2>2, <2>3, <2>4, <2>5, <2>6
  <2> QED BY <2>7, Zenon DEF GenesisCollates, genesis
<1> QED BY <1>1, PTL
=============================================================================
