-------------------------- MODULE MCTransactionFee --------------------------
(* TransactionFee with the runtime's constants, amounts and weights in units *)
(* of 10^4 and fractions in parts per thousand, in which the coefficient of  *)
(* WeightToFee is still exact.                                              *)
EXTENDS TransactionFee

\* Nothing, sizes around the rounding of Perbill, the base weight, and the largest.
MCWeight == {0, 62, 63, 125, 12500, 12501, 200000, 200001}
=============================================================================
