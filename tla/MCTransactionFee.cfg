CONSTANTS
    MILLI_UNIT = 100000
    ExtrinsicBaseWeight = 12500
    MaxBlock = 200000
    ACCURACY = 1000
    TransactionByteFee = 1000
    One = 10
    Multiplier = {1, 10, 13}
    Weight <- MCWeight
    Length = {0, 1, 150}
    Tip = {0, 7}
SPECIFICATION Spec
INVARIANTS
    EstimateIsWorstCase
