CONSTANTS
    A = A
    B = B
    None = None
    AccountId <- MCAccountId
    SudoKey = B
    ED = 1
    Endowment <- MCEndowment
    Amount = {3}
    Fee = {1, 2, 3}
    Tip = {0}
    SponsorPolicy <- MCFeePolicy
    UNINCLUDED_SEGMENT_CAPACITY = 2
    Period = 3
    Offers <- MCFeeOffers
    Redelivered <- ByUser
    MaxSubmissions = 2
    MaxRetractions = 1
SPECIFICATION PoolSpec
INVARIANTS
    BlockRespectsSponsor
PROPERTIES
    BlocksKeepEscrow
