CONSTANTS
    A = A
    B = B
    None = None
    AccountId <- MCAccountId
    SudoKey = None
    ED = 1
    Endowment <- MCEndowment
    Amount = {1, 4}
    Fee = {1}
    Tip = {0}
    SponsorPolicy <- MCPolicy
    UNINCLUDED_SEGMENT_CAPACITY = 1
    Period = 3
    Offers <- MCTransferOffers
    Redelivered <- ByUser
    MaxSubmissions = 3
    MaxRetractions = 1
SPECIFICATION PoolSpec
INVARIANTS
    IncludedOnce
    BlockRespectsSponsor
