CONSTANTS
    A = A
    B = B
    None = None
    AccountId <- MCAccountId
    SudoKey = None
    ED = 1
    Endowment <- MCEndowment
    Amount = {3}
    Fee = {2}
    Tip = {0}
    SponsorPolicy <- MCPolicy
    UNINCLUDED_SEGMENT_CAPACITY = 2
    Period = 3
    Offers <- MCOffers
    Redelivered <- ByUser
    MaxSubmissions = 3
    MaxRetractions = 1
SPECIFICATION PoolSpec
PROPERTIES
    PooledLeaves
