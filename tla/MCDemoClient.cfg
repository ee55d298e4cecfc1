CONSTANTS
    Alice = Alice
    Bob = Bob
    Charlie = Charlie
    None = None
    AccountId <- MCAccountId
    SudoKey = Alice
    ED = 1
    Endowment <- MCEndowment
    Amount = {4}
    Fee = {1, 2}
    Tip = {0}
    SponsorPolicy <- MCPolicy
    UNINCLUDED_SEGMENT_CAPACITY = 3
    Period = 4
    Offers <- MCOffers
    Redelivered = {}
    MaxSubmissions = 2
    MaxRetractions = 1
    INITIAL_BUDGET = 4
    MAX_FEE_PER_TX = 2
    MaxRuns = 2
SPECIFICATION DemoSpec
INVARIANTS
    NeverUnexpected
    ReportsAddUp
    BudgetTakenOnce
    DemoInv
PROPERTIES
    ClientEnds
