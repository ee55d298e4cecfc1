CONSTANTS
    A = A
    B = B
    None = None
    AccountId <- MCAccountId
    SudoKey = B
    ED = 2
    Endowment <- MCEndowment
    Amount = {0, 1, 2}
    Fee = {0, 1, 2}
    Tip = {0, 1}
    SponsorPolicy <- MCPolicy
SPECIFICATION FairSpec
INVARIANTS
    TypeOK
    PendingIsReservation
    UnregisteredHoldsNothing
    ValidatedIsPreparable
    ExitAlwaysPossible
    IInv
PROPERTIES
    SponsorPaysExactly
    KeepsEscrow
    PendingIsTransient
