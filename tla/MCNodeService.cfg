CONSTANTS
    EXISTENTIAL_DEPOSIT = 1
    EndowedWith = 1152921504
    ChainSpecFile <- MCChainSpecFile
    None = None
    Args <- MCArgs
    KnownRelayChain <- MCKnownRelayChain
    SdkEssential <- MCSdkEssential
    MaxEnded = 2
SPECIFICATION NodeSpec
INVARIANTS
    TypeOK
    NoPanic
    UpMeansServing
    BuiltinChainsStart
    GenesisCollates
PROPERTIES
    VitalEndStops
