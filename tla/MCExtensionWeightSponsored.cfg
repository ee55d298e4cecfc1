CONSTANTS
    Read = 1
    Write = 4
    BaseWeight = 6
    CallWeight = {0, 1, 5, 12, 40}
    MaxExtrinsics = 150
    MaxSponsored = 3
    Path <- MCPath
SPECIFICATION WeightSpec
INVARIANTS
    WorkIsMetered
