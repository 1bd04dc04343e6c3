CONSTANTS
    Outputs = {o1}
    MaxWrites = 2
    PlayerCount = 2
    MaxCharge = 1
    MaxSnapshots = 1
    MaxEvents = 3

SPECIFICATION SmallSpec

INVARIANTS
    CacheFollowsFile

PROPERTIES
    PaletteCatchesUp
    StatusCatchesUp
