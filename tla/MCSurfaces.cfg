CONSTANTS
    Outputs = {o1, o2}
    SurfaceIds = {s1, s2}
    Sizes <- Modes
    Scales = {0, 2}
    MaxChanges = 2
    Fates <- Cases
    MaxFlaws = 1

SPECIFICATION FairSpec

INVARIANTS
    SurfacePerOutput
    CommitsAllowed

PROPERTY
    EveryOutputShows
