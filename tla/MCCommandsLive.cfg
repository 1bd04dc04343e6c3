CONSTANTS
    Lockers = {p1, p2, p3}
    Listener = Listener
    Nobody = Nobody
    Verbs = {"lock"}
    MaxCommands = 2
    MaxEnds = 0
    MaxDeaths = 0
    MaxFlockErrors = 1

SPECIFICATION FairSpec

PROPERTY
    LockCommandLocks

CHECK_DEADLOCK FALSE
