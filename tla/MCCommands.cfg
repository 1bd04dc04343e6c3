CONSTANTS
    Lockers = {p1, p2, p3}
    Listener = Listener
    Nobody = Nobody
    Verbs = {"lock", "unlock", "pin"}
    MaxCommands = 2
    MaxEnds = 2
    MaxDeaths = 1
    MaxFlockErrors = 1

SPECIFICATION Spec

SYMMETRY Ids

INVARIANTS
    SingletonLive
    OneLocker
PROPERTY
    BusNeverUnlocks

CHECK_DEADLOCK FALSE
