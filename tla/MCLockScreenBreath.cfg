CONSTANTS
    SeatIds = {s1}
    NoSeat = NoSeat
    MaxHotplug = 1
    MaxBindErrors = 1
    MaxKeys = 2
    MaxRolls = 1
    MaxFailures = 1

SPECIFICATION FairSpec

PROPERTIES
    BreathComes

CHECK_DEADLOCK FALSE
