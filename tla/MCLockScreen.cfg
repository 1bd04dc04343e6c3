CONSTANTS
    SeatIds = {s1, s2}
    NoSeat = NoSeat
    MaxHotplug = 2
    MaxBindErrors = 1
    MaxKeys = 2
    MaxRolls = 1
    MaxFailures = 1

SPECIFICATION SmallSpec

INVARIANTS
    KeyboardBound
    TimerMatchesFlag
    MovingIsTimed

PROPERTY
    Sleeps

CHECK_DEADLOCK FALSE
