CONSTANTS
    MaxGen = 3
    MaxInFlight = 1
    PasswordCap = 1
    MaxText = 1
    MaxFails = 3
    MaxDispatchErrors = 2

SPECIFICATION Spec

INVARIANTS
    TypeOK
    SlotsHonest
    ReportedOnce
    OkIsPams
    OpenedOnlyByPam
    CheckingIsPending
    PillConsistent
    AnnouncedOnce
PROPERTIES
    OldTimerSparesNewFailure
    UnlockIsFinal
    ImplementsFailSecure

CHECK_DEADLOCK FALSE
