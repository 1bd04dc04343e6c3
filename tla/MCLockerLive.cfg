CONSTANTS
    MaxGen = 2
    MaxInFlight = 1
    PasswordCap = 1
    MaxText = 1
    MaxFails = 2
    MaxDispatchErrors = 2

SPECIFICATION FairSpec

PROPERTIES
    CheckEnds
    FailureClears
    UnlockCompletes
    UnlockDelivered

CHECK_DEADLOCK FALSE
