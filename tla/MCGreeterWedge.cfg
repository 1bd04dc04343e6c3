CONSTANTS
    MaxUsers = 2
    MaxSessions = 1
    MaxInbox = 1
    MaxCmds = 2

SPECIFICATION FairSpec

PROPERTY
    NeverWedged

CHECK_DEADLOCK FALSE
