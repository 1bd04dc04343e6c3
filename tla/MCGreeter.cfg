CONSTANTS
    MaxUsers = 2
    MaxSessions = 1
    MaxInbox = 2
    MaxCmds = 2

SPECIFICATION FairPeerSpec

INVARIANTS
    BusyHasWork
    EntryFollowsStage
    TypedNeverStacks

PROPERTIES
    NeverWedged
    StartingEnds

CHECK_DEADLOCK FALSE
