CONSTANTS
    MaxWord = 2
    Names = {1, 2, 3}
    NobodyName = 3
    Uids = {1, 2, 3}
    DefaultMin = 1
    DefaultMax = 2
    WaylandDirs <- Wayland
    XsessionsDirs <- X11
    Stems = {1, 2}
    Default = 2
    MaxEdits <- Edits

SPECIFICATION Spec

INVARIANTS
    ArgvComesBack
    AccountsOffered
    DefaultSelected

CHECK_DEADLOCK FALSE
