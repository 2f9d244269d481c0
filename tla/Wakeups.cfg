SPECIFICATION FairSpec
CONSTANTS
    Wakes = {"sweep", "verify"}
    MaxPending = 1
    Trouble = TRUE
    Closes = TRUE
    Moves = TRUE
    Types = TRUE
CHECK_DEADLOCK FALSE
INVARIANTS
    TypeOK
    OneTurnEach
    TurnsAreRecorded
PROPERTIES
    CancelIsSeen
    WatchersEnd
