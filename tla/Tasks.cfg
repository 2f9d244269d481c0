SPECIFICATION FairSpec
CONSTANTS
    Ids = {"verify", "train"}
    Stops = {"s1", "s2"}
    Limit = 1
    Graceful = {"verify"}
    Deaf = {}
    Trouble = TRUE
    NoTask = "no task"
CHECK_DEADLOCK FALSE
INVARIANTS
    TypeOK
    HeldIsRunning
    CeilingHolds
    StoppedIsOver
    ForgottenIsOver
PROPERTIES
    ExitStands
    SupervisorsSettle
    StopsAreRecorded
