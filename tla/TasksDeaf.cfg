SPECIFICATION Spec
CONSTANTS
    Ids = {"train"}
    Stops = {"s1"}
    Limit = 1
    Graceful = {}
    Deaf = {"train"}
    Trouble = FALSE
    NoTask = "no task"
CHECK_DEADLOCK FALSE
INVARIANTS
    StoppedIsOver
