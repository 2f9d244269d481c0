SPECIFICATION Spec
CONSTANTS
    Wakes = {"sweep"}
    MaxPending = 1
    Trouble = FALSE
    Closes = FALSE
    Moves = FALSE
    Types = TRUE
CHECK_DEADLOCK FALSE
INVARIANTS
    KeptNotLost
