SPECIFICATION AttendedSpec
CONSTANTS
    Runs = {"gpu", "kg"}
    Expectations = {"e1"}
    Campaigns = {}
    Operators = {"op1"}
    Estimates = {1}
    Actuals = {1}
    Ages = {"kg"}
    Overdue = {"gpu", "kg"}
    Losable = {"gpu", "kg"}
    NoExp = "noexp"
    Nobody = "nobody"
    Platform <- MCPlatform
    Task <- MCTask
    ProjectOf <- MCProjectOf
    Declared <- MCDeclared
    SmokeCap = 1
    PerJob = 2
    Monthly = 3
    Allocation <- MCAllocation
    CandidateUsd <- MCNoCandidates
CHECK_DEADLOCK FALSE
PROPERTIES
    LockIsReleased
    StaleIsCleared
