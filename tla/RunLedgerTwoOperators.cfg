SPECIFICATION Spec
CONSTANTS
    Runs = {"kg"}
    Expectations = {"e1"}
    Campaigns = {}
    Operators = {"op1", "op2"}
    Estimates = {1}
    Actuals = {1, 2}
    Ages = {}
    Overdue = {}
    Losable = {"kg"}
    NoExp = "noexp"
    Nobody = "nobody"
    Platform <- MCPlatform
    Task <- MCTask
    ProjectOf <- MCProjectOf
    Declared <- MCDeclared
    SmokeCap = 1
    PerJob = 2
    Monthly = 3
    Allocation <- MCAllocation
    CandidateUsd <- MCNoCandidates
CHECK_DEADLOCK FALSE
PROPERTIES
    ResultsStand
