SPECIFICATION Spec
CONSTANTS
    Runs = {"hf"}
    Expectations = {"e1"}
    Campaigns = {"evolve"}
    Operators = {}
    Estimates = {1}
    Actuals = {1}
    Ages = {}
    Overdue = {}
    Losable = {}
    NoExp = "noexp"
    Nobody = "nobody"
    Platform <- MCPlatform
    Task <- MCTask
    ProjectOf <- MCProjectOf
    Declared <- MCDeclared
    SmokeCap = 1
    PerJob = 2
    Monthly = 3
    Allocation <- MCAllocation
    CandidateUsd <- MCNoCandidates
CHECK_DEADLOCK FALSE
INVARIANTS
    OneBindingPerPrediction
