SPECIFICATION Spec
CONSTANTS
    Runs = {hf1, hf2}
    hf1 = hf1
    hf2 = hf2
    Expectations = {e1, e2}
    e1 = e1
    e2 = e2
    Campaigns = {"evolve"}
    Operators = {"op1"}
    Estimates = {1}
    Actuals = {2}
    Ages = {}
    Overdue = {}
    Losable = {}
    NoExp = "noexp"
    Nobody = "nobody"
    Platform <- MCJobs
    Task <- MCTask
    ProjectOf <- MCProjectJobs
    Declared <- MCSlot
    SmokeCap = 1
    PerJob = 2
    Monthly = 2
    Allocation <- MCAllocation
    CandidateUsd <- MCCandidates
CHECK_DEADLOCK FALSE
SYMMETRY MCSymmetry
INVARIANTS
    TypeOK
    OneRunPerPrediction
    ConcurrencyBounded
    NoUnrecordedJob
    ChecksStand
PROPERTIES
    AdmittedUnderCeilings
    BindingStands
    ResultsStand
    ImplementsAdmission
