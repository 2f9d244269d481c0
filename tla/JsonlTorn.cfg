SPECIFICATION Spec
CONSTANTS
    Threads = {"ui1", "ui2", "cli", "hook"}
    ProcessOf <- MCProcessOf
    ClaimOf <- MCClaimOf
    Nobody = "nobody"
    NoClaim = "noclaim"
    Wide = {"hook"}
    MayTear = TRUE
    CloseRetries = TRUE
INVARIANTS
    TearCostsAtMostTwo
    LossIsReported
    
