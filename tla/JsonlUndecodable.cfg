SPECIFICATION Spec
CONSTANTS
    Threads = {"cli", "hook"}
    ProcessOf <- MCProcessOf
    ClaimOf <- MCClaimOf
    Nobody = "nobody"
    NoClaim = "noclaim"
    Wide = {"hook"}
    MayTear = TRUE
    CloseRetries = FALSE
INVARIANTS
    TornTailIsTolerated
