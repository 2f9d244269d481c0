SPECIFICATION FairSpec
CONSTANTS
    Threads = {"ui1", "ui2", "cli", "hook"}
    ProcessOf <- MCProcessOf
    ClaimOf <- MCClaimOf
    Nobody = "nobody"
    NoClaim = "noclaim"
    Wide = {"hook"}
    MayTear = FALSE
    CloseRetries = FALSE
INVARIANTS
    TypeOK
    OneWriter
    ReturnedIsRead
PROPERTIES
    AppendsEnd
    ImplementsAppendLog
