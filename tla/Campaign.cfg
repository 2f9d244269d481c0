SPECIFICATION FairSpec
CONSTANTS
    Campaigns = {"big", "small"}
    Sources = {"a", "b", "c", "d", "x"}
    Escaping = {"x"}
    Offers <- MCOffers
    Generations <- MCGenerations
    Population <- MCPopulation
    EvalJobs <- MCPopulation
    Estimate <- MCEstimate
    Remote = {"big"}
    Actual <- MCActual
    Ceiling = 4
    Attended = {"big"}
CHECK_DEADLOCK FALSE
INVARIANTS
    TypeOK
    SpendBounded
    NothingAfterClose
    HaltHonoured
    EveryCandidateCollected
    NoProgramTwice
    GenerationsAgree
PROPERTIES
    CampaignsEnd
