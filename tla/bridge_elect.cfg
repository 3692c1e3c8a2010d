CONSTANTS
    Bridges = {1, 2}
    Lans = {"A", "B"}
    LanOf <- Parallel
    Capacity = 2
    MayStop = {}
    Expires = FALSE
    Prompt = TRUE
    MaxCost = 3
SPECIFICATION FairSpec
PROPERTY EventuallyElected
