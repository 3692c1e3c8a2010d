CONSTANTS
    Bridges = {1, 2}
    Lans = {"A", "B"}
    LanOf <- Parallel
    Capacity = 2
    MayStop = {1}
    Expires = TRUE
    Prompt = TRUE
    MaxCost = 3
SPECIFICATION FairSpec
PROPERTY EventuallyConnected
