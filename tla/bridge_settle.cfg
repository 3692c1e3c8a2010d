CONSTANTS
    Bridges = {1, 2}
    Lans = {"A", "B", "C"}
    LanOf <- SameLan
    Capacity = 3
    MayStop = {}
    Expires = FALSE
    Prompt = TRUE
    MaxCost = 3
SPECIFICATION FairSpec
PROPERTIES EventuallyLoopFree EventuallyConnected EventuallySettled
