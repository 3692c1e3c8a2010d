CONSTANTS
    Bridges = {1, 2, 3}
    Lans = {"A", "B"}
    LanOf <- Row
    Capacity = 3
    MayStop = {}
    Expires = FALSE
    Prompt = TRUE
    MaxCost = 3
SPECIFICATION FairSpec
PROPERTY EventuallyConnected
