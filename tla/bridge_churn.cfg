CONSTANTS
    Bridges = {1, 2, 3}
    Lans = {"A", "B", "C"}
    LanOf <- Ring
    Capacity = 1
    MayStop = {1}
    Expires = TRUE
    Prompt = FALSE
    MaxCost = 3
SPECIFICATION Spec
INVARIANTS TypeOK NeverRaises CostsAreSound RootStaysOpen
