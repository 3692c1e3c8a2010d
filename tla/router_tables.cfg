CONSTANTS
    Width = 2
    Neighbors = {1, 2}
    Relation <- Two
    Announcements <- ManyRoutes
    Repeats = FALSE
    Endpoints = {}
    Asks = {}
    ASN = 9
    MaxInFlight = 1
SPECIFICATION Spec
INVARIANTS BestRouteTaken DumpIsExact DumpIsCoalesced
