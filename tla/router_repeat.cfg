CONSTANTS
    Width = 1
    Neighbors = {1, 2}
    Relation <- Two
    Announcements <- ChangedRoutes
    Repeats = TRUE
    Endpoints = {0}
    Asks = {}
    ASN = 9
    MaxInFlight = 2
SPECIFICATION Spec
INVARIANT NoMisdelivery
