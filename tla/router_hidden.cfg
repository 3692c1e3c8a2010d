CONSTANTS
    Width = 1
    Neighbors = {1, 2, 3}
    Relation <- OneOfEach
    Announcements <- PolicyRoutes
    Repeats = FALSE
    Endpoints = {0}
    Asks = {1}
    ASN = 9
    MaxInFlight = 1
SPECIFICATION Spec
INVARIANT ToldIsPassedOn
