CONSTANTS
    Width = 3
    Neighbors = {1}
    Relation <- One
    Announcements <- NestedRoutes
    Repeats = FALSE
    Endpoints = {}
    Asks = {}
    ASN = 9
    MaxInFlight = 1
SPECIFICATION Spec
INVARIANT DumpIsExact
