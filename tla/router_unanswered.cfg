CONSTANTS
    Width = 1
    Neighbors = {1, 2}
    Relation <- Two
    Announcements <- OriginRoutes
    Repeats = FALSE
    Endpoints = {0}
    Asks = {}
    ASN = 9
    MaxInFlight = 1
SPECIFICATION Spec
PROPERTY UndeliverableAnswered
