CONSTANTS
    Width = 1
    Neighbors = {1, 2, 3}
    Relation <- OneOfEach
    Announcements <- PolicyRoutes
    Repeats = TRUE
    Endpoints = {0}
    Asks = {1}
    ASN = 9
    MaxInFlight = 2
SPECIFICATION Spec
INVARIANTS RouterTypeOK TableIsCurrent NoMisdelivery ToldIsRouted RoutedIsTold ToldRoutesWork
PROPERTY DropsOnlyUnrouted
