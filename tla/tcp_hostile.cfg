\* Every fault in both directions, timeouts at any moment.
SPECIFICATION Spec
CONSTANTS
    N = 4
    WindowSize = 3
    MAX_UNSIGNED_INT = 64
    Drop = {"S->R", "R->S"}
    Mangle = {"S->R", "R->S"}
    Duplicate = {"S->R", "R->S"}
    Jitter = {"S->R", "R->S"}
    BufferSize = 2
    MaxDamage = 1
    SlowTimeout = FALSE
INVARIANTS
    TypeOK
    Contiguous
    NoPacketForgotten
    DoneMeansDelivered
    RoomForNext
PROPERTIES
    AcksNeverRetreat
    TailCopy
