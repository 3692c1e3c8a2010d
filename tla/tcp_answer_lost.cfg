\* The network may lose an answer.
SPECIFICATION FairSpec
CONSTANTS
    N = 1
    WindowSize = 2
    MAX_UNSIGNED_INT = 64
    Drop = {"R->S"}
    Mangle = {}
    Duplicate = {}
    Jitter = {}
    BufferSize = 3
    MaxDamage = 0
    SlowTimeout = TRUE
PROPERTY
    SenderExits
