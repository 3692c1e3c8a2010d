\* Packets to the receiver may be lost, damaged, duplicated; every answer arrives.
SPECIFICATION FairSpec
CONSTANTS
    N = 5
    WindowSize = 3
    MAX_UNSIGNED_INT = 64
    Drop = {"S->R"}
    Mangle = {"S->R"}
    Duplicate = {"S->R", "R->S"}
    Jitter = {}
    BufferSize = 12
    MaxDamage = 3
    SlowTimeout = TRUE
PROPERTY
    SenderExits
