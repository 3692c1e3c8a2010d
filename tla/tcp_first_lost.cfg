\* The network may lose a packet to the receiver.
SPECIFICATION Spec
CONSTANTS
    N = 3
    WindowSize = 2
    MAX_UNSIGNED_INT = 64
    Drop = {"S->R"}
    Mangle = {}
    Duplicate = {}
    Jitter = {}
    BufferSize = 3
    MaxDamage = 0
    SlowTimeout = TRUE
INVARIANT
    TransmittedCorrectly
