\* No packet to the receiver is lost or overtaken; anything happens to the answers.
SPECIFICATION Spec
CONSTANTS
    N = 4
    WindowSize = 2
    MAX_UNSIGNED_INT = 64
    Drop = {"R->S"}
    Mangle = {"S->R", "R->S"}
    Duplicate = {"S->R", "R->S"}
    Jitter = {"R->S"}
    BufferSize = 8
    MaxDamage = 2
    SlowTimeout = TRUE
PROPERTY
    FaithfulCopy
