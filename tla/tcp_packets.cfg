\* Bytes of five bits; the last chunk has a number that the field cannot hold.
SPECIFICATION Spec
CONSTANTS
    Base = 32
    IntBytes = 1
    ShortBytes = 1
    MangledByte = 24
    MaxMangled = 3
    MTU = 7
    SENDER_DATA_SIZE = 2
    SyncStart = 30
    Text <- Cut
    Lead = 30
    Trail = 31
    BufferSize = 1
    MaxDamage = 1
INVARIANTS
    ChecksumTells
    PrintsOnlyTheText
    DiesForCause
PROPERTY
    ReadsAsSentOrMangled
CHECK_DEADLOCK FALSE
