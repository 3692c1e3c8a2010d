\* A page of the size that one recv may return.
SPECIFICATION Spec
CONSTANTS
    ASSUMED_MAX_PACKAGE_SIZE = 40
    Filler = 4
    WideChars = 3
    SessionLast = TRUE
PROPERTY
    LoginEnds
