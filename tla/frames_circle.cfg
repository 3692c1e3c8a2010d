CONSTANTS
    Bridges = {1, 2}
    Lans = {"A", "B"}
    LanOf <- Parallel
    Capacity = 2
    MayStop = {}
    Expires = FALSE
    Prompt = TRUE
    MaxCost = 3
    Hosts = {"h", "k"}
    HomeOf <- Sides
    MayMove = {}
    HostsWait = TRUE
    MaxFrames = 2
    ContentOf <- PlainContents
    Truncated <- PythonInt
SPECIFICATION ForwardingSpec
PROPERTY FramesDieOut
