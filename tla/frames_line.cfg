CONSTANTS
    Bridges = {1, 2}
    Lans = {"A", "B", "C"}
    LanOf <- Line
    Capacity = 2
    MayStop = {2}
    Expires = FALSE
    Prompt = TRUE
    MaxCost = 3
    Hosts = {"h", "k"}
    HomeOf <- Ends
    MayMove = {"h"}
    HostsWait = FALSE
    MaxFrames = 2
    ContentOf <- Contents
    Truncated <- PythonInt
SPECIFICATION ForwardingSpec
INVARIANTS ForwardingTypeOK AtMostOnce TableIsRight ContentKept
PROPERTIES FramesDieOut EveryFrameArrives
