CONSTANTS
    Bridges = {1, 2}
    Lans = {"A", "B", "C"}
    LanOf <- Line
    Capacity = 2
    MayStop = {}
    Expires = FALSE
    Prompt = TRUE
    MaxCost = 3
    Hosts = {"h", "m", "k"}
    HomeOf <- OnEach
    MayMove = {"h"}
    HostsWait = TRUE
    MaxFrames = 3
    ContentOf <- ThreeContents
    Truncated <- PythonInt
SPECIFICATION ForwardingSpec
PROPERTY MovedHostIsFound
