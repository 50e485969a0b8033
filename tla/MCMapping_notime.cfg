SPECIFICATION FairSpec
CONSTANTS
    t1 = t1
    Tabs = {t1}
    Pids <- MCPids
    Tables <- OneTable
    StartRequests <- OnePixel
    Policies <- KeepsIds
    UaMatches <- Desktop
    IntMax = 2
    MaxTime = 0
    MaxStarts = 1
    MaxClears = 0
PROPERTY ChainTerminates
CHECK_DEADLOCK FALSE
