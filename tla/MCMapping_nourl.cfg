SPECIFICATION Spec
CONSTANTS
    t1 = t1
    Tabs = {t1}
    Pids <- MCPids
    Tables <- BrokenTables
    StartRequests <- OnePixel
    Policies <- Keeps
    UaMatches <- Desktop
    IntMax = 2
    MaxTime = 0
    MaxStarts = 1
    MaxClears = 0
INVARIANT TimeCookieMeansVisit
CHECK_DEADLOCK FALSE
