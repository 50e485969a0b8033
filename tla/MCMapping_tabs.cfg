SPECIFICATION Spec
CONSTANTS
    t1 = t1
    t2 = t2
    Tabs = {t1, t2}
    Pids <- MCPids
    Tables <- TwoTables
    StartRequests <- OnePixel
    Policies <- Keeps
    UaMatches <- Desktop
    IntMax = 5
    MaxTime = 3
    MaxStarts = 2
    MaxClears = 0
INVARIANT CookiesTrackVisits
PROPERTIES NoEarlyRepeat RmidKept
SYMMETRY TabSymmetry
CHECK_DEADLOCK FALSE
