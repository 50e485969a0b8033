SPECIFICATION FairSpec
CONSTANTS
    t1 = t1
    Tabs = {t1}
    Pids <- MCPids
    Tables <- AllTables
    StartRequests <- AllPixels
    Policies <- AllOrNone
    UaMatches <- AnyUa
    IntMax = 4
    MaxTime = 2
    MaxStarts = 2
    MaxClears = 1
INVARIANTS TypeOK ChainIdentity SourceKept PairIntegrity
PROPERTIES WinnerIsBest ChainTerminates
CHECK_DEADLOCK FALSE
