SPECIFICATION FairSpec
CONSTANTS
    LastId = 2
    Exts = {3, 31}
    KeepMonths = 2
    LastMonth = 2
    MaxPairs = 2
    MaxErrors = 1
INVARIANTS TypeOK SweepComplete
PROPERTIES FreshRowsStay SweepEnds
CHECK_DEADLOCK FALSE
