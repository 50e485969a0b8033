SPECIFICATION FairSpec
CONSTANTS
    w1 = w1
    Workers = {w1}
    maxPartnerId = 2
    FdLimit = 2
    MaxEdits = 2
    MaxBreaks = 2
    MaxDeaths = 1
INVARIANTS TypeOK FreshAfterPass
PROPERTIES NeverBackward Converges
