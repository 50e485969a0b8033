SPECIFICATION FairSpec
CONSTANTS
    w1 = w1
    w2 = w2
    Workers = {w1, w2}
    Jobs <- MixedJobs
    Cap = 1
    Buf = 1
    MaxRequests = 2
    MaxFaults = 1
INVARIANTS TypeOK NothingLost StoredMeansLogged
PROPERTIES SendReturns IsLogChannel IsScyllaChannel
CHECK_DEADLOCK FALSE
