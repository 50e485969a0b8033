SPECIFICATION FairSpec
CONSTANTS
    w1 = w1
    w2 = w2
    w3 = w3
    c1 = c1
    c2 = c2
    Workers = {w1, w2, w3}
    Clients = {c1, c2}
    MaxTasks = 4
INVARIANTS TypeOK NoLostWakeup DestructorDrains RunOnce
PROPERTIES EveryTaskRuns DestructorReturns
CHECK_DEADLOCK FALSE
