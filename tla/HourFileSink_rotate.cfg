SPECIFICATION Spec
CONSTANTS
    Hour = 6
    Lag = 1
    Stall = 1
    FlushAfter = 2
    MoveAt = 2
    LoadAt = 5
    _base_path = logs
    log_path = logs
    MaxTime = 17
    MaxLines = 3
    MaxFaults = 2
INVARIANTS TypeOK LineInItsHour LoadedIsComplete
CHECK_DEADLOCK FALSE
