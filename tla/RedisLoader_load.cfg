SPECIFICATION Spec
CONSTANTS
    Programs <- OneOfAKind
    Ids = {1, 2}
    PACK_NUM = 2
    LastHour = 2
    MaxLines = 3
    MaxFails = 2
INVARIANTS TypeOK NewestStored LeftOver
CHECK_DEADLOCK FALSE
