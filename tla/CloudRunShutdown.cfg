SPECIFICATION ShutdownSpec
CONSTANTS
    Names = {n1}
    Clients = {c1}
    MaxChildren = 1
INVARIANTS StopEndsEveryChild
CHECK_DEADLOCK FALSE
