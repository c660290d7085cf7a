SPECIFICATION Spec
CONSTANTS
    Subs = {s1}
    Endpoints <- MCEndpoints
    Clients = {c1, c2}
    PullLimit = 2
    MayReset = TRUE
    MaxPushers = 2
    MaxMsgs = 2
SYMMETRY Symmetry
INVARIANTS PushInv NoSilentDrop
PROPERTIES NoPushAfterStop
CHECK_DEADLOCK FALSE
