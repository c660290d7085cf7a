SPECIFICATION RetriesSpec
CONSTANTS
    Subs = {s1}
    Endpoints <- MCEndpoints
    Clients = {c1}
    PullLimit = 2
    MayReset = FALSE
    MaxPushers = 2
    MaxMsgs = 2
    Total = 4
    Chunk = 1
    Modes = {"chunk", "open", "single"}
    RetrySingle = FALSE
    MaxTimeouts = 2
INVARIANTS PushSubHasPusher UploadInv ObjectIsFile
PROPERTIES PushDelivers StopReturns UploadEnds
CHECK_DEADLOCK FALSE
