SPECIFICATION Spec
CONSTANTS
    Queues = {q1}
    Clients = {c1}
    MaxAttempts = 2
    MaxTasks = 1
    MaxRestarts = 0
INVARIANTS DeletedOnlyWhenSettled
CHECK_DEADLOCK FALSE
