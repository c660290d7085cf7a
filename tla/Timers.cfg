SPECIFICATION TimersSpec
CONSTANTS
    Queues = {q1}
    Clients = {c1, c2}
    MaxAttempts = 2
    MaxTasks = 2
    MaxRestarts = 1
    Jobs = {j1}
    JobClients = {c1, c2}
    MaxPosts = 3
    MaxJobRestarts = 1
INVARIANTS TasksInv DeletesOwnTask SchedulerInv RunnerMatchesStore
PROPERTIES NoPostAfterStop TaskLeaves StopReturns JobFires CancelledRunnerEnds
CHECK_DEADLOCK FALSE
