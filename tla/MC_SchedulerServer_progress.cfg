CONSTANTS
    e1 = e1
    e2 = e2
    p1 = p1
    p2 = p2
    NoExecutor = NoExecutor
    Executor <- MCExecutor
    Partition <- MCPartition
    Buffer = 2
    MaxTime = 4
    Timeout = 1
    MaxCrashes = 0
    PromptExecutors = TRUE
    StopOutcomes = {TRUE, FALSE}
    MaxPollErrors = 0
SPECIFICATION Spec
PROPERTY JobTerminates
