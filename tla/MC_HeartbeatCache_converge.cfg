CONSTANTS
    e1 = e1
    e2 = e2
    Executor <- MCExecutor
    MaxTime = 4
    MaxRestarts = 1
SPECIFICATION Spec
PROPERTY CacheConverges
