SPECIFICATION Spec
CONSTANTS
    j1 = j1
    j2 = j2
    Job <- MCJob
    Width <- MCWidth
    MaxClock = 3
    MaxStepBacks = 1
    Build = "debug"
PROPERTY QueuedJobsFinish
