\* Recovery under fairness: two executions in one process, which may crash.
SPECIFICATION FairSpec
CONSTANTS
    h1 = h1
    h2 = h2
    w1 = w1
    w2 = w2
    NoOwner = NoOwner
    Handler <- Two
    Worker <- Workers
    WorkerOf <- SameProcess
    MaxFence = 2
    MaxCrash = 1
    CancelPaths = {"archive"}
PROPERTIES DueIsTakenUp
CHECK_DEADLOCK FALSE
