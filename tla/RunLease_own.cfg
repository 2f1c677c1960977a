\* Two overlapping executions, each in a process of its own.
SPECIFICATION Spec
CONSTANTS
    h1 = h1
    h2 = h2
    w1 = w1
    w2 = w2
    NoOwner = NoOwner
    Handler <- Two
    Worker <- Workers
    WorkerOf <- OwnProcess
    MaxFence = 3
    MaxCrash = 1
    CancelPaths = {"stop", "clear"}
INVARIANTS TypeOK OneWriter ReleaseEndsTheWait
PROPERTIES ReleaseReachesPlan KeepsLife
CHECK_DEADLOCK FALSE
