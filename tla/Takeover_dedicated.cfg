\* A computer of one bot: the release of the screen does not resume its run.
SPECIFICATION MCSpec
CONSTANTS
    b1 = b1  b2 = b2  x1 = x1  x2 = x2  x3 = x3  q1 = q1  q2 = q2
    Waiter <- AllRuns
    RunBot <- OneBot
    NoRun = NoRun
    NoBot = NoBot
    Dedicated = TRUE
    Req <- TwoRequests
    MaxLease = 3
    MaxRefusal = 0
PROPERTIES
    ReleaseResumes
CHECK_DEADLOCK FALSE
