\* A team computer of two bots, one of which may have two runs, two requests at a time.
SPECIFICATION MCSpec
CONSTANTS
    b1 = b1  b2 = b2  x1 = x1  x2 = x2  x3 = x3  q1 = q1  q2 = q2
    Waiter <- AllRuns
    RunBot <- TwoBots
    NoRun = NoRun
    NoBot = NoBot
    Dedicated = FALSE
    Req <- TwoRequests
    MaxLease = 3
    MaxRefusal = 1
INVARIANTS
    TakeTypeOK
PROPERTIES
    ActiveControlKept
    ControlEnds
CHECK_DEADLOCK FALSE
