\* Steering settles, under fairness.
SPECIFICATION FairSpec
CONSTANTS
    r1 = r1  r2 = r2  r3 = r3  r4 = r4
    Run <- Three
    NoRun = NoRun
    NoRow = NoRow
    MaxMsg = 2
    MaxExtra = 1
    Chats = {"app"}
    Parallel = {}
    Withdrawals = {}
    GroupThread = FALSE
PROPERTIES
    SteeringSettles
CHECK_DEADLOCK FALSE
