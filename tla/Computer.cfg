\* Two bots, two runs, the requests of users and the idle stop, a few at a time.
SPECIFICATION MCSpec
CONSTANTS
    b1 = b1  b2 = b2  r1 = r1  r2 = r2  boot = boot  reset = reset
    update = update  recover = recover  stop = stop  sleep = sleep
    Bot <- TwoBots
    Op <- Operations
    NoOp = NoOp
    Kind <- Sorts
    BotOf <- BotsOf
    MaxBox = 4
    MaxFence = 1
    MaxDeath = 1
    MaxFault = 2
INVARIANTS
    LifeTypeOK
    LostIsOwed
    RunKeepsBox
PROPERTIES
    LoneRunGetsComputer
CHECK_DEADLOCK FALSE
