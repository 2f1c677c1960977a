\* A user stops the team computer for a bot: the fence of its lease is forgotten.
SPECIFICATION MCSpec
CONSTANTS
    b1 = b1  b2 = b2  r1 = r1  r2 = r2  boot = boot  reset = reset
    update = update  recover = recover  stop = stop  sleep = sleep
    Bot <- TwoBots
    Op <- Operations
    NoOp = NoOp
    Kind <- Sorts
    BotOf <- BotsOf
    MaxBox = 4
    MaxFence = 3
    MaxDeath = 0
    MaxFault = 0
PROPERTIES
    FenceRises
CHECK_DEADLOCK FALSE
