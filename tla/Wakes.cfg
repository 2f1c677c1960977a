\* Bots that ask each other, hand over and answer; a routine and its dates.
SPECIFICATION MCSpec
CONSTANTS
    A = A  B = B  C = C
    Bot <- Bots
    Member <- Bots
    NoBot = NoBot
    MaxHop = 2
    Batch = 1
    MaxRun = 5
    MaxFault = 1
    Wake <- Wakes
    MaxDate = 2
    MaxFire = 3
    MaxEdit = 1
    MaxFailure = 1
INVARIANTS
    WakesTypeOK
    OutcomeOnce
    ChainsEnd
    DateFiresOnce
PROPERTIES
    RelayReturns
    DatedGetsRun
CHECK_DEADLOCK FALSE
