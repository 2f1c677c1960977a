\* One subscriber, two transactions, two faults.
SPECIFICATION FairSpec
CONSTANTS
    f1 = f1  t1 = t1  t2 = t2
    Writer <- TwoWriters
    Follower <- OneFollower
    NoWriter = NoWriter
    MaxSeq = 3
    Batch = 2
    MaxFault = 2
INVARIANTS
    TypeOK
    NoLostWakeup
PROPERTIES
    KeepsFeed
    EveryEventGiven
