SPECIFICATION MCSpec
CONSTANTS
    Instances = {m1, m2}
    None = None
    Ttl = 5
    MaxDelay = 1
    PruneEvery = 2
    MaxOps = 2
    Action <- Pair
    Masters = {m1, m2}
    Batch = 1
    Grace = 1
    MaxFaults = 1
    MaxTurnCrashes = 1
    MaxEdits = 1
    t1 = t1
    t2 = t2
    t3 = t3
    Tasks = {t1, t2, t3}
    Host <- MCHost
    COOLDOWN = 2
    MaxWait = 1
    MaxOutages = 1
    MaxCrashes = 1
INVARIANTS
    NoSpam
PROPERTIES
    LeadershipIsALock EventualLeader
    LoopsCatchUp
