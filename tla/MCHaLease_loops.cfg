SPECIFICATION Spec
CONSTANTS
    Instances = {m1, m2}
    None = None
    Ttl = 5
    MaxDelay = 1
    PruneEvery = 2
INVARIANT ExclusiveLoops
