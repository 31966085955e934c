SPECIFICATION FairSpec
CONSTANTS
    Specs = {v1, v2}
    Bad = {}
    Follows <- AnyEdit
    NoSpec = NoSpec
    Partial = Partial
    Tasks = {t1}
    Loop = Loop
    NoPush = NoPush
    Delay = 2
    MaxInFlight = 2
    MaxEdits = 1
    MaxFaults = 0
    MaxLosses = 0
    MaxCrashes = 0
PROPERTY Converged
