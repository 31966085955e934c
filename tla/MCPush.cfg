SPECIFICATION MCSpec
CONSTANTS
    Specs = {1, 2, 3}
    Bad = {2}
    Follows <- NeverReverts
    NoSpec = NoSpec
    Partial = Partial
    Tasks = {t1}
    Loop = Loop
    NoPush = NoPush
    Delay = 2
    MaxInFlight = 1
    MaxEdits = 2
    MaxFaults = 1
    MaxLosses = 1
    MaxCrashes = 1
    DriftCores = {1, 2}
    Builds = {1, 2}
    NoBuild = 0
    Edited = 9
    MaxSpecEdits = 2
    MaxTampers = 1
    MaxPushFails = 1
INVARIANT SuccessMeansRunning
PROPERTIES Converges StrandedIsReported
