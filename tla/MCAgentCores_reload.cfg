SPECIFICATION Spec
CONSTANTS
    Cores <- OneCore
    Rank <- RankOf
    Checked <- Checkable
    Reloadable <- Renewed
    Handlers <- RpcAndRenewal
    Serves <- ByName
    Configs = {c1}
    Loads = {c1}
    NoCfg = NoCfg
    Torn = Torn
    Off = Off
    MaxRequests = 3
    MaxFaults = 0
    MaxCrashes = 0
INVARIANT StoppedStaysOff
