SPECIFICATION MCSpec
CONSTANTS
    Cores <- OneCore
    Rank <- RankOf
    Checked = {"xray"}
    Reloadable = {"xray"}
    Handlers = {a1, a2}
    Serves <- Anything
    Configs = {c1}
    Loads = {c1}
    NoCfg = NoCfg
    Torn = Torn
    Off = Off
    MaxRequests = 3
    MaxFaults = 1
    MaxCrashes = 0
    Settings = {s1, s2}
    NoSetting = NoSetting
    MaxIssue = 3
    MaxPush = 3
    MaxCrash = 1
INVARIANT OneChild
PROPERTIES
    EveryRequestReturns
     RenewsUnlessLost
CHECK_DEADLOCK FALSE
