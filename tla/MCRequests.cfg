SPECIFICATION MCSpec
CONSTANTS
    Cores <- WithHysteria
    Rank <- RankOf
    Checked <- Checkable
    Reloadable <- Renewed
    Handlers = {a1}
    Serves <- Anything
    Configs = {c1, c2, bad}
    Loads = {c1, c2}
    NoCfg = NoCfg
    Torn = Torn
    Off = Off
    MaxRequests = 2
    MaxFaults = 2
    MaxCrashes = 1
    BotHosts = {h1, h2}
    FirstHost = h1
    Orders <- MCOrders
    NoArg = NoArg
    NoUser = NoUser
    PollLimit = 2
    MaxUpdates = 2
    MaxTroubles = 2
    LinkUsers = {u1, u2}
    Aliases = {anna, Anna}
    anna = anna
    Lower <- MCLower
    NoOwner = NoOwner
    Unset = Unset
    MaxTokens = 4
    MaxLinkEdits = 2
SYMMETRY MCSymmetry
INVARIANTS
    StoppedStaysOff SurvivesOneFault RebootResumes
    ConfirmedIsAnswered 
    EveryAnswerWasTrue
