SPECIFICATION MCSpec
CONSTANTS
    Admins = {a1}
    Clients = {c1}
    Requests = {r1, r2}
    MAX_FAILURES = 1
    WINDOW = 1
    LOCKOUT = 2
    MaxPw = 2
    MaxSecret = 2
    MaxCode = 1
    Tokens = {t1, t2}
    Hosts = {h1, h2}
    MaxRuns = 2
    GuardPaths = {"token", "alias"}
    Subscriber <- MCSubscriber
    GuardRequests = {1, 2}
    GuardConfigs <- MCConfigs
    GuardDefault <- MCDefault
    MaxGuardFaults = 1
    u1 = u1
    u2 = u2
    wg1 = wg1
    adm1 = adm1
    Rows = {u1, u2, wg1, adm1}
    Table <- MCTable
    Keys = {k1, k2}
    Plain = Plain
    NoKey = NoKey
    Mangled = Mangled
    MaxWrites = 1
    Writers = {w1, w2, w3}
    Legacy = 1
    MaxEvents = 6
    MaxOps = 4
    Action <- Switching
    Masters = {m1}
    Batch = 2
    Grace = 0
    MaxFaults = 0
    MaxTurnCrashes = 1
    MaxEdits = 1
SYMMETRY Symmetry
INVARIANTS
    CredentialsDecide
    OneCertificatePerToken EnvMeansWholeSet
    SecretsSurvive
    ChainIntact
    
PROPERTIES
    RetryAfterHolds
CHECK_DEADLOCK FALSE
