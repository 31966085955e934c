SPECIFICATION MCSpec
CONSTANTS
    u1 = u1
    m1 = m1
    NoFile = NoFile
    Free = Free
    Users = {u1}
    Collectors = {m1}
    Hysteria = FALSE
    Limit = 2
    Active = {"singbox"}
    MaxBytes <- ThreeEach
    MaxQueue = 2
    MaxDrops = 1
    MaxRestarts = 1
    MaxResets = 1
INVARIANTS
    NeverOverbills  TotalHasRows
