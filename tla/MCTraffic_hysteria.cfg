SPECIFICATION MCSpec
CONSTANTS
    u1 = u1
    m1 = m1
    NoFile = NoFile
    Free = Free
    Users = {u1}
    Collectors = {m1}
    Hysteria = TRUE
    Limit = 0
    Active = {"singbox"}
    MaxBytes <- ThreeEach
    MaxQueue = 1
    MaxDrops = 0
    MaxRestarts = 1
    MaxResets = 0
INVARIANT NeverOverbills
