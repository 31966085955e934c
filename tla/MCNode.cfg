SPECIFICATION MCSpec
CONSTANTS
    Conns = {c1, c2}
    Ops = {hb, o2}
    Heartbeat = hb
    Certs = {k1, k2}
    NoConn = NoConn
    MaxLinkFaults = 1
    Limit = 1
    MaxBytes = 2
    MaxTime = 3
    Length <- MCLength
    Nodes = {n1, n2}
    Ips = {d1, d2}
    device_limit = 1
    MaxConns = 3
    MaxFaults = 1
    Ifaces = {1, 2}
    Users = {a, b}
    Names = {"w1", "w2"}
    Port <- MCPort
    Prefix <- MCPrefix
    Width = 4
    MaxFailures = 1
    MaxEdits = 2
    Svcs = {1, 2}
    Tags = {"a", "b"}
    SvcPorts = {1, 2}
    Settings = {"x"}
    MaxSvcEdits = 2
    MaxExecFails = 1
    MaxAgentStops = 1
INVARIANTS
    RevokedIsEvicted
    CutMeansSpent
    HandedOutHolds
PROPERTIES
    ConnectionRecovers
    LimitIsReached
    
CHECK_DEADLOCK FALSE
