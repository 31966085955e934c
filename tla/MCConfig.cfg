SPECIFICATION MCSpec
CONSTANTS
    Kinds = {"vless", "vmess", "trojan", "hysteria2", "tuic", "shadowsocks", "anytls", "shadowtls"}
    Networks = {"tcp", "ws", "httpupgrade", "grpc", "h2", "xhttp"}
    n1 = n1
    n2 = n2
    i1 = i1
    i2 = i2
    sni1 = sni1
    sni2 = sni2
    Nodes = {n1, n2}
    Groups = {g0, g1}
    DefaultGroup = g0
    Users = {u1}
    Inbounds = {i1, i2}
    Home <- MCHome
    Entry = i1
    Exit = i2
    Edits = {e1, e2}
    Chainables = {x1, x2, x3}
    Handlers = {h1, h2}
    NoUpstream = NoUpstream
    MaxWalk = 1
    Keep = 2
    MaxWrites = 4
    Documents <- MCDocuments
    Starts <- MCStarts
    RowNames = {"x", "y"}
    MaxAdminEdits = 1
    Snis <- MCSnis
    Sources = {s1, s2}
    Reporters = {r1}
    Hosts = {host1, host2}
    NoHost = NoHost
    Latencies = {0, 100}
    Margin = 30
SYMMETRY Symmetry
INVARIANTS
    
     
    NoChainLoop
    
    
PROPERTIES
    CredentialOfOneExit
CHECK_DEADLOCK FALSE
