SPECIFICATION Spec
CONSTANTS
    s1 = s1
    s2 = s2
    s3 = s3
    Servers = {s1, s2, s3}
    SIPs <- ThreeServers
    Primary = s1
    Clients = {c1, c2}
    NoClient = NoClient
    NoServer = NoServer
    MaxWrites = 2
    StrayIDs = {}
    Nr = 2
    Nw = 2
    Overlap = FALSE
INVARIANTS TypeOK AckedEverywhere Agreement
PROPERTY MonotonicReads
CHECK_DEADLOCK FALSE
