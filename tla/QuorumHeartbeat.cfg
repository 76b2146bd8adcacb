SPECIFICATION Spec
CONSTANTS
    s1 = s1
    s2 = s2
    s3 = s3
    Servers = {s1, s2, s3}
    SIPs <- ThreeServers
    Primary = s1
    Clients = {c1}
    NoClient = NoClient
    NoServer = NoServer
    MaxWrites = 1
    StrayIDs = {}
    Nr = 1
    Nw = 3
    Overlap = TRUE
INVARIANT AckedSomewhere
CHECK_DEADLOCK FALSE
