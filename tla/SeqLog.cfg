SPECIFICATION FairSpec
CONSTANTS
    Servers = {s1, s2}
    Primary = s1
    Clients = {c1, c2}
    NoClient = NoClient
    MaxWrites = 3
    StrayIDs = {}
    InitialSlots = 1
    Ordered = TRUE
INVARIANTS TypeOK LogPrefix
PROPERTIES EventuallyEverywhere ImplementsBoard
CHECK_DEADLOCK FALSE
