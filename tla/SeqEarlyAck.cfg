SPECIFICATION Spec
CONSTANTS
    Servers = {s1, s2}
    Primary = s1
    Clients = {c1, c2}
    NoClient = NoClient
    MaxWrites = 2
    StrayIDs = {}
    InitialSlots = 1
    Ordered = TRUE
INVARIANT AckedEverywhere
SYMMETRY Symm
CHECK_DEADLOCK FALSE
