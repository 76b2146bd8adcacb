SPECIFICATION Spec
CONSTANTS
    Servers = {s1, s2}
    Primary = s1
    Clients = {c1}
    NoClient = NoClient
    MaxWrites = 1
    StrayIDs = {}
    InitialSlots = 1
    Ordered = TRUE
    Settled = FALSE
PROPERTY ReadYourWrites
CHECK_DEADLOCK FALSE
