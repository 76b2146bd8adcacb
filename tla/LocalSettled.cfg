SPECIFICATION Spec
CONSTANTS
    Servers = {s1, s2, s3}
    Primary = s1
    Clients = {c1, c2}
    NoClient = NoClient
    MaxWrites = 3
    StrayIDs = {1}
    InitialSlots = 1
    Ordered = FALSE
    Settled = TRUE
INVARIANTS TypeOK Agreement SlotsCountOneRequest
PROPERTY ReadYourWrites
CHECK_DEADLOCK FALSE
