SPECIFICATION Spec
CONSTANTS
    Servers = {s1,s2}
    Primary = s1
    Clients = {c1, c2}
    NoClient = NoClient
    MaxWrites = 3
    StrayIDs = {1}
    InitialSlots = 1
    Ordered = TRUE
INVARIANTS ReadOrder EqualProgress SlotBalance
SYMMETRY Symm
CHECK_DEADLOCK FALSE
