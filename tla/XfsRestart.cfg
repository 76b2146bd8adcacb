SPECIFICATION Spec
CONSTANTS
    p1 = p1
    p2 = p2
    f = f
    global = global
    Peers = {p1, p2}
    Files = {f, global}
    NoPeer = nobody
    Share <- MCShare
    MaxCrashes = 1
    MaxStarts <- MCMaxStarts
    MaxLost = 0
    MaxLate = 0
    QuickRestart = TRUE
    Overlap = FALSE
INVARIANT PeersSurvive
CHECK_DEADLOCK FALSE
