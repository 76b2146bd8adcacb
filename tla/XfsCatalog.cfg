SPECIFICATION FairSpec
CONSTANTS
    p1 = p1
    p2 = p2
    f = f
    global = global
    Peers = {p1, p2}
    Files = {f, global}
    NoPeer = nobody
    Share <- MCShare
    MaxCrashes = 1
    MaxStarts <- MCMaxStarts
    MaxLost = 1
    MaxLate = 0
    QuickRestart = FALSE
    Overlap = FALSE
INVARIANTS TypeOK PeersSurvive OnlineIsListed
PROPERTY Relisted
CHECK_DEADLOCK FALSE
