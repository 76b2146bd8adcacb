SPECIFICATION FairSpec
CONSTANTS
    V = 4
    src = 0
    Weights = {0, 1, 3}
    MaxLines = 4
    INT_MAX = 100
INVARIANTS TypeOK RoutesAreWalks RoutesFit Relaxed Shortest
PROPERTY Returns
