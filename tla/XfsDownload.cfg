SPECIFICATION FairSpec
CONSTANTS
    f = f
    g = g
    Peers <- MCPeers
    Files = {f, g}
    Holders <- MCHolders
    Stale <- MCStale
    Route <- MCRoute
    Wishes <- MCWishes
    Noisy = 1
    PoolSize = 4
    MaxOutlived = 1
    MaxNoise = 1
    MaxCrashes = 1
    MaxLate = 1
    Overlap = FALSE
    Absent = absent
    Spoilt = spoilt
    Empty = empty
INVARIANTS TypeOK FreshPorts FileIntegrity Unavailable
PROPERTY DownloadsEnd
CHECK_DEADLOCK FALSE
