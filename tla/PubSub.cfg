SPECIFICATION FairSpec
CONSTANTS
    s1 = s1
    s2 = s2
    c1 = c1
    c2 = c2
    Nobody = Nobody
    Servers = {s1, s2}
    Clients = {c1, c2}
    Filters <- MCFilters
    Articles <- MCArticles
    MAXCLIENT = 1
    MaxStarts <- MCMaxStarts
    Leavers = {s2}
    MaxEnds = 1
    MaxLate = 1
    QuickRestart = FALSE
    Others <- MCOthers
INVARIANTS TypeOK RoundClears LiveListed Served Remembered
PROPERTIES DeadDropped FailsOver
CHECK_DEADLOCK FALSE
