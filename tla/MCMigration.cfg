SPECIFICATION MSpec
CONSTANTS
    HostC = 3
    Pagesize = 4
    Homepages = 5
    Maxmempages = 16
    Cachepages = 2
    WVec = TRUE
    Rand <- MCRand
    MaxDraws = 2
    Programs <- MCPrograms
INVARIANT PlacementUntilBarrier
INVARIANT HomesArranged
INVARIANT HomesAgreePerBarrier
INVARIANT ReadsLatest
INVARIANT GetpAtHome
PROPERTY MovesToLatestCopy
