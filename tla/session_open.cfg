SPECIFICATION FairSpec
CONSTANTS
    c1 = c1
    c2 = c2
    c3 = c3
    Conns = {c1, c2, c3}
    HistoryLength = 2
    SaveInterval = 2
    RustEngine = FALSE
    BlankRow = TRUE
    Sidecars = TRUE
    LastStays = FALSE
    MaxLive = 3
    MaxDiffs = 1
    MaxCrashes = 0
INVARIANT RegisteredIsServed
PROPERTY EmptySessionGoes
CHECK_DEADLOCK FALSE
