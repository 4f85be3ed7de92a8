SPECIFICATION Spec
CONSTANTS
    c1 = c1
    c2 = c2
    c3 = c3
    Conns = {c1, c2}
    HistoryLength = 2
    SaveInterval = 2
    RustEngine = TRUE
    BlankRow = FALSE
    Sidecars = FALSE
    LastStays = TRUE
    MaxLive = 2
    MaxDiffs = 3
    MaxCrashes = 0
INVARIANT SavedIsStored
CHECK_DEADLOCK FALSE
