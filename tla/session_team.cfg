SPECIFICATION Spec
CONSTANTS
    c1 = c1
    c2 = c2
    c3 = c3
    Conns = {c1, c2, c3}
    HistoryLength = 2
    SaveInterval = 2
    RustEngine = TRUE
    BlankRow = FALSE
    Sidecars = FALSE
    LastStays = TRUE
    MaxLive = 3
    MaxDiffs = 3
    MaxCrashes = 1
SYMMETRY Symmetry
INVARIANT CatchUpExact
INVARIANT OneSharedSession
INVARIANT LossBounded
PROPERTY TextNeverRegresses
CHECK_DEADLOCK FALSE
