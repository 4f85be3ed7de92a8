SPECIFICATION Spec
CONSTANTS
    c1 = c1
    c2 = c2
    c3 = c3
    Conns = {c1, c2, c3}
    HistoryLength = 2
    SaveInterval = 2
    RustEngine = FALSE
    BlankRow = TRUE
    Sidecars = TRUE
    LastStays = FALSE
    MaxLive = 1
    MaxDiffs = 4
    MaxCrashes = 1
SYMMETRY Symmetry
INVARIANT Durable
INVARIANT RowIsAVersion
PROPERTY LogSpec
CHECK_DEADLOCK FALSE
