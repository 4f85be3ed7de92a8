SPECIFICATION Spec
CONSTANTS
    author = author
    reader = reader
    Conns = {author, reader}
    Owners = {author}
    Writers = {author}
    Tasks = {t1}
    Scenarios <- MCScenarios
    HistoryLength = 1
    SaveInterval = 2
    MaxSessions = 2
INVARIANT RegisteredIsServed
INVARIANT CaughtUp
INVARIANT RowReachesVersion
INVARIANT Durable
PROPERTY RevokedLeaves
CHECK_DEADLOCK FALSE
