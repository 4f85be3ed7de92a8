SPECIFICATION Spec
CONSTANTS
    c1 = c1
    c2 = c2
    c3 = c3
    u1 = u1
    u2 = u2
    Conns = {c1, c2}
    Owners = {c1}
    Users = {u1, u2}
    Holders = {u1}
    HistoryLength = 2
    PromptSnapshots = TRUE
    RekeyAlone = TRUE
    FailPlaces = {"rekeying", "committing"}
    MaxVersion = 4
    MaxRekeys = 1
    MaxRestarts = 0
INVARIANT EnvelopesFit
