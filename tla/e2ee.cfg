SPECIFICATION Spec
CONSTANTS
    c1 = c1
    c2 = c2
    c3 = c3
    u1 = u1
    u2 = u2
    Conns = {c1, c2, c3}
    Owners = {c1}
    Users = {u1, u2}
    Holders = {u1}
    HistoryLength = 2
    PromptSnapshots = TRUE
    RekeyAlone = TRUE
    FailPlaces = {"rekeying"}
    MaxVersion = 4
    MaxRekeys = 2
    MaxRestarts = 1
INVARIANT DocumentReadable
INVARIANT OneEpoch
INVARIANT EnvelopesFit
