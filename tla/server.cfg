SPECIFICATION Spec
CONSTANTS
    s1 = s1
    s2 = s2
    b1 = b1
    b2 = b2
    n1 = n1
    q1 = q1
    q2 = q2
    d1 = d1
    d2 = d2
    i1 = i1
    i2 = i2
    c1 = c1
    c2 = c2
    RingSize = 2
    MaxMade = 3
    MaxSent = 2
    MaxQueue = 2
    MaxLost = 2
    MaxRepeats = 1
    Servers = {s1, s2}
    Browsers = {b1, b2}
    Services = {n1}
    Home <- ServerHome
    Requests = {q1, q2}
    MaxConnects = 3
    MaxStops = 1
    Docs = {d1, d2}
    DocOwner <- OwnerOf
    Images = {i1, i2}
    Loads <- TurnsOrTogether
    Editors = {c1, c2}
    DirectHistory = 1
    MaxDirectSaves = 4
    Devices = {c1, c2}
    MaxKeySaves = 4
    MaxResets = 1
    Readers = {"ann", "bob"}
    RightsChoices <- Discussions
    CommentIds = {c1, c2}
    CommentHistory = 1
    MaxCommentDiffs = 2
    Guests = {b1, b2, n1}
    Speakers = {b1, b2}
    MaxLists = 4
    Partners = {"ann", "bob"}
    MaxEpoch = 2
    MaxRows = 2
    Workers = {c1, c2}
    Authors = {"ann", "bob"}
    ImportIds = {"k"}
    MaxTemplates = 2
    MaxDocuments = 2
    MaxStyles = 3
    MaxRequests = 3
    Servants = {c1, c2}
    OldRevisions = 1
    MaxRevisions = 2
    MaxChanges = 3
    Clerks = {c1, c2}
    Addresses = {"a", "b"}
    FirstAddress = "a"
    MaxAsked = 3
    Machines = {c1, c2}
    Bodies = {"x", "y"}
    MaxEntries = 2
    MaxCategories = 2
    MaxSeconds = 3
    MaxChores = 3
    Tellers = {c1, c2}
    OverviewRights = {"read", "review", "read-without-comments"}
    MaxOrders = 3
    MaxTexts = 2
    Hosts = {s1, s2}
    Sites <- OneOrTwo
    Layouts <- PortLists
    Visitors = {d1, d2}
    DocumentId = 1
    MaxStarts = 2
INVARIANT TypesOK
INVARIANT NothingSkipped
INVARIANT HandledInFull
INVARIANT PresenceFollows
INVARIANT MessageArrives
INVARIANT BookReaders
INVARIANT ImagesFollowUse
INVARIANT EditorsAgree
INVARIANT ReplacedWereSeen
INVARIANT CommentsFollow
INVARIANT ListsCurrent
INVARIANT EnvelopesCurrent
INVARIANT TemplatesServe
INVARIANT RevisionsKept
INVARIANT AccountKept
INVARIANT BibliographyFollows
INVARIANT ToldWasSo
INVARIANT RowsStand
INVARIANT OneServer
CHECK_DEADLOCK FALSE
