SPECIFICATION FairSpec
CONSTANTS
    c1 = c1
    c2 = c2
    u1 = u1
    u2 = u2
    Anon = Anon
    None = None
    Comment = {c1, c2}
    User = {u1, u2}
    Moderator = {u1, u2}
    PostAuthor = u1
    Batch = 1
    MaxRequests = 4
CHECK_DEADLOCK FALSE
INVARIANTS
    TypeOK
    CountersMatch
PROPERTIES
    HiddenStaysHidden
    ApprovedIsKept
    StalePendingGoes
