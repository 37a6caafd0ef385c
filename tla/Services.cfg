SPECIFICATION ServicesSpec
CONSTANTS
    u1 = u1
    u2 = u2
    u3 = u3
    w1 = w1
    w2 = w2
    acme = acme
    api = api
    None = None
    User = {u1, u2, u3}
    Space = {w1, w2}
    Slug = {acme, api}
    Reserved = {api}
    MaxMembers = 2
    MaxRequests = 5
    c1 = c1
    c2 = c2
    p1 = p1
    p2 = p2
    k1 = k1
    Client = {c1, c2}
    Product = {p1, p2}
    Category = {k1}
    Seeded <- SeededRows
    MaxWrites = 3
INVARIANTS
    ServicesTypeOK
    OwnersStay
    ImagesOfOneRequest
PROPERTY
    DeletedStays
CHECK_DEADLOCK FALSE
