\* Two buyers, each one request at a time, a reliable cache.
CONSTANTS
    u1 = u1
    u2 = u2
    s1 = s1
    s2 = s2
    c1 = c1
    c2 = c2
    r1 = r1
    r2 = r2
    Users = {u1, u2}
    Shops = {s1}
    Contacts = {c1, c2}
    OwnerOf <- TwoOwners
    Connections = {r1, r2}
    Requests = {r1, r2}
    Issuer <- TwoBuyers
    Catalogue <- LastPiece
    MaxOrders = 2
    MaxItems = 2
    MaxInfos = 1
    MaxQuantity = 1
    CacheFaults = FALSE
    StaleCatalogue = TRUE
    MayCrash = TRUE
    NoRow = NoRow
    Miss = Miss
SPECIFICATION Spec
INVARIANTS
    Ownership
    CacheCoherent
    Conservation
SYMMETRY AlikeBuyers
