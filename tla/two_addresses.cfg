\* One buyer with two addresses, two requests at a time, an unreliable cache.
CONSTANTS
    u1 = u1
    u2 = u2
    s1 = s1
    s2 = s2
    c1 = c1
    c2 = c2
    r1 = r1
    r2 = r2
    Users = {u1}
    Shops = {s1}
    Contacts = {c1, c2}
    OwnerOf <- BothOwned
    Connections = {r1, r2}
    Requests = {r1, r2}
    Issuer <- TwoTabs
    Catalogue <- OneProduct
    MaxOrders = 1
    MaxItems = 1
    MaxInfos = 1
    MaxQuantity = 1
    CacheFaults = TRUE
    StaleCatalogue = FALSE
    MayCrash = TRUE
    NoRow = NoRow
    Miss = Miss
SPECIFICATION FairSpec
INVARIANTS
    Integrity
PROPERTIES
    StockMovesWithAnOrder
    PlacedIsFinal
    KeepsOpenLedger
    Answered
