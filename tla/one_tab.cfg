\* One buyer, one request at a time, two shops, three orders.
CONSTANTS
    u1 = u1
    u2 = u2
    s1 = s1
    s2 = s2
    c1 = c1
    c2 = c2
    r1 = r1
    r2 = r2
    Users = {u1}
    Shops = {s1, s2}
    Contacts = {c1}
    OwnerOf <- OneOwner
    Connections = {r1}
    Requests = {r1}
    Issuer <- OneTab
    Catalogue <- TwoProducts
    MaxOrders = 3
    MaxItems = 3
    MaxInfos = 2
    MaxQuantity = 2
    CacheFaults = FALSE
    StaleCatalogue = TRUE
    MayCrash = TRUE
    NoRow = NoRow
    Miss = Miss
SPECIFICATION Spec
INVARIANTS
    Conservation
PROPERTIES
    SoldOnce
    KeepsLedger
