\* A request of the cart beside the confirmation, nothing fails.
CONSTANTS
    u1 = u1
    u2 = u2
    s1 = s1
    s2 = s2
    c1 = c1
    c2 = c2
    r1 = r1
    r2 = r2
    Users = {u1}
    Shops = {s1}
    Contacts = {c1}
    OwnerOf <- OneOwner
    Connections = {r1, r2}
    Requests = {r1, r2}
    Issuer <- TwoTabs
    Catalogue <- OneProduct
    MaxOrders = 1
    MaxItems = 1
    MaxInfos = 1
    MaxQuantity = 2
    CacheFaults = FALSE
    StaleCatalogue = FALSE
    MayCrash = FALSE
    NoRow = NoRow
    Miss = Miss
SPECIFICATION Spec
PROPERTY
    PlacedFrozen
