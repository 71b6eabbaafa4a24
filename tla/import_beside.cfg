\* A buyer and two imports at a time of the goods they buy.
CONSTANTS
    u1 = u1
    c1 = c1
    r1 = r1
    Users = {u1}
    Shops = {1}
    Contacts = {c1}
    OwnerOf <- OneOwner
    Connections = {r1}
    Requests = {r1}
    Issuer <- OneTab
    Catalogue <- InStock
    MaxOrders = 1
    MaxItems = 1
    MaxInfos = 3
    MaxQuantity = 2
    CacheFaults = FALSE
    StaleCatalogue = TRUE
    MayCrash = TRUE
    NoRow = NoRow
    Miss = Miss
    Broken = Broken
    Jobs = {1, 2}
    Kind <- ByFile
    StartedFor <- ForFirst
    File <- TwoLists
    FirstShops <- OneShop
    FirstProducts <- OnSale
    Workers = 2
    MaxRetries = 0
    MayDie = FALSE
SPECIFICATION ShopSpec
INVARIANTS
    SideBySide
    NamedAtMost
    SnapshotCurrent
    Integrity
PROPERTIES
    StockIsReplacedOrSold
