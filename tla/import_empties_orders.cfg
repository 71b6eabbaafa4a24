\* A buyer and an import after their order.
CONSTANTS
    u1 = u1
    c1 = c1
    r1 = r1
    Users = {u1}
    Shops = {1}
    Contacts = {c1}
    OwnerOf <- OneOwner
    Connections = {r1}
    Requests = {r1}
    Issuer <- OneTab
    Catalogue <- InStock
    MaxOrders = 2
    MaxItems = 2
    MaxInfos = 3
    MaxQuantity = 2
    CacheFaults = FALSE
    StaleCatalogue = TRUE
    MayCrash = TRUE
    NoRow = NoRow
    Miss = Miss
    Broken = Broken
    Jobs = {1}
    Kind <- ByFile
    StartedFor <- ForFirst
    File <- PriceList
    FirstShops <- OneShop
    FirstProducts <- OnSale
    Workers = 1
    MaxRetries = 1
    MayDie = FALSE
SPECIFICATION ShopSpec
PROPERTIES
    OrdersKeepTheirGoods
