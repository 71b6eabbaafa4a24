\* The same new shop from two files at once: it is created twice.
CONSTANTS
    u1 = u1
    Users = {u1}
    Shops = {1, 2, 3, 4}
    Contacts = {}
    OwnerOf <- NoAddresses
    Connections = {}
    MaxOrders = 0
    MaxItems = 0
    MaxInfos = 6
    NoRow = NoRow
    Broken = Broken
    Jobs = {1, 2, 3}
    Kind <- ThreeFiles
    StartedFor <- ForB
    File <- SameFile
    FirstShops <- TwoShops
    FirstProducts <- NoProducts
    Workers = 2
    MaxRetries = 1
    MayDie = FALSE
CHECK_DEADLOCK FALSE
SPECIFICATION ImportSpec
INVARIANT
    ShopNamedOnce
