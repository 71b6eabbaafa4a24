\* An import whose file names another shop than the one it was started for.
CONSTANTS
    u1 = u1
    Users = {u1}
    Shops = {1, 2}
    Contacts = {}
    OwnerOf <- NoAddresses
    Connections = {}
    MaxOrders = 0
    MaxItems = 0
    MaxInfos = 6
    NoRow = NoRow
    Broken = Broken
    Jobs = {1}
    Kind <- ByStaff
    StartedFor <- ForAnother
    File <- NamesFirst
    FirstShops <- TwoShops
    FirstProducts <- NoProducts
    Workers = 1
    MaxRetries = 1
    MayDie = FALSE
CHECK_DEADLOCK FALSE
SPECIFICATION ImportSpec
PROPERTIES
    ImportsItsShop
