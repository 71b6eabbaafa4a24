\* A price list that fails, and a newer one of the same shop.
CONSTANTS
    u1 = u1
    Users = {u1}
    Shops = {1, 2}
    Contacts = {}
    OwnerOf <- NoAddresses
    Connections = {}
    MaxOrders = 0
    MaxItems = 0
    MaxInfos = 6
    NoRow = NoRow
    Broken = Broken
    Jobs = {1, 2}
    Kind <- OldAndNew
    StartedFor <- ForItself
    File <- OldThenNew
    FirstShops <- TwoShops
    FirstProducts <- NoProducts
    Workers = 1
    MaxRetries = 1
    MayDie = FALSE
CHECK_DEADLOCK FALSE
SPECIFICATION ImportSpec
INVARIANTS
    LastUploadCounts
