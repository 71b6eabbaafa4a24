\* Four imports, one at a time, of three shops; workers may die.
CONSTANTS
    u1 = u1
    Users = {u1}
    Shops = {1, 2, 3}
    Contacts = {}
    OwnerOf <- NoAddresses
    Connections = {}
    MaxOrders = 0
    MaxItems = 0
    MaxInfos = 12
    NoRow = NoRow
    Broken = Broken
    Jobs = {1, 2, 3, 4}
    Kind <- FourKinds
    StartedFor <- FourShops
    File <- FourFiles
    FirstShops <- TwoShops
    FirstProducts <- NoProducts
    Workers = 1
    MaxRetries = 1
    MayDie = TRUE
CHECK_DEADLOCK FALSE
SPECIFICATION FairImportSpec
INVARIANTS
    ImportTypeOK
    CatalogueIntegrity
    NamedOnce
    Unmixed
PROPERTIES
    ImportedExactly
    Settled
