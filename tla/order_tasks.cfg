\* Two tasks sent by name and one of the beat schedule, for two orders.
CONSTANTS
    u1 = u1
    s1 = s1
    c1 = c1
    c2 = c2
    t1 = t1
    t2 = t2
    t3 = t3
    Users = {u1}
    Shops = {s1}
    Contacts = {c1, c2}
    OwnerOf <- BothOwned
    Connections = {t1, t2, t3}
    Tasks = {t1, t2, t3}
    Letters = {t1, t2, t3}
    Callable = {t1, t2}
    Calls = {"process", "update"}
    FirstOrder <- TwoOrders
    FirstItem <- TwoItems
    FirstInfo <- InStock
    MaxOrders = 2
    MaxItems = 2
    MaxInfos = 1
    NoRow = NoRow
    MaxResends = 1
    Rendered = TRUE
CHECK_DEADLOCK FALSE
SPECIFICATION FairTaskSpec
INVARIANTS
    TaskTypeOK
    OrdersFit
PROPERTIES
    ConfirmedTogether
    TasksEnd
