\* An order is set back to "pending_notification": the retry sells it again.
CONSTANTS
    u1 = u1
    s1 = s1
    c1 = c1
    c2 = c2
    t1 = t1
    t2 = t2
    t3 = t3
    Users = {u1}
    Shops = {s1}
    Contacts = {c1, c2}
    OwnerOf <- BothOwned
    Connections = {t1, t2}
    Tasks = {t1, t2}
    Letters = {t1, t2}
    Callable = {t1}
    Calls = {"update"}
    FirstOrder <- TwoOrders
    FirstItem <- TwoItems
    FirstInfo <- InStock
    MaxOrders = 2
    MaxItems = 2
    MaxInfos = 1
    NoRow = NoRow
    MaxResends = 1
    Rendered = TRUE
CHECK_DEADLOCK FALSE
SPECIFICATION TaskSpec
INVARIANT
    NotifyingSellsNothing
