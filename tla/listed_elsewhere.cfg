\* A product that two shops sell at two prices.
CONSTANTS
    p1 = p1
    s1 = s1
    s2 = s2
    Products = {p1}
    Shops = {s1, s2}
    MaxInfos = 2
    Prices = {1, 2}
    MaxStock = 1
    Filters <- AtLeast
    Lasts <- Lifetimes
    NoRow = NoRow
SPECIFICATION BrowseSpec
INVARIANTS
    ListedFits
