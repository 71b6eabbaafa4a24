\* Two offers of a product in two shops, a filter with bounds, a cache that misses changes.
CONSTANTS
    p1 = p1
    s1 = s1
    s2 = s2
    Products = {p1}
    Shops = {s1, s2}
    MaxInfos = 2
    Prices = {1, 2}
    MaxStock = 1
    Filters <- InRange
    Lasts <- Lifetimes
    NoRow = NoRow
SPECIFICATION FairBrowseSpec
INVARIANTS
    ListComplete
    ShownIsSold
PROPERTIES
    StaleEnds
