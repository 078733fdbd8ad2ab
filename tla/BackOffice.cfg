SPECIFICATION MCSpec
CONSTANTS
    Handlers = {h1, h2}
    Mixes <- MCMixes
    Sizes <- MCSizes
    Orders = {o1, o2}
    Opening = 3
    MinSellable = 2
    Counts = {1, 3}
    Shoppers = {u1}
    Jobs = {j1, j2}
    MaxListed = 2
    Customers = {c1, c2, c3}
    Stars = {4, 5}
    Posts = {p1, p2, p3}
    FeaturedMax = 2
    Cats = {a, b, c, d}
    Goods = {g1}
    MaxDepth = 3
    Phones = {ph1, ph2}
    MaxRecent = 2
    Defaults = 2
    SubOf <- MCSubOf
    Desks <- MCDesks
    Filters <- MCFilters
    Limit = 1
    Window = 2
    LastDay = 6
    Lots = {l1, l2}
    PerLot = 2
    Items = 3
    Fee = 1
    Shipping = 1
    Sources = {k1}
    Spendings = {s1, s2}
    Credits = {1, 2}
    Baskets = {b1, b2}
    Tags <- MCTags
    Wishes <- MCWishes
    Units = 3
    SellFrom = 1
    Fare = 2
    Dues = 3
    FreeFrom = 7
    TaxPercent = 25
    MinCharge = 1
SYMMETRY Symm
INVARIANTS
     ScansResolve ToldOnce ListingAddsUp
    RatingIsTrue ContentIsSound ReturnsAreFollowed 
CHECK_DEADLOCK FALSE
