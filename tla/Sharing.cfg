SPECIFICATION SharingSpec
CONSTANTS
    c1 = c1
    c2 = c2
    number = number
    p1 = p1
    p2 = p2
    p3 = p3
    anna = anna
    ben = ben
    Codes = {c1, c2}
    OneTime = {c1}
    Number = number
    Purchases = {p1, p2, p3}
    Buyers = {anna, ben}
    BuyerOf <- Carts
    MaxUsers = 1
    MaxUses = 2
    MaxChanges = 4
INVARIANTS
    SharedWithinLimits
PROPERTIES
    RevokedBuysNothing
CHECK_DEADLOCK FALSE
