SPECIFICATION FairSpec
CONSTANTS
    a = a
    b = b
    r1 = r1
    r2 = r2
    Items = {a, b}
    Quantity = 1
    Requests = {r1, r2}
    MaxRequests = 3
INVARIANTS
    ShownAsQueued
PROPERTIES
    OnlyStaleRegresses
    
CHECK_DEADLOCK FALSE
