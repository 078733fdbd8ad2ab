SPECIFICATION Spec
CONSTANTS
    a = a
    b = b
    s1 = s1
    s2 = s2
    h1 = h1
    h2 = h2
    Lines = {a, b}
    Purchased <- MCPurchased
    Submissions = {s1, s2}
    Kinds <- Mixed
    Handlers = {h1, h2}
    MaxRequests = 5
SYMMETRY Alike
INVARIANTS
    
    ReceivedInPackages
PROPERTIES
    OnlyKnownRevivals
CHECK_DEADLOCK FALSE
