SPECIFICATION Spec
CONSTANTS
    a = a
    b = b
    c = c
    h1 = h1
    h2 = h2
    h3 = h3
    Lines = {a, b}
    Price <- MCPrice
    Shipping = 1
    Credit = 0
    Returnable = {a, b}
    Handlers = {h1, h2, h3}
    Serves <- Desk
    Lossy = TRUE
    MaxRequests = 5
SYMMETRY HandlersAreAlike
INVARIANTS
    LedgerIsRight
    ClosedOnce
CHECK_DEADLOCK FALSE
