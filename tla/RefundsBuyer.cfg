SPECIFICATION Spec
CONSTANTS
    a = a
    b = b
    c = c
    h1 = h1
    h2 = h2
    h3 = h3
    Lines = {a, b, c}
    Price <- MCPrice
    Shipping = 1
    Credit = 4
    Returnable = {}
    Handlers = {h1, h2, h3}
    Serves <- Buyer
    Lossy = FALSE
    MaxRequests = 6
INVARIANTS
    CreditConserved
    CancelledAreSettled
CHECK_DEADLOCK FALSE
