SPECIFICATION Spec
CONSTANTS
    home = home
    work = work
    o1 = o1
    h1 = h1
    h2 = h2
    Emails = {home, work}
    First = home
    Orders = {o1}
    Handlers = {h1, h2}
    MaxRequests = 4
    MaxFaults = 1
SYMMETRY HandlersAreAlike
INVARIANTS
    SignedOut
    TokensServeOnce
    
PROPERTIES
    OnlyGuestsArePurged
CHECK_DEADLOCK FALSE
