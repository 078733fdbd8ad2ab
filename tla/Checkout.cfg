SPECIFICATION Spec
CONSTANTS
    h1 = h1
    h2 = h2
    h3 = h3
    i1 = i1
    i2 = i2
    Intents = {i1, i2}
    Handlers = {h1, h2}
    Qty <- OneEach
    Ask <- OneEach
    MinSellable = 1
    InitialStock = 2
    InitialCredit = 1
    Hosted = FALSE
    Faulty = {i1}
SYMMETRY Symmetric
INVARIANTS
    NothingOverdrawn
    UnitsAccounted
PROPERTIES
    
    ConsumedIsFinal
CHECK_DEADLOCK FALSE
