SPECIFICATION InventorySpec
CONSTANTS
    t1 = t1
    t2 = t2
    t3 = t3
    Skus = {"new", "refurbished"}
    Txs = {t1, t2}
    Quantities = {1, 2}
    MinSellable <- MCMinSellable
    InitialStock = 2
    MaxStock = 2
    Adjusted = {"refurbished"}
SYMMETRY Symmetric
INVARIANTS
    NoOverPromise
    LedgerAgrees
PROPERTIES
    ReservationIsCovered
