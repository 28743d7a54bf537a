CONSTANTS
    Requests = {r1, r2}
    Skus = {k1}
    Refs = {}
    Quantities <- MCQuantities
    Thresholds = {2}
    SeedQtys = {1}
    MaxAdjusts = 2
    MaxIds = 5
SPECIFICATION StockSpec
INVARIANT
    LedgerContiguous
CHECK_DEADLOCK FALSE
