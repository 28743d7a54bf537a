CONSTANTS
    Requests = {r1, r2}
    Orders = {o1}
    Refs = {o1}
    k1 = k1
    Skus = {k1}
    SkuOf <- MCSkuOf
    OrderQtys = {1}
    SeedStages = {"shipped"}
    Operations = {"create", "raise", "update", "transition", "stock"}
    Quantities <- MCQuantities
    Thresholds = {0}
    SeedQtys = {0, 1}
    MaxAdjusts = 2
    MaxLogs = 2
    MaxIds = 6
SYMMETRY Symmetry
SPECIFICATION Spec
INVARIANTS
    StockNeverNegative
    NewestMovementIsStock
    ReceiptsAreStocked
    NewestLogIsStatus
    HistoryIsLegal
CHECK_DEADLOCK FALSE
