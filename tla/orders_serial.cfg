CONSTANTS
    Requests = {r1}
    Orders = {o1}
    Refs = {o1}
    k1 = k1
    Skus = {k1}
    SkuOf <- MCSkuOf
    OrderQtys = {1, 2}
    SeedStages <- MCSeedStages
    Operations = {"create", "raise", "update", "transition", "receive", "stock"}
    Quantities <- MCQuantities
    Thresholds = {2}
    SeedQtys = {1}
    MaxAdjusts = 1
    MaxLogs = 5
    MaxIds = 9
SPECIFICATION Spec
INVARIANTS
    StockedOnce
    HistoryMatchesLogs
    LedgerContiguous
    OldestRowMoves
PROPERTIES
    FollowsLifecycle
    TermsFrozen
CHECK_DEADLOCK FALSE
