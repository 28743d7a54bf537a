CONSTANTS
    Requests = {r1, r2}
    Orders = {o1}
    Refs = {o1}
    k1 = k1
    Skus = {k1}
    SkuOf <- MCSkuOf
    OrderQtys = {1}
    SeedStages = {"reconciling"}
    Operations = {"create", "raise", "transition", "receive", "stock"}
    Quantities = {1}
    Thresholds = {0}
    SeedQtys = {1}
    MaxAdjusts = 1
    MaxLogs = 3
    MaxIds = 4
SPECIFICATION FairSpec
INVARIANTS
    StagesAreEarned
    SettledWasReceived
PROPERTIES
    RequestsFinish
CHECK_DEADLOCK FALSE
