CONSTANTS
    Requests = {r1, r2}
    Orders = {o1}
    Refs = {o1}
    k1 = k1
    Skus = {k1}
    SkuOf <- MCSkuOf
    OrderQtys = {1}
    SeedStages = {"shipped"}
    Operations = {"create", "raise", "transition"}
    Quantities <- MCQuantities
    Thresholds = {2}
    SeedQtys = {1}
    MaxAdjusts = 1
    MaxLogs = 5
    MaxIds = 9
SPECIFICATION Spec
PROPERTIES
    StatusFollowsTable
CHECK_DEADLOCK FALSE
