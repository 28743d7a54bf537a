CONSTANTS
    Requests = {r1}
    Skus = {k1}
    Refs = {}
    Quantities = {3}
    Thresholds = {2}
    SeedQtys = {1}
    MaxAdjusts = 1
    MaxIds = 3
    Scanners = {a1, a2}
    Hourly = a1
    Users = {u1, u2}
    MaxRaised = 2
    MaxMisreads = 1
SPECIFICATION FairSpec
INVARIANTS
    NoiseBounded
    PendingBounded
    MessagesHaveOrders
PROPERTIES
    RaisedOnlyUnseen
    Noticed
CHECK_DEADLOCK FALSE
