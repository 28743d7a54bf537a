CONSTANTS
    Bills = {b1}
    Orders = {o1}
    NoOrder = NoOrder
    Users = {u1}
    Requests = {r1, r2}
    Amounts = {1, 2, 4}
    Tolerance = 1
    MaxEdits = 1
SPECIFICATION Spec
INVARIANTS
    DecidedRight
    DisputeReported
    ReportsBounded
PROPERTIES
    PaymentKept
SYMMETRY Symmetry
