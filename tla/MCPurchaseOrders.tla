-------------------------- MODULE MCPurchaseOrders --------------------------
(* Model-checking instance of PurchaseOrders: every order buys SKU k1. *)
EXTENDS PurchaseOrders, TLC

CONSTANT k1

MCQuantities == {-1, 1}

MCSeedStages == SeedStatuses

MCSkuOf == [o \in Orders |-> k1]

Symmetry == Permutations(Requests) \cup Permutations(Orders)

=============================================================================
