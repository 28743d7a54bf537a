---------------------------- MODULE MCInventory ----------------------------
(* Model-checking instance of Inventory. *)
EXTENDS Inventory, TLC

MCQuantities == {-1, 1, 2}

Symmetry == Permutations(Requests)

=============================================================================
