---------------------------- MODULE MCFinanceBills ----------------------------
(* Model-checking instance of FinanceBills: requests are interchangeable, and *)
(* the run checks safety properties only. *)
EXTENDS FinanceBills, TLC

Symmetry == Permutations(Requests)

=============================================================================
