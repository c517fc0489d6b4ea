--------------------------- MODULE MCBudgetedCalls ---------------------------
(* Model values and symmetry for checking BudgetedCalls with TLC. *)
EXTENDS BudgetedCalls, TLC

CONSTANTS c1, c2, r1

CallSymmetry == Permutations({c1, c2})
=============================================================================
