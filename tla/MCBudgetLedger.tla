--------------------------- MODULE MCBudgetLedger ---------------------------
(* Model values and bounds for checking BudgetLedger with TLC. *)
EXTENDS BudgetLedger

CONSTANTS r1, r2

MCCosts == {-1, 3}
=============================================================================
