------------------------------- MODULE Totals -------------------------------
(***************************************************************************)
(* Sums over a prefix of a sequence of amounts.  The sum is a recursive    *)
(* function over 0..n (not a RECURSIVE operator and not a fold over an     *)
(* unordered set), so that the equations of the recursion can be used in a *)
(* proof: BudgetLedgerProofs has how a sum changes when the sequence       *)
(* grows by one entry or one of its entries changes.                       *)
(***************************************************************************)
EXTENDS Integers

(* The sum of f[1], ..., f[n]. *)
Total(f, n) ==
  LET upto[i \in 0..n] == IF i = 0 THEN 0 ELSE upto[i - 1] + f[i]
  IN  upto[n]

(* Mutant: the amount is taken as it is. *)
ClampNone(x) == x

(* max(0, x), as the code clamps an amount. *)
Clamp(x) == IF x < 0 THEN 0 ELSE x
=============================================================================
