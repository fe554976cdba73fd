-------------------------------- MODULE Sums --------------------------------
(***************************************************************************)
(* Totals of a quantity over a set of rows: what the code's loops and SQL  *)
(* aggregates (SUM over returns, recipes, count entries) add up.           *)
(***************************************************************************)
EXTENDS Integers, FiniteSetsExt

\* The total of f over S.
SumOver(f, S) == MapThenSumSet(LAMBDA x : f[x], S)
=============================================================================
