-------------------------------- MODULE Tally --------------------------------
(***************************************************************************)
(* The SUM(...) of the cost ledger's queries, over a table whose rows are  *)
(* numbered 1..n: f[i] is what row i contributes to the query, 0 when the  *)
(* row is absent or does not match its WHERE clause.                       *)
(***************************************************************************)
EXTENDS Naturals

\* The running total of f over the rows 1..n, as a recursive function.
PartialSums(f, n) ==
    LET acc[i \in 0..n] == IF i = 0 THEN 0 ELSE acc[i - 1] + f[i]
    IN  acc

\* COALESCE(SUM(f), 0) over the rows 1..n.
Total(f, n) == PartialSums(f, n)[n]
==============================================================================
