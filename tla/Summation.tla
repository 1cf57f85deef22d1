----------------------------- MODULE Summation -----------------------------
(***************************************************************************)
(* Sums over the rows of a table.  The services add quantities up with a   *)
(* defaultdict or with sum() over a queryset ordered by primary key; here  *)
(* the rows are 1..n and the sum is a recursive function, so that its laws *)
(* can be proved (module Summation_proofs).                                *)
(***************************************************************************)
EXTENDS Integers

\* The running totals of f over its first rows: Prefix(f, n)[i] = f[1] + ... + f[i].
Prefix(f, n) ==
  LET s[i \in 0..n] == IF i = 0 THEN 0 ELSE s[i - 1] + f[i] IN s

\* The sum of f over the rows 1..n.
Total(f, n) == Prefix(f, n)[n]
=============================================================================
