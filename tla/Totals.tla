------------------------------- MODULE Totals -------------------------------
(***************************************************************************)
(* Sums over the rows of a table.  The services add up rows with           *)
(* Array.reduce and with SQL's SUM; both walk the rows one by one, and so  *)
(* does the running total below.  It is a recursive function and not a     *)
(* fold of the community modules because facts about it are proved.        *)
(***************************************************************************)
EXTENDS Integers

\* f[1] + ... + f[n]
Total(f, n) ==
  LET upTo[i \in 0..n] == IF i = 0 THEN 0 ELSE upTo[i - 1] + f[i]
  IN  upTo[n]

\* The smaller and the larger of two integers (Math.min, LEAST, Math.max, GREATEST).
Least(a, b)    == IF a <= b THEN a ELSE b
Greatest(a, b) == IF a >= b THEN a ELSE b
=============================================================================
