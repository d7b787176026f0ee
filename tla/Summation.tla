----------------------------- MODULE Summation -----------------------------
(* Sums of quantities, results and weights, as the code's loops add them up. *)
EXTENDS Integers

\* f[1] + ... + f[n].
Total(n, f) ==
  LET upTo[k \in 0 .. n] == IF k = 0 THEN 0 ELSE upTo[k - 1] + f[k] IN upTo[n]
=============================================================================
