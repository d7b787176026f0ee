-------------------------- MODULE MCSubscriptions --------------------------
(* A small instance of Subscriptions for TLC. *)
EXTENDS Subscriptions

\* A short plan and a long one.
ShortAndLong == [p \in Plans |-> IF p = "short" THEN 1 ELSE 2]
=============================================================================
