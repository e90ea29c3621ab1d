-------------------------- MODULE MCSubscriptions --------------------------
(* Model-checking instance of Subscriptions: every tap is about s1. *)
EXTENDS Subscriptions, TLC

CONSTANTS s1, s2, t1, t2, r1, r2

MCPeriodDays == [p \in Periods |-> IF p = "weekly" THEN 1 ELSE 2]
MCTapSub     == [t \in Taps |-> s1]

Symmetry == Permutations(Taps) \cup Permutations(Requests)
=============================================================================
