---------------------------- MODULE MCRateLimit ----------------------------
(* A small instance of RateLimit for TLC: two endpoints with budgets of their own. *)
EXTENDS RateLimit

CONSTANTS login, register

TwoThenOne == [k \in Keys |-> IF k = login THEN 2 ELSE 1]
ThreeThenFour == [k \in Keys |-> IF k = login THEN 3 ELSE 4]
=============================================================================
