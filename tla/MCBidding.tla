----------------------------- MODULE MCBidding -----------------------------
(* A small instance of Bidding for TLC: every request is for the same area. *)
EXTENDS Bidding, TLC

CONSTANTS q1, s1, s2, b1, c1, c2, a1, i1

Symmetry == Permutations(Suppliers \ Restless) \cup Permutations(Calls)

SameArea == [q \in Requests |-> a1]
=============================================================================
