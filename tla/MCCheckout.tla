----------------------------- MODULE MCCheckout -----------------------------
(* Small instances of Checkout for TLC, on the order book below. *)
EXTENDS Checkout, TLC

CONSTANTS o1, o2, l1, r1, r2, c1, c2

Symmetry == Permutations(Calls) \cup Permutations(Refs)

\* one order of one listing that has enough for it
OneOrderQty == [o \in Orders |-> [l \in Listings |-> 1]]
FromCatalogue == [o \in Orders |-> "CATALOGUE"]
OneEach == [l \in Listings |-> 1]
=============================================================================
