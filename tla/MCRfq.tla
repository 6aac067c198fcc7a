------------------------------- MODULE MCRfq -------------------------------
(* Small instances of Rfq for TLC. *)
EXTENDS Rfq, TLC

CONSTANTS q1, s1, s2, c1, c2

Symmetry == Permutations(Suppliers) \cup Permutations(Calls)
=============================================================================
