----------------------------- MODULE MCReviews -----------------------------
(* A small instance of Reviews for TLC, on the order books of MCCheckout. *)
EXTENDS MCCheckout, Reviews

CONSTANTS s1, s2

ReviewSymmetry == Symmetry \cup Permutations(Submissions)
=============================================================================
