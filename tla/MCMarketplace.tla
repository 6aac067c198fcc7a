--------------------------- MODULE MCMarketplace ---------------------------
(* Small instances of Marketplace for TLC. *)
EXTENDS Marketplace, TLC

CONSTANTS s1, i1, i2, a1, a2, f1, f2, c1, c2

Symmetry ==
  Permutations(Identities) \cup Permutations(Areas) \cup Permutations(Fuels)
  \cup Permutations(Calls)
=============================================================================
