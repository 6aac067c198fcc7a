----------------------------- MODULE MCAccounts -----------------------------
(* Small instances of Accounts for TLC. *)
EXTENDS Accounts, TLC

CONSTANTS u1, u2, u3, t1, t2, c1, c2

\* tokens and requests differ in nothing, and neither do the addresses nobody has registered
Symmetry ==
  Permutations(Tokens) \cup Permutations(Calls) \cup Permutations(FirstAdmins)
  \cup Permutations(Users \ FirstAdmins)
=============================================================================
