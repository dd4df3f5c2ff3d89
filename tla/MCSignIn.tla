------------------------------ MODULE MCSignIn ------------------------------
(* Instances of SignIn for TLC. *)
EXTENDS SignIn, TLC

Symmetry ==
  Permutations(Challenges) \cup Permutations(Sessions) \cup Permutations(Calls)
=============================================================================
