------------------------------- MODULE MCSignIn -------------------------------
(* Instances of SignIn for TLC. *)
EXTENDS SignIn, TLC

Symmetry == Permutations(Browsers) \cup Permutations(Stores)
              \cup Permutations(Requests) \cup Permutations(Consents)
              \cup Permutations(Logins)
=============================================================================
