----------------------------- MODULE MCRunAction -----------------------------
(* An instance of RunAction for TLC. *)
EXTENDS RunAction, TLC

Symmetry == Permutations(Aliases) \cup Permutations(Shops) \cup Permutations(Roots)
=============================================================================
