--------------------------- MODULE MCTokenFamilies ---------------------------
(* Instances of TokenFamilies for TLC.  The secrets of one kind are            *)
(* interchangeable (they are only compared), so are the request slots.         *)
EXTENDS TokenFamilies, TLC

Symmetry == Permutations(Requests) \cup Permutations(Tokens) \cup Permutations(Families)
=============================================================================
