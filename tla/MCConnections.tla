---------------------------- MODULE MCConnections ----------------------------
(* Instances of Connections for TLC. *)
EXTENDS Connections, TLC

CONSTANTS s1, s2

OneStore  == <<s1>>
TwoStores == <<s1, s2>>

\* Everyone's connection to the first store may be kept in the v1 format.
FirstStore == People \X {s1}

Symmetry == Permutations(People) \cup Permutations(Sessions)
              \cup Permutations(Links) \cup Permutations(Requests)
=============================================================================
