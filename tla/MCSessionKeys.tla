--------------------------- MODULE MCSessionKeys ---------------------------
(* Small instances of SessionKeys. *)
EXTENDS SessionKeys, TLC

Symmetry == Permutations(Requests) \cup Permutations(Connections) \cup Permutations(Keys)
=============================================================================
