----------------------------- MODULE MCKeyPage ------------------------------
(* A small instance of KeyPage. *)
EXTENDS KeyPage, TLC

Symmetry == Permutations(Keys)
=============================================================================
