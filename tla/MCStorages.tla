----------------------------- MODULE MCStorages -----------------------------
(* A small instance of Storages. *)
EXTENDS Storages, TLC

Symmetry == Permutations(Requests) \cup Permutations(Keys)
=============================================================================
