----------------------------- MODULE MCBuckets -----------------------------
(* Constants for the bucket lifecycle: the tasks are interchangeable. *)
EXTENDS Buckets, TLC

Symmetry == Permutations(Tasks)
AllOps == Calls
=============================================================================
