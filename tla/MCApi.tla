------------------------------- MODULE MCApi -------------------------------
(* A small instance of Api: subscribers of one key and of everything in two buckets. *)
EXTENDS Api, TLC
CONSTANTS b1, b2, k

OneTopic == {[bucket |-> b1, key |-> k]}
Lists == {<<[bucket |-> b1, key |-> k]>>,
          <<[bucket |-> b2, key |-> Star], [bucket |-> b1, key |-> Star]>>}
Symmetry == Permutations(Connections) \cup Permutations(Requests)
=============================================================================
