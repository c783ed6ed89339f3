------------------------------ MODULE MCKeyOps ------------------------------
(* Small instances of KeyOps: what the .cfg files share. *)
EXTENDS KeyOpsInv, TLC

AllOps == {"write", "create", "patch", "rootPatch", "remove"}
Symmetry == Permutations(Keys) \cup Permutations(Requests)
=============================================================================
