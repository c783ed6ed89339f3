------------------------------ MODULE MCWiring ------------------------------
(* Small instances of Wiring. *)
EXTENDS Wiring
=============================================================================
