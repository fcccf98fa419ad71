---------------------------- MODULE MCFrontDoor ----------------------------
(* A small instance of the request path and the reference data. *)
EXTENDS FrontDoor, TLC

Symmetry == Permutations(Calls)
=============================================================================
