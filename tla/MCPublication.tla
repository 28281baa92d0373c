---------------------------- MODULE MCPublication ---------------------------
(* Instances of Publication for TLC. *)
EXTENDS Publication

CONSTANT d1
=============================================================================
