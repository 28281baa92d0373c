--------------------------- MODULE MCConfigWrites ---------------------------
(* Instances of ConfigWrites for TLC. *)
EXTENDS ConfigWrites

CONSTANTS d1, time, other
=============================================================================
