--------------------------- MODULE MCCloudForward ---------------------------
(* Instances of CloudForward for TLC. *)
EXTENDS CloudForward

CONSTANTS d1, d2, d3, m1, m2
=============================================================================
