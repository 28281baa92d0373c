--------------------------- MODULE MCAvailability --------------------------
(* Instances of Availability for TLC. *)
EXTENDS Availability

CONSTANTS d1, d2

=============================================================================
