--------------------------- MODULE MCConfigReads ---------------------------
(* Instances of ConfigReads for TLC. *)
EXTENDS ConfigReads, TLC

CONSTANTS d1, d2, r1, r2, r3

TwoDevices == {d1, d2}
TwoAndOneRegs == (d1 :> <<r1, r2>>) @@ (d2 :> <<r3>>)
=============================================================================
