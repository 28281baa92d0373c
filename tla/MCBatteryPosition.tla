------------------------- MODULE MCBatteryPosition --------------------------
(* Instances of BatteryPosition for TLC. *)
EXTENDS BatteryPosition

\* Nothing, a battery moved to slot 3, and an empty slot 2.
MCPicks == {AllAuto, [AllAuto EXCEPT ![3] = "a"], [AllAuto EXCEPT ![2] = EmptyAssignment, ![4] = "b"]}
=============================================================================
