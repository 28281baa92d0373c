------------------------ MODULE MCDeviceConfigStore -------------------------
(* Instances of DeviceConfigStore for TLC. *)
EXTENDS DeviceConfigStore
=============================================================================
