--------------------------- MODULE MCGatewayLink ----------------------------
(* Instances of GatewayLink for TLC. *)
EXTENDS GatewayLink
=============================================================================
