--------------------------- MODULE MCGatewayRelay ---------------------------
(* One session, and three requests for two targets.                         *)
EXTENDS GatewayRelay
=============================================================================
