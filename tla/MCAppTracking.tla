---------------------------- MODULE MCAppTracking ----------------------------
(* A face and the hand that the mirroring moves to the other side. *)
EXTENDS AppTracking

MCParts == {"face", "left"}
=============================================================================
