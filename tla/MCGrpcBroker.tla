---------------------------- MODULE MCGrpcBroker ----------------------------
(* The plugin's services dialed by the host, the direction that can work. *)
EXTENDS GrpcBroker

MCSideOf == [c \in Accepts \cup Dials |-> IF c \in Accepts THEN "plugin" ELSE "host"]
=============================================================================
