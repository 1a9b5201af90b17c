-------------------------- MODULE MCGatewayBinding --------------------------
(***************************************************************************)
(* Two routes of one Gateway instance and one of the next instance.        *)
(***************************************************************************)
EXTENDS GatewayBinding

CONSTANTS poll, gui

InstanceOf(r) == IF r < 3 THEN 1 ELSE 2
=============================================================================
