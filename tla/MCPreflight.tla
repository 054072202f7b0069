---------------------------- MODULE MCPreflight ----------------------------
(* Instances of Preflight for TLC, with one of the three tools.             *)
EXTENDS Preflight

OneTool == <<"ffprobe">>

(* The ports of the other two containers are free.                          *)
PortsInit == PreflightInit /\ machine.busy = {}

FreePorts == PortsInit /\ [][PreflightNext]_preflight_vars
=============================================================================
