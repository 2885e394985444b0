--------------------------- MODULE MC_Streaming ---------------------------
(* One client that alternates movements without an end with streaming       *)
(* commands, the periodic thread and the command port.                     *)
EXTENDS BasicCartesianControl

CONSTANTS c1, j1

MCClients == {c1}
MCJoints  == {j1}
MCOps     == {"movv", "forc", "twist", "movi", "unsupported", "stop"}
=============================================================================
