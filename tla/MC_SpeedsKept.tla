--------------------------- MODULE MC_SpeedsKept ---------------------------
(* One client that moves the joints and waits, again and again, and never   *)
(* stops a movement.                                                       *)
EXTENDS BasicCartesianControl

CONSTANTS c1, j1

MCClients == {c1}
MCJoints  == {j1}
MCOps     == {"movj", "wait"}
=============================================================================
