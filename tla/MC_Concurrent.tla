--------------------------- MODULE MC_Concurrent ---------------------------
(* Two clients whose calls overlap, the periodic thread and the command    *)
(* port.                                                                   *)
EXTENDS BasicCartesianControl, TLC

CONSTANTS c1, c2, j1

MCClients == {c1, c2}
MCJoints  == {j1}
MCOps     == {"movl", "stop", "pose"}
MCSymmetry == Permutations(MCClients)
=============================================================================
