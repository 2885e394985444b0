--------------------------- MODULE MC_Sequential ---------------------------
(* One client that commands, waits for, stops and reconfigures movements,   *)
(* the periodic thread, and a robot of two joints: a call that fails may    *)
(* have switched or moved one joint and not the other.                     *)
EXTENDS BasicCartesianControl, TLC

CONSTANTS c1, j1, j2

MCClients == {c1}
MCJoints  == {j1, j2}
MCOps     == {"movj", "movl", "stop", "wait", "waitTimeout", "frame", "close"}
JointSymmetry == Permutations(MCJoints)
=============================================================================
