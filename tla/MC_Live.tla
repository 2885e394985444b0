------------------------------ MODULE MC_Live ------------------------------
(* One client, under fairness of the threads.                              *)
EXTENDS BasicCartesianControl

CONSTANTS c1, j1

MCClients == {c1}
MCJoints  == {j1}
MCOps     == {"movj", "movl", "wait"}
=============================================================================
