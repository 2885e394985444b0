------------------------------ MODULE MC_Amor ------------------------------
(* Two clients and the command port of the AMOR arm.                        *)
EXTENDS AmorCartesianControl, TLC

CONSTANTS c1, c2

MCClients == {c1, c2}
MCIssues  == (c1 :> Operations) @@ (c2 :> {"movl", "stop", "frame"})
=============================================================================
