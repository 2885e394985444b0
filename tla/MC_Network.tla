----------------------------- MODULE MC_Network -----------------------------
(* Two clients of one server, the second one on the transform port.  In one *)
(* profile they command and stream; in the other profile the first one asks *)
(* for the state, the second one for what leaves the controller alone.      *)
EXTENDS CartesianControlNetwork, TLC

CONSTANTS c1, c2

MCClients    == {c1, c2}
MCTransforms == {c2}
MCProfiles   ==
  { (c1 :> {"stop", "preset", "wait"}) @@ (c2 :> {"move", "twist"}),
    (c1 :> {"stat"}) @@ (c2 :> {"inv", "get"}) }
=============================================================================
