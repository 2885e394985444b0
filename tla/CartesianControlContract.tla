---------------------- MODULE CartesianControlContract ----------------------
(***************************************************************************)
(* What ICartesianControl promises to those who call it, whatever the      *)
(* robot: the part of the interface that its implementations share.        *)
(* BasicCartesianControl and AmorCartesianControl are shown to implement   *)
(* it.                                                                     *)
(***************************************************************************)
CONSTANTS Clients

VARIABLES
  state,      \* the control state that stat reports
  moving,     \* the robot moves
  frame,      \* the reference frame, standing for every parameter
  accepting,  \* a streaming command may be acted upon
  pending,    \* the call of each client
  alone,      \* the last call began with no other going on, and no stream since
  well        \* no failure that the last call knows of

vars == <<state, moving, frame, accepting, pending, alone, well>>

NC        == "NOT_CONTROLLING"
Movements == {"movj", "movl", "movv", "gcmp", "forc"}
Calls     == Movements \union {"stop", "wait", "set", "close"}
Frames    == {"BASE", "TCP"}

Quiet == \A c \in Clients : pending[c] = "none"

Invoke(c) ==
  /\ pending[c] = "none"
  /\ \E o \in Calls : pending' = [pending EXCEPT ![c] = o]
  /\ alone' => ~accepting /\ \A d \in Clients \ {c} : pending[d] = "none"
  /\ {alone', well'} \subseteq BOOLEAN
  /\ UNCHANGED <<state, moving, frame, accepting>>

\* A movement that begins is what the state says.  After a stop nothing is in
\* control and the robot is at rest.  After a wait no movement is left that
\* could be waited for.
Promise(o) ==
  /\ o \in Movements => state' = o
  /\ (o = "stop" /\ alone) => state' = NC /\ ~moving'
  /\ (o = "wait" /\ alone) => state' \notin {"movj", "movl"}

Return(c) ==
  /\ pending[c] # "none"
  /\ pending' = [pending EXCEPT ![c] = "none"]
  /\ well' => Promise(pending[c])
  /\ state' \in {state, NC} \union ({pending[c]} \intersect Movements)
  /\ frame' = frame \/ (pending[c] = "set" /\ frame' \in Frames)
  /\ accepting' => accepting \/ pending[c] = "set"
  /\ {moving', accepting', well'} \subseteq BOOLEAN
  /\ UNCHANGED alone

\* Between calls, a robot at rest with nothing in control stays so, unless
\* somebody streams or the last call did not end well.
Move ==
  /\ moving' => moving \/ state # NC \/ ~Quiet \/ ~well \/ ~alone \/ accepting
  /\ (Quiet /\ well') => well
  /\ {moving', well'} \subseteq BOOLEAN
  /\ UNCHANGED <<state, frame, accepting, pending, alone>>

\* The end of a movement, or a call that gives up control.
Release ==
  /\ state' = NC
  /\ accepting' => accepting
  /\ accepting' \in BOOLEAN
  /\ UNCHANGED <<moving, frame, pending, alone, well>>

\* Streaming commands are let in; one of them takes control.
Accept ==
  /\ accepting' = TRUE
  /\ alone' \in {alone, FALSE}
  /\ UNCHANGED <<state, moving, frame, pending, well>>

Stream ==
  /\ accepting
  /\ state' = "movj"
  /\ UNCHANGED <<moving, frame, accepting, pending, alone, well>>

Init ==
  /\ state = NC
  /\ moving = FALSE
  /\ frame \in Frames
  /\ accepting = FALSE
  /\ pending = [c \in Clients |-> "none"]
  /\ alone = TRUE
  /\ well = TRUE

Next ==
  \/ \E c \in Clients : Invoke(c) \/ Return(c)
  \/ Move \/ Release \/ Accept \/ Stream

\* Parameters do not change under a movement of a client that is on its own.
FrozenWhileMoving == [][frame' # frame => ~alone \/ state = NC]_vars

Spec == Init /\ [][Next]_vars /\ FrozenWhileMoving
=============================================================================
