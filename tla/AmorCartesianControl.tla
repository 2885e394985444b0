------------------------ MODULE AmorCartesianControl ------------------------
(***************************************************************************)
(* The controller of the AMOR arm.  The arm executes movements by itself:  *)
(* there is no periodic thread, and nothing but a call changes the state.  *)
(* No member is protected by a mutex, so the RPC threads (Clients) and the *)
(* callback thread of the command port (Stream) interleave at every call   *)
(* to the library of the arm and every access to currentState.             *)
(***************************************************************************)
EXTENDS Naturals

CONSTANTS
  Clients,     \* RPC connections
  Issues,      \* the calls that each of them issues, besides being idle
  MaxFaults    \* bound on calls to the arm that fail

Stream     == "stream"
Actors     == Clients \union {Stream}
NC         == "NOT_CONTROLLING"
Movements  == {"movj", "relj", "movl", "movv"}
Waits      == {"wait", "waitTimeout"}
Operations == Movements \union Waits \union {"stop", "frame"}
Streams    == {"twist", "pose", "movi"}
Frames     == {"BASE", "TCP"}

ASSUME AmorClients == "stream" \notin Clients
ASSUME AmorFaults  == MaxFaults \in Nat
ASSUME AmorIssues  == Issues \in [Clients -> SUBSET Operations]

VARIABLES
  \* members
  currentState, referenceFrame,
  \* the device: "new", "open", "failed" (open left the handle), "closed"
  device,
  \* the arm: at rest, travelling to a target, moving until told otherwise
  arm,
  \* some client has connected to the command port
  accepting,
  \* the threads: control point and call; the answer of the last call
  pc, op, answer,
  \* calls to the arm that may still fail
  faults,
  \* history: the last call had the arm to itself; calls ever overlapped
  alone, overlapped

params  == <<currentState, referenceFrame>>
history == <<alone, overlapped>>
vars == <<params, device, arm, accepting, pc, op, answer, faults, history>>

Steps == {"idle", "stat", "encoders", "command", "engage", "stopState",
          "stopArm", "waitCheck", "poll", "waitEnd", "waitFailed", "setFrame"}

At(a, step)   == pc[a] = step
Goto(a, step) == pc' = [pc EXCEPT ![a] = step] /\ UNCHANGED <<op, answer>>

Works == UNCHANGED faults
Fails == faults > 0 /\ faults' = faults - 1

Return(a, r) ==
  /\ pc' = [pc EXCEPT ![a] = "idle"]
  /\ op' = [op EXCEPT ![a] = "none"]
  /\ answer' = IF a = Stream THEN answer ELSE r

Begin(a, o, step) ==
  /\ device = "open"
  /\ a \in Clients => o \in Issues[a]
  /\ At(a, "idle")
  /\ pc' = [pc EXCEPT ![a] = step]
  /\ op' = [op EXCEPT ![a] = o]
  /\ LET others == \E b \in Actors \ {a} : ~At(b, "idle")
     IN  /\ overlapped' = (overlapped \/ others)
         /\ alone' = IF a = Stream THEN FALSE ELSE ~others /\ ~accepting
  /\ UNCHANGED <<params, device, arm, accepting, answer, faults>>

-----------------------------------------------------------------------------
(* Calls.  gcmp, forc and tool are refused, and so is movv in the TCP frame *)
(* or a parameter set while controlling: none of them is a step.            *)

CallMovj(c) == Begin(c, "movj", "encoders")

CallRelj(c) ==
  Begin(c, "relj", IF referenceFrame = "TCP" THEN "encoders" ELSE "stat")

CallMovl(c) ==
  Begin(c, "movl", IF referenceFrame = "TCP" THEN "encoders" ELSE "command")

CallMovv(c) == referenceFrame = "BASE" /\ Begin(c, "movv", "stat")

CallStop(c) == Begin(c, "stop", "stopState")

CallWait(c) == \E o \in Waits : Begin(c, o, "waitCheck")

CallSetParameter(c) == currentState = NC /\ Begin(c, "frame", "setFrame")

\* The command port: twist, pose, and movi, which falls back to movj.
CallTwist == accepting /\ Begin(Stream, "twist", "encoders")
CallPose  == accepting /\ Begin(Stream, "pose", "encoders")
CallMovi  == accepting /\ Begin(Stream, "movi", "encoders")

-----------------------------------------------------------------------------
(* Steps of the calls in progress.                                         *)

\* stat, on behalf of relj and movv.
Stat(a) ==
  /\ At(a, "stat")
  /\ \/ Works /\ Goto(a, IF op[a] = "relj" THEN "encoders" ELSE "command")
     \/ Fails /\ Return(a, FALSE)
  /\ UNCHANGED <<params, device, arm, accepting, history>>

\* The joint positions, and with them the kinematics, which may fail as well.
Encoders(a) ==
  /\ At(a, "encoders")
  /\ \/ Works /\ Goto(a, "command")
     \/ Works /\ Return(a, FALSE)
     \/ Fails /\ Return(a, FALSE)
  /\ UNCHANGED <<params, device, arm, accepting, history>>

\* Mutant: the state is not set once the arm has been commanded.
CommandOnly(a) ==
  /\ At(a, "command")
  /\ Works
  /\ arm' = "travelling"
  /\ Return(a, TRUE)
  /\ UNCHANGED <<params, device, accepting, history>>

\* Set-points for the arm.  twist and pose set no state, and stop an arm that
\* would be too fast without looking at the result.
Command(a) ==
  /\ At(a, "command")
  /\ \/ /\ Works
        /\ \/ op[a] \in {"movj", "relj", "movl", "movi"} /\ arm' = "travelling"
           \/ op[a] \in {"movv", "twist", "pose"} /\ arm' \in {"rest", "moving"}
        /\ IF op[a] \in {"twist", "pose"} THEN Return(a, TRUE) ELSE Goto(a, "engage")
     \/ Fails /\ Return(a, FALSE) /\ UNCHANGED arm
  /\ UNCHANGED <<params, device, accepting, history>>

StateOf(o) == CASE o \in {"relj", "movi"} -> "movj"
                [] OTHER                  -> o

Engage(a) ==
  /\ At(a, "engage")
  /\ currentState' = StateOf(op[a])
  /\ Return(a, TRUE)
  /\ UNCHANGED <<referenceFrame, device, arm, accepting, faults, history>>

\* stopControl, also from a wait whose timeout expires.
StopState(c) ==
  /\ At(c, "stopState")
  /\ currentState' = NC
  /\ Goto(c, "stopArm")
  /\ UNCHANGED <<referenceFrame, device, arm, accepting, faults, history>>

\* Mutant: a failure of the arm to stop is not reported.
StopArmSilently(c) ==
  /\ At(c, "stopArm")
  /\ \/ Works /\ arm' = "rest"
     \/ Fails /\ UNCHANGED arm
  /\ IF op[c] = "stop" THEN Return(c, TRUE) ELSE Goto(c, "waitEnd")
  /\ UNCHANGED <<params, device, accepting, history>>

StopArm(c) ==
  /\ At(c, "stopArm")
  /\ \/ Works /\ arm' = "rest" /\ IF op[c] = "stop" THEN Return(c, TRUE) ELSE Goto(c, "waitEnd")
     \/ Fails /\ UNCHANGED arm /\ IF op[c] = "stop" THEN Return(c, FALSE) ELSE Goto(c, "waitEnd")
  /\ UNCHANGED <<params, device, accepting, history>>

WaitCheck(c) ==
  /\ At(c, "waitCheck")
  /\ IF currentState \in {"movj", "movl"} THEN Goto(c, "poll") ELSE Return(c, TRUE)
  /\ UNCHANGED <<params, device, arm, accepting, faults, history>>

\* Mutant: the timeout is not looked at.
PollForever(c) ==
  /\ At(c, "poll")
  /\ \/ arm = "rest" /\ Works /\ Goto(c, "waitEnd")
     \/ Fails /\ Goto(c, "waitFailed")
  /\ UNCHANGED <<params, device, arm, accepting, history>>

Poll(c) ==
  /\ At(c, "poll")
  /\ \/ op[c] = "waitTimeout" /\ Works /\ Goto(c, "stopState")
     \/ arm = "rest" /\ Works /\ Goto(c, "waitEnd")
     \/ Fails /\ Goto(c, "waitFailed")
  /\ UNCHANGED <<params, device, arm, accepting, history>>

\* The state is released whatever happened, and whoever set it meanwhile.
WaitEnd(c) ==
  /\ pc[c] \in {"waitEnd", "waitFailed"}
  /\ currentState' = NC
  /\ Return(c, At(c, "waitEnd"))
  /\ UNCHANGED <<referenceFrame, device, arm, accepting, faults, history>>

SetFrame(c) ==
  /\ At(c, "setFrame")
  /\ \E f \in Frames : referenceFrame' = f
  /\ Return(c, TRUE)
  /\ UNCHANGED <<currentState, device, arm, accepting, faults, history>>

-----------------------------------------------------------------------------
(* The device and its surroundings.                                        *)

\* open: a failure to read the joints closes the device, one to load the
\* kinematics or the solver does not.
Open ==
  /\ device = "new"
  /\ device' \in {"open", "closed", "failed"}
  /\ UNCHANGED <<params, arm, accepting, pc, op, answer, faults, history>>

\* close, once the server has released its threads: emergency stop, and the
\* handle is gone.
Close ==
  /\ device \in {"open", "failed"}
  /\ \A a \in Actors : At(a, "idle")
  /\ device' = "closed"
  /\ \/ Works /\ arm' = "rest"
     \/ Fails /\ UNCHANGED arm
  /\ UNCHANGED <<params, accepting, pc, op, answer, history>>

Connect ==
  /\ ~accepting
  /\ accepting' = TRUE
  /\ alone' = FALSE
  /\ UNCHANGED <<params, device, arm, pc, op, answer, faults, overlapped>>

Arrive ==
  /\ arm = "travelling"
  /\ arm' = "rest"
  /\ UNCHANGED <<params, device, accepting, pc, op, answer, faults, history>>

Init ==
  /\ currentState = NC
  /\ referenceFrame \in Frames
  /\ device = "new"
  /\ arm = "rest"
  /\ accepting = FALSE
  /\ pc = [a \in Actors |-> "idle"]
  /\ op = [a \in Actors |-> "none"]
  /\ answer = TRUE
  /\ faults = MaxFaults
  /\ alone = TRUE
  /\ overlapped = FALSE

Call(c) == CallMovj(c) \/ CallRelj(c) \/ CallMovl(c) \/ CallMovv(c) \/ CallStop(c)
             \/ CallWait(c) \/ CallSetParameter(c)

Motion(a) == Stat(a) \/ Encoders(a) \/ Command(a) \/ Engage(a)

Ending(c) == StopState(c) \/ StopArm(c) \/ WaitCheck(c) \/ Poll(c) \/ WaitEnd(c) \/ SetFrame(c)

Next ==
  \/ \E c \in Clients : Call(c) \/ Ending(c)
  \/ \E a \in Actors : Motion(a)
  \/ CallTwist \/ CallPose \/ CallMovi
  \/ Open \/ Close \/ Connect \/ Arrive

Spec == Init /\ [][Next]_vars

\* The thread that serves a call goes on.  Nothing makes the arm arrive.
FairSpec == Spec /\ \A c \in Clients : WF_vars(Motion(c) \/ Ending(c))

-----------------------------------------------------------------------------
TypeOK ==
  /\ currentState \in {NC, "movj", "movl", "movv"}
  /\ referenceFrame \in Frames
  /\ device \in {"new", "open", "failed", "closed"}
  /\ arm \in {"rest", "travelling", "moving"}
  /\ accepting \in BOOLEAN
  /\ pc \in [Actors -> Steps]
  /\ op \in [Actors -> Movements \union Waits \union Streams \union {"none", "stop", "frame"}]
  /\ answer \in BOOLEAN
  /\ faults \in 0..MaxFaults
  /\ alone \in BOOLEAN /\ overlapped \in BOOLEAN

Idle == \A a \in Actors : At(a, "idle")

\* The arm never moves behind the state.  As long as calls never overlapped,
\* nobody streams and nothing failed, an arm that is moving is accounted
\* for in currentState between calls: parameters cannot be set under it.
NoOrphanMotion ==
  (Idle /\ ~overlapped /\ ~accepting /\ faults = MaxFaults /\ currentState = NC)
  => arm = "rest"

\* A wait with a timeout comes back whatever the arm does.
TimeoutReturns == \A c \in Clients : op[c] = "waitTimeout" ~> op[c] = "none"

Kind(o) ==
  CASE o = "relj"        -> "movj"
    [] o = "waitTimeout" -> "wait"
    [] o = "frame"       -> "set"
    [] OTHER             -> o

\* The promises of the control interface, kept by the AMOR arm.
Contract == INSTANCE CartesianControlContract
  WITH state <- currentState, moving <- arm # "rest", frame <- referenceFrame,
       pending <- [c \in Clients |-> Kind(op[c])], well <- answer
Implements == Contract!Spec
=============================================================================
