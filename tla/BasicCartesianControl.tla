----------------------- MODULE BasicCartesianControl -----------------------
(***************************************************************************)
(* The Cartesian controller device: the threads that share one            *)
(* BasicCartesianControl object, at the granularity of its device calls    *)
(* and of its accesses to shared members.                                  *)
(*                                                                         *)
(*   - every element of Clients is an RPC connection: the server runs the  *)
(*     calls of distinct connections in distinct threads;                  *)
(*   - Cmc is the periodic thread that executes run();                     *)
(*   - Stream is the callback thread of the command port.                  *)
(*                                                                         *)
(* stateMutex makes single accesses to currentState atomic and protects    *)
(* nothing else, so any two steps of two threads interleave.  The robot    *)
(* (mode, driven, refSpeeds, atTarget) is external and modelled by how the *)
(* controller uses it.                                                     *)
(***************************************************************************)
EXTENDS Naturals

CONSTANTS
  Clients,     \* RPC connections
  Joints,      \* joints of the robot
  Ops,         \* the calls that clients issue, a subset of Operations
  MaxFaults    \* bound on device failures and external mode changes

Movements  == {"movj", "movl", "movv", "gcmp", "forc"}
Presets    == {"twist", "pose", "movi"}
Operations == Movements \union Presets
                \union {"unsupported", "stop", "wait", "waitTimeout", "frame", "close"}

ASSUME ClientsAssumption == "cmc" \notin Clients /\ "stream" \notin Clients
ASSUME OpsAssumption     == Ops \subseteq Operations
ASSUME FaultsAssumption  == MaxFaults \in Nat

Cmc    == "cmc"
Stream == "stream"
Actors == Clients \union {Cmc}

NC == "NOT_CONTROLLING"
ControlModes == {"POSITION", "VELOCITY", "TORQUE", "POSITION_DIRECT"}
Unmanaged    == "IDLE"   \* a mode the controller never commands

\* The control mode that an operation, or the state it enters, works in.
ModeOf(o) ==
  CASE o = "movj"                             -> "POSITION"
    [] o \in {"movl", "movv", "twist", "pose"} -> "VELOCITY"
    [] o \in {"gcmp", "forc"}                 -> "TORQUE"
    [] o = "movi"                             -> "POSITION_DIRECT"
    [] OTHER                                  -> "POSITION"

VARIABLES
  \* members of the controller object
  currentState, streamingCommand, cmcSuccess, trajectories, elapsed,
  vmoStored, referenceFrame,
  \* the robot
  mode, driven, refSpeeds, atTarget,
  \* the threads: control point, operation, result, joints found in another
  \* mode by setControlModes, run()'s snapshot, command being streamed
  pc, op, ret, stale, snap, streamed,
  \* the process died on an invalid read; failures left
  crashed, faults,
  \* history: the last state-changing call, and whether calls ever overlapped
  latest, overlapped

config  == <<vmoStored, referenceFrame>>
motion  == <<trajectories, elapsed>>
control == <<currentState, streamingCommand>>
robot   == <<mode, driven, refSpeeds, atTarget>>
locals  == <<op, ret, snap, streamed>>
history == <<latest, overlapped>>
vars == <<control, cmcSuccess, motion, config, robot, pc, locals, stale,
          crashed, faults, history>>

States    == Movements \union {NC}
Speeds    == {"unset", "user", "isochronous", "mixed"}
StopSteps == {"stopState", "stopRead", "stopWrite", "stopMotion", "stopClear"}
Steps     == {"idle", "getRefSpeeds", "setRefSpeeds", "readModes", "writeModes",
              "positionMove", "clear", "build", "arm", "engage",
              "setFrame", "preset", "enable", "waitCheck", "poll", "waitReturn",
              "join", "closed"} \union StopSteps
CmcSteps  == {"idle", "limits", "checkModes", "motionDone", "finish", "restore",
              "iterate", "velocityMove", "torque", "abort", "closed"}
                \union StopSteps
StreamSteps == {"idle", "command", "modes", "move"}

-----------------------------------------------------------------------------
(* Threads.                                                                *)

At(t, step)   == ~crashed /\ pc[t] = step
Goto(t, step) == pc' = [pc EXCEPT ![t] = step]

Alone(c) == \A d \in Clients \ {c} : pc[d] = "idle"
Idle     == \A c \in Clients : pc[c] = "idle"
Closing  == \E c \in Clients : op[c] = "close"

Return(c, r) ==
  /\ Goto(c, "idle")
  /\ ret' = [ret EXCEPT ![c] = r]
  /\ op'  = [op EXCEPT ![c] = "none"]
  /\ UNCHANGED <<snap, streamed>>

\* A device call fails; one made on behalf of a client marks its call.
Fails(t) ==
  /\ faults > 0
  /\ faults' = faults - 1
  /\ latest' = IF t = latest.by THEN [latest EXCEPT !.failed = TRUE] ELSE latest
  /\ UNCHANGED overlapped
Works == UNCHANGED <<faults, history>>

\* History only: call o of client c begins to change the state.  It is free when
\* no other client is busy and nothing is in control, and clean when the periodic
\* thread is at rest as well.  The latter is more than clients can see to: run()
\* releases the state one step before it restores the reference speeds, and four
\* before it has stopped the robot, and wait returns in between.  The speeds are
\* the ones in force or about to be restored.
Recorded(c, o) ==
  LET free == Alone(c) /\ currentState = NC IN
  /\ latest' = [by     |-> c,
                op     |-> o,
                alone  |-> Alone(c),
                free   |-> free,
                clean  |-> free /\ pc[Cmc] = "idle",
                failed |-> FALSE,
                speeds |-> IF pc[Cmc] = "restore" THEN vmoStored ELSE refSpeeds]
  /\ overlapped' = (overlapped \/ ~Alone(c))

-----------------------------------------------------------------------------
(* The robot, as the controller sees it.                                   *)

Within(m) == {j \in Joints : mode[j] = m}
Others(m) == Joints \ Within(m)

\* Joints that change their control mode stop what they were doing.
SwitchModes(J, m) ==
  /\ mode'   = [j \in Joints |-> IF j \in J THEN m ELSE mode[j]]
  /\ driven' = driven \ {j \in J : mode[j] # m}
  /\ UNCHANGED <<refSpeeds, atTarget>>

\* A set-point moves only the joints that are in the mode it belongs to.  A
\* call on several joints that fails may have reached any of them.
Drive(J, moves) == driven' = IF moves THEN driven \union J ELSE driven \ J
DriveSome(m, moves) == \E J \in SUBSET Within(m) : Drive(J, moves)

SpeedsFail(s) == refSpeeds' \in {refSpeeds, s} \union (IF s = refSpeeds THEN {} ELSE {"mixed"})

Arrive(j) ==
  /\ j \in driven
  /\ mode[j] \in {"POSITION", "POSITION_DIRECT"}
  /\ driven' = driven \ {j}
  /\ atTarget' = (atTarget \/ (mode[j] = "POSITION"
                                 /\ driven \intersect Within("POSITION") = {j}))
  /\ UNCHANGED <<control, cmcSuccess, motion, config, mode, refSpeeds, pc,
                 locals, stale, crashed, faults, history>>

\* Something other than this controller takes a joint over (a fault, another
\* user of the control board).
ModeLost(j) ==
  /\ faults > 0
  /\ faults' = faults - 1
  /\ mode[j] # Unmanaged
  /\ mode'   = [mode EXCEPT ![j] = Unmanaged]
  /\ driven' = driven \ {j}
  /\ UNCHANGED <<control, cmcSuccess, motion, config, refSpeeds, atTarget, pc,
                 locals, stale, crashed, history>>

\* movementTime exceeds the duration of the trajectories.
Elapse ==
  /\ ~elapsed
  /\ elapsed' = TRUE
  /\ UNCHANGED <<control, cmcSuccess, trajectories, config, robot, pc, locals,
                 stale, crashed, faults, history>>

-----------------------------------------------------------------------------
(* Calls that arrive over RPC.  A call that is refused at once because the  *)
(* encoders or the kinematics fail, or because a parameter is set while     *)
(* controlling, changes nothing and is not a step.                          *)

\* Mutant: the streaming command survives a change of state.
SetCurrentStateOnly(s) == currentState' = s /\ UNCHANGED streamingCommand

SetCurrentState(s) ==
  /\ currentState' = s
  /\ streamingCommand' = "NOT_SET"

Call(c, o, step) ==
  /\ At(c, "idle")
  /\ o \in Ops
  /\ ~Closing
  /\ Goto(c, step)
  /\ op' = [op EXCEPT ![c] = o]
  /\ ret' = [ret EXCEPT ![c] = TRUE]
  /\ UNCHANGED <<control, cmcSuccess, motion, config, robot, snap, streamed,
                 stale, crashed, faults>>

CallMovj(c) == Call(c, "movj", "getRefSpeeds") /\ Recorded(c, "movj")

\* movl, movv: on to the construction of new trajectories.
CallTrajectory(c, o) == Call(c, o, "clear") /\ Recorded(c, o)

\* gcmp, forc; force control refuses the TCP frame.
CallTorque(c, o) ==
  /\ o = "forc" => referenceFrame = "BASE"
  /\ Call(c, o, "readModes")
  /\ Recorded(c, o)

CallStop(c) == Call(c, "stop", "stopState") /\ Recorded(c, "stop")

\* Waiting changes nothing, but it no longer has the last call to itself when
\* another client is busy.
CallWait(c, o) ==
  /\ Call(c, o, "waitCheck")
  /\ latest' = IF Alone(c) THEN latest
                          ELSE [latest EXCEPT !.alone = FALSE, !.free = FALSE, !.clean = FALSE]
  /\ overlapped' = (overlapped \/ ~Alone(c))

\* setParameter and setParameters check currentState first, and act later.
CallSetParameter(c, o) ==
  /\ currentState = NC
  /\ Call(c, o, IF o = "frame" THEN "setFrame" ELSE "preset")
  /\ Recorded(c, o)

\* The server closes its ports, then the device.
CallClose(c) ==
  /\ Alone(c)
  /\ pc[Stream] = "idle"
  /\ Call(c, "close", "stopState")
  /\ Recorded(c, "close")

-----------------------------------------------------------------------------
(* Steps of the calls in progress.                                         *)

\* Mutant: the reference speeds are stored after the new ones are set.
GetRefSpeedsLate(c) ==
  /\ At(c, "getRefSpeeds")
  /\ Works /\ vmoStored' = "isochronous" /\ Goto(c, "setRefSpeeds")
  /\ UNCHANGED <<control, cmcSuccess, motion, referenceFrame, robot, locals,
                 stale, crashed>>

GetRefSpeeds(c) ==
  /\ At(c, "getRefSpeeds")
  /\ \/ Works /\ vmoStored' = refSpeeds /\ Goto(c, "setRefSpeeds") /\ UNCHANGED locals
     \/ Fails(c) /\ Return(c, FALSE) /\ UNCHANGED vmoStored
  /\ UNCHANGED <<control, cmcSuccess, motion, referenceFrame, robot, stale, crashed>>

SetRefSpeeds(c) ==
  /\ At(c, "setRefSpeeds")
  /\ \/ Works /\ refSpeeds' = "isochronous" /\ Goto(c, "readModes") /\ UNCHANGED locals
     \/ Fails(c) /\ Return(c, FALSE) /\ SpeedsFail("isochronous")
  /\ UNCHANGED <<control, cmcSuccess, motion, config, mode, driven, atTarget,
                 stale, crashed>>

\* Mutant: the comparison of modes is inverted.
ReadModesInverted(c) ==
  /\ At(c, "readModes")
  /\ Works
  /\ Goto(c, "writeModes")
  /\ stale' = [stale EXCEPT ![c] = Within(ModeOf(op[c]))]
  /\ UNCHANGED <<control, cmcSuccess, motion, config, robot, locals, crashed>>

\* Mutant: the search ends at the first joint in another mode.
ReadModesFirst(c) ==
  /\ At(c, "readModes")
  /\ Works
  /\ Goto(c, "writeModes")
  /\ \E j \in Others(ModeOf(op[c])) : stale' = [stale EXCEPT ![c] = {j}]
  /\ UNCHANGED <<control, cmcSuccess, motion, config, robot, locals, crashed>>

\* setControlModes, first half: which joints are in another mode?
ReadModes(c) ==
  /\ At(c, "readModes")
  /\ \/ Works /\ Goto(c, "writeModes") /\ UNCHANGED locals
        /\ stale' = [stale EXCEPT ![c] = Others(ModeOf(op[c]))]
     \/ Fails(c) /\ Return(c, FALSE) /\ UNCHANGED stale
  /\ UNCHANGED <<control, cmcSuccess, motion, config, robot, crashed>>

AfterModes(o) ==
  CASE o = "movj"             -> "positionMove"
    [] o \in {"movl", "movv"} -> "arm"
    [] o \in {"gcmp", "forc"} -> "engage"
    [] OTHER                  -> "enable"

\* setControlModes, second half: switch those joints, and no others.
WriteModes(c) ==
  /\ At(c, "writeModes")
  /\ stale' = [stale EXCEPT ![c] = {}]
  /\ \/ Works /\ Goto(c, AfterModes(op[c])) /\ UNCHANGED locals
        /\ SwitchModes(stale[c], ModeOf(op[c]))
     \/ stale[c] # {} /\ Fails(c) /\ Return(c, FALSE)
        /\ \E J \in SUBSET stale[c] : SwitchModes(J, ModeOf(op[c]))
  /\ UNCHANGED <<control, cmcSuccess, motion, config, crashed>>

PositionMove(c) ==
  /\ At(c, "positionMove")
  /\ \/ Works /\ Others("POSITION") = {} /\ driven' = driven \union Joints
        /\ Goto(c, "arm") /\ UNCHANGED locals
     \/ /\ Fails(c) \/ (Works /\ Others("POSITION") # {})
        /\ \E J \in SUBSET Within("POSITION") : driven' = driven \union J
        /\ Return(c, FALSE)
  /\ atTarget' = FALSE
  /\ UNCHANGED <<control, cmcSuccess, motion, config, mode, refSpeeds, stale, crashed>>

ClearTrajectories(c) ==
  /\ At(c, "clear")
  /\ trajectories' = "none"
  /\ Goto(c, "build")
  /\ UNCHANGED <<control, cmcSuccess, elapsed, config, robot, locals, stale,
                 crashed, faults, history>>

\* Mutant: the trajectory is created and not kept.
BuildTrajectoriesLost(c) ==
  /\ At(c, "build")
  /\ Goto(c, "readModes")
  /\ UNCHANGED <<control, cmcSuccess, motion, config, robot, locals, stale,
                 crashed, faults, history>>

\* The calls on the trajectories just made cannot fail.  The target of movl and
\* the twist of movv are taken to have six elements for every end of the robot;
\* of shorter vectors, which the server passes on, the code makes fewer
\* trajectories or none.
BuildTrajectories(c) ==
  /\ At(c, "build")
  /\ trajectories' = op[c]
  /\ Goto(c, "readModes")
  /\ UNCHANGED <<control, cmcSuccess, elapsed, config, robot, locals, stale,
                 crashed, faults, history>>

\* movementStartTime (movl, movv) and cmcSuccess, written without the mutex.
Arm(c) ==
  /\ At(c, "arm")
  /\ elapsed' = (elapsed /\ op[c] \notin {"movl", "movv"})
  /\ cmcSuccess' = TRUE
  /\ Goto(c, "engage")
  /\ UNCHANGED <<control, trajectories, config, robot, locals, stale, crashed,
                 faults, history>>

Engage(c) ==
  /\ At(c, "engage")
  /\ SetCurrentState(op[c])
  /\ Return(c, TRUE)
  /\ UNCHANGED <<cmcSuccess, motion, config, robot, stale, crashed, faults, history>>

SetFrame(c) ==
  /\ At(c, "setFrame")
  /\ \E f \in {"BASE", "TCP"} : referenceFrame' = f
  /\ Return(c, TRUE)
  /\ UNCHANGED <<control, cmcSuccess, motion, vmoStored, robot, stale, crashed,
                 faults, history>>

\* Mutant: an unsupported streaming command is not refused.
PresetAnything(c) ==
  /\ At(c, "preset")
  /\ SetCurrentState(NC)
  /\ Goto(c, "readModes")
  /\ UNCHANGED <<cmcSuccess, motion, config, robot, locals, stale, crashed,
                 faults, history>>

\* presetStreamingCommand up to setControlModes; "unsupported" is any vocab
\* that is not a streaming command.
Preset(c) ==
  /\ At(c, "preset")
  /\ SetCurrentState(NC)
  /\ IF op[c] \in Presets
       THEN Goto(c, "readModes") /\ UNCHANGED locals
       ELSE Return(c, FALSE)
  /\ UNCHANGED <<cmcSuccess, motion, config, robot, stale, crashed, faults, history>>

\* setParameter stores the streaming command without the mutex.
Enable(c) ==
  /\ At(c, "enable")
  /\ streamingCommand' = op[c]
  /\ Return(c, TRUE)
  /\ UNCHANGED <<currentState, cmcSuccess, motion, config, robot, stale,
                 crashed, faults, history>>

\* wait: anything but MOVJ and MOVL is not waited for.
WaitCheck(c) ==
  /\ At(c, "waitCheck")
  /\ IF currentState \in {"movj", "movl"}
       THEN Goto(c, "poll") /\ UNCHANGED locals
       ELSE Return(c, TRUE)
  /\ UNCHANGED <<control, cmcSuccess, motion, config, robot, stale, crashed,
                 faults, history>>

Poll(c) ==
  /\ At(c, "poll")
  /\ \/ op[c] = "waitTimeout" /\ Goto(c, "stopState") /\ Recorded(c, "stop")
     \/ currentState = NC /\ Goto(c, "waitReturn") /\ UNCHANGED history
  /\ UNCHANGED <<control, cmcSuccess, motion, config, robot, locals, stale,
                 crashed, faults>>

WaitReturn(c) ==
  /\ At(c, "waitReturn")
  /\ Return(c, cmcSuccess)
  /\ UNCHANGED <<control, cmcSuccess, motion, config, robot, stale, crashed,
                 faults, history>>

\* close() joins the periodic thread.
Join(c) ==
  /\ At(c, "join")
  /\ pc[Cmc] = "idle"
  /\ pc' = [pc EXCEPT ![c] = "closed", ![Cmc] = "closed"]
  /\ UNCHANGED <<control, cmcSuccess, motion, config, robot, locals, stale,
                 crashed, faults, history>>

-----------------------------------------------------------------------------
(* stopControl, called by clients, by wait, by close and by the periodic   *)
(* thread.  It goes on whatever fails.                                     *)

\* Mutant: stopControl does not leave the mode of the movement.
StopStateKeepsModes(t) ==
  /\ At(t, "stopState")
  /\ SetCurrentState(NC)
  /\ Goto(t, "stopMotion")
  /\ UNCHANGED <<cmcSuccess, motion, config, robot, locals, stale, crashed,
                 faults, history>>

StopState(t) ==
  /\ At(t, "stopState")
  /\ SetCurrentState(NC)
  /\ Goto(t, "stopRead")
  /\ UNCHANGED <<cmcSuccess, motion, config, robot, locals, stale, crashed,
                 faults, history>>

\* Mutant: only joints in velocity mode are switched.
StopReadVelocityOnly(t) ==
  /\ At(t, "stopRead")
  /\ Works
  /\ Goto(t, "stopWrite")
  /\ stale' = [stale EXCEPT ![t] = Within("VELOCITY")]
  /\ UNCHANGED <<control, cmcSuccess, motion, config, robot, locals, crashed>>

\* Mutant: the joints are switched only if none is in position mode already.
StopReadAllOrNone(t) ==
  /\ At(t, "stopRead")
  /\ Works
  /\ Goto(t, "stopWrite")
  /\ stale' = [stale EXCEPT ![t] = IF Within("POSITION") = {} THEN Joints ELSE {}]
  /\ UNCHANGED <<control, cmcSuccess, motion, config, robot, locals, crashed>>

StopRead(t) ==
  /\ At(t, "stopRead")
  /\ \/ Works /\ Goto(t, "stopWrite") /\ stale' = [stale EXCEPT ![t] = Others("POSITION")]
     \/ Fails(t) /\ Goto(t, "stopMotion") /\ UNCHANGED stale
  /\ UNCHANGED <<control, cmcSuccess, motion, config, robot, locals, crashed>>

StopWrite(t) ==
  /\ At(t, "stopWrite")
  /\ Goto(t, "stopMotion")
  /\ stale' = [stale EXCEPT ![t] = {}]
  /\ \/ Works /\ SwitchModes(stale[t], "POSITION")
     \/ /\ stale[t] # {}
        /\ Fails(t)
        /\ \E J \in SUBSET stale[t] : SwitchModes(J, "POSITION")
  /\ UNCHANGED <<control, cmcSuccess, motion, config, locals, crashed>>

StopMotion(t) ==
  /\ At(t, "stopMotion")
  /\ Goto(t, "stopClear")
  /\ \/ Works /\ Drive(Within("POSITION"), FALSE)
     \/ Fails(t) /\ DriveSome("POSITION", FALSE)
  /\ UNCHANGED <<control, cmcSuccess, motion, config, mode, refSpeeds, atTarget,
                 locals, stale, crashed>>

StopClear(t) ==
  /\ At(t, "stopClear")
  /\ trajectories' = "none"
  /\ IF t = Cmc
       THEN Goto(t, "idle") /\ snap' = NC /\ UNCHANGED <<op, ret, streamed>>
       ELSE \/ op[t] = "stop" /\ Return(t, TRUE)
            \/ op[t] = "waitTimeout" /\ Goto(t, "waitReturn") /\ UNCHANGED locals
            \/ op[t] = "close" /\ Goto(t, "join") /\ UNCHANGED locals
  /\ UNCHANGED <<control, cmcSuccess, elapsed, config, robot, stale, crashed,
                 faults, history>>

-----------------------------------------------------------------------------
(* run(), one iteration of the periodic thread.                            *)

\* The iteration is over.
EndTick == Goto(Cmc, "idle") /\ snap' = NC /\ UNCHANGED <<op, ret, streamed>>
\* The iteration goes on.
Then(step) == Goto(Cmc, step) /\ UNCHANGED locals

Tick ==
  /\ At(Cmc, "idle")
  /\ currentState # NC
  /\ snap' = currentState
  /\ Goto(Cmc, "limits")
  /\ UNCHANGED <<control, cmcSuccess, motion, config, robot, op, ret, streamed,
                 stale, crashed, faults, history>>

CheckLimits ==
  /\ At(Cmc, "limits")
  /\ \/ Works /\ Then("checkModes")
     \/ Works /\ Then("abort")            \* a joint near or out of its limits
     \/ Fails(Cmc) /\ EndTick             \* getEncoders
  /\ UNCHANGED <<control, cmcSuccess, motion, config, robot, stale, crashed>>

\* Mutant: the failure is not recorded.
AbortSilently ==
  /\ At(Cmc, "abort")
  /\ Then("stopState")
  /\ UNCHANGED <<control, cmcSuccess, motion, config, robot, stale, crashed,
                 faults, history>>

\* The error path of run() and of the handlers of movements that end.
Abort ==
  /\ At(Cmc, "abort")
  /\ cmcSuccess' = FALSE
  /\ Then("stopState")
  /\ UNCHANGED <<control, motion, config, robot, stale, crashed, faults, history>>

Handler(s) ==
  CASE s = "movj"             -> "motionDone"
    [] s \in {"movl", "movv"} -> "iterate"
    [] OTHER                  -> "torque"

\* Mutant: a joint in another mode is only warned about.
CheckModesLax ==
  /\ At(Cmc, "checkModes")
  /\ Works
  /\ IF Others(ModeOf(snap)) = {} THEN Then(Handler(snap)) ELSE EndTick
  /\ UNCHANGED <<control, cmcSuccess, motion, config, robot, stale, crashed>>

\* Gravity compensation and force control stop without recording a failure.
CheckModes ==
  /\ At(Cmc, "checkModes")
  /\ \/ Works /\ Others(ModeOf(snap)) = {} /\ Then(Handler(snap))
     \/ /\ Fails(Cmc) \/ (Works /\ Others(ModeOf(snap)) # {})
        /\ Then(IF snap \in {"gcmp", "forc"} THEN "stopState" ELSE "abort")
  /\ UNCHANGED <<control, cmcSuccess, motion, config, robot, stale, crashed>>

MotionDone ==
  /\ At(Cmc, "motionDone")
  /\ \/ Works /\ driven \intersect Within("POSITION") = {} /\ Then("finish")
     \/ Works /\ driven \intersect Within("POSITION") # {} /\ EndTick
     \/ Fails(Cmc) /\ Then("abort")
  /\ UNCHANGED <<control, cmcSuccess, motion, config, robot, stale, crashed>>

\* Mutant: the end of a movement does not release the state.
FinishKeepsState ==
  /\ At(Cmc, "finish")
  /\ Then("restore")
  /\ UNCHANGED <<control, cmcSuccess, motion, config, robot, stale, crashed,
                 faults, history>>

Finish ==
  /\ At(Cmc, "finish")
  /\ SetCurrentState(NC)
  /\ Then("restore")
  /\ UNCHANGED <<cmcSuccess, motion, config, robot, stale, crashed, faults, history>>

RestoreSpeeds ==
  /\ At(Cmc, "restore")
  /\ EndTick
  /\ \/ Works /\ refSpeeds' = vmoStored
     \/ Fails(Cmc) /\ SpeedsFail(vmoStored)
  /\ UNCHANGED <<control, cmcSuccess, motion, config, mode, driven, atTarget,
                 stale, crashed>>

\* A thread about to change the vector that run() iterates over.
Rewriting == \E c \in Clients : pc[c] \in {"clear", "build", "stopClear"}

\* handleMovl, handleMovv up to velocityMove.  Iterating over no trajectory
\* leaves the control law an empty vector to read from, unless fwdKin fails
\* first; iterating while another thread changes the vector is a data race.
\* Either may end the process.
Iterate ==
  /\ At(Cmc, "iterate")
  /\ \/ (trajectories = "none" \/ Rewriting) /\ crashed' = TRUE /\ UNCHANGED <<pc, locals>>
     \/ trajectories = "none" /\ EndTick /\ UNCHANGED crashed      \* fwdKin
     \/ /\ trajectories # "none"
        /\ IF snap = "movl" /\ elapsed
             THEN Then("stopState")
             ELSE \/ Then("velocityMove")
                  \/ Then("abort")        \* joint velocities out of limits
                  \/ EndTick              \* fwdKin, diffInvKin
        /\ UNCHANGED crashed
  /\ UNCHANGED <<control, cmcSuccess, motion, config, robot, stale, faults, history>>

SendVelocities ==
  /\ At(Cmc, "velocityMove")
  /\ EndTick
  /\ \E moves \in BOOLEAN : \/ Works /\ Drive(Within("VELOCITY"), moves)
                            \/ Fails(Cmc) /\ DriveSome("VELOCITY", moves)
  /\ UNCHANGED <<control, cmcSuccess, motion, config, mode, refSpeeds, atTarget,
                 stale, crashed>>

SendTorques ==
  /\ At(Cmc, "torque")
  /\ EndTick
  /\ \/ Works /\ Drive(Within("TORQUE"), TRUE)
     \/ Works /\ UNCHANGED driven         \* invDyn
     \/ Fails(Cmc) /\ DriveSome("TORQUE", TRUE)
  /\ UNCHANGED <<control, cmcSuccess, motion, config, mode, refSpeeds, atTarget,
                 stale, crashed>>

CmcNext == Tick \/ CheckLimits \/ Abort \/ CheckModes \/ MotionDone \/ Finish
             \/ RestoreSpeeds \/ Iterate \/ SendVelocities \/ SendTorques

-----------------------------------------------------------------------------
(* twist, pose and movi, from the command port.  A command that fails a    *)
(* check is dropped without an answer.                                     *)

Dropped == Goto(Stream, "idle") /\ streamed' = "none" /\ UNCHANGED <<op, ret, snap>>
Passed(step) == Goto(Stream, step) /\ UNCHANGED locals

StreamCall ==
  /\ At(Stream, "idle")
  /\ ~Closing
  /\ currentState = NC
  /\ \E o \in Presets \intersect Ops : streamed' = o
  /\ Goto(Stream, "command")
  /\ UNCHANGED <<control, cmcSuccess, motion, config, robot, op, ret, snap,
                 stale, crashed, faults, history>>

StreamCommand ==
  /\ At(Stream, "command")
  /\ IF streamingCommand = streamed THEN Passed("modes") ELSE Dropped
  /\ UNCHANGED <<control, cmcSuccess, motion, config, robot, stale, crashed,
                 faults, history>>

StreamModes ==
  /\ At(Stream, "modes")
  /\ \/ Works /\ Others(ModeOf(streamed)) = {} /\ Passed("move")
     \/ Works /\ Others(ModeOf(streamed)) # {} /\ Dropped
     \/ Fails(Stream) /\ Dropped
  /\ UNCHANGED <<control, cmcSuccess, motion, config, robot, stale, crashed>>

\* At a limit, twist and pose command zero velocities and movi nothing.
StreamMove ==
  /\ At(Stream, "move")
  /\ Dropped
  /\ \/ \E moves \in BOOLEAN :
          /\ moves \/ streamed # "movi"
          /\ \/ Works /\ Drive(Within(ModeOf(streamed)), moves)
             \/ Fails(Stream) /\ DriveSome(ModeOf(streamed), moves)
     \/ Works /\ UNCHANGED driven
  /\ UNCHANGED <<control, cmcSuccess, motion, config, mode, refSpeeds, atTarget,
                 stale, crashed>>

StreamNext == StreamCall \/ StreamCommand \/ StreamModes \/ StreamMove

-----------------------------------------------------------------------------
Init ==
  /\ currentState = NC
  /\ streamingCommand = "NOT_SET"
  /\ cmcSuccess = TRUE
  /\ trajectories = "none"
  /\ elapsed = TRUE
  /\ vmoStored = "unset"
  /\ referenceFrame \in {"BASE", "TCP"}
  /\ mode \in [Joints -> {"POSITION", Unmanaged}]
  /\ driven = {}
  /\ refSpeeds = "user"
  /\ atTarget = TRUE
  /\ pc = [t \in Actors \union {Stream} |-> "idle"]
  /\ op = [c \in Clients |-> "none"]
  /\ ret = [c \in Clients |-> TRUE]
  /\ stale = [t \in Actors |-> {}]
  /\ snap = NC
  /\ streamed = "none"
  /\ crashed = FALSE
  /\ faults = MaxFaults
  /\ latest = [by |-> "none", op |-> "none", alone |-> FALSE, free |-> FALSE,
               clean |-> FALSE, failed |-> FALSE, speeds |-> "user"]
  /\ overlapped = FALSE

StopNext(t) == StopState(t) \/ StopRead(t) \/ StopWrite(t) \/ StopMotion(t) \/ StopClear(t)

Calls(c) ==
  \/ CallMovj(c)
  \/ \E o \in {"movl", "movv"} : CallTrajectory(c, o)
  \/ \E o \in {"gcmp", "forc"} : CallTorque(c, o)
  \/ CallStop(c)
  \/ \E o \in {"wait", "waitTimeout"} : CallWait(c, o)
  \/ \E o \in Presets \union {"frame", "unsupported"} : CallSetParameter(c, o)
  \/ CallClose(c)

ClientNext(c) ==
  \/ GetRefSpeeds(c) \/ SetRefSpeeds(c) \/ ReadModes(c) \/ WriteModes(c)
  \/ PositionMove(c) \/ ClearTrajectories(c) \/ BuildTrajectories(c)
  \/ Arm(c) \/ Engage(c) \/ SetFrame(c) \/ Preset(c) \/ Enable(c)
  \/ WaitCheck(c) \/ Poll(c) \/ WaitReturn(c) \/ Join(c)

Environment == Elapse \/ \E j \in Joints : Arrive(j) \/ ModeLost(j)

Next ==
  \/ \E c \in Clients : Calls(c) \/ ClientNext(c)
  \/ \E t \in Actors : StopNext(t)
  \/ CmcNext
  \/ StreamNext
  \/ Environment

Spec == Init /\ [][Next]_vars

\* Threads keep running, joints reach their targets, time passes.  Nothing
\* makes a client call, a device fail or a stream go on.  The kinematics do not
\* fail for ever: an iteration over no trajectory gets past fwdKin some time.
Fairness ==
  /\ \A c \in Clients : WF_vars(ClientNext(c))
  /\ \A t \in Actors : WF_vars(StopNext(t))
  /\ WF_vars(CmcNext)
  /\ \A j \in Joints : WF_vars(Arrive(j))
  /\ WF_vars(Elapse)
  /\ SF_vars(Iterate /\ trajectories = "none" /\ crashed')

FairSpec == Spec /\ Fairness

-----------------------------------------------------------------------------
(* Properties.                                                             *)

ControllerType ==
  /\ currentState \in States
  /\ streamingCommand \in Presets \union {"NOT_SET"}
  /\ cmcSuccess \in BOOLEAN
  /\ trajectories \in {"none", "movl", "movv"}
  /\ elapsed \in BOOLEAN
  /\ vmoStored \in Speeds
  /\ referenceFrame \in {"BASE", "TCP"}

RobotType ==
  /\ mode \in [Joints -> ControlModes \union {Unmanaged}]
  /\ driven \in SUBSET Joints
  /\ refSpeeds \in Speeds
  /\ atTarget \in BOOLEAN

ThreadType ==
  /\ pc \in [Actors \union {Stream} -> Steps \union CmcSteps \union StreamSteps]
  /\ \A c \in Clients : pc[c] \in Steps
  /\ pc[Cmc] \in CmcSteps
  /\ pc[Stream] \in StreamSteps
  /\ op \in [Clients -> Operations \union {"none"}]
  /\ ret \in [Clients -> BOOLEAN]
  /\ stale \in [Actors -> SUBSET Joints]
  /\ snap \in States
  /\ streamed \in Presets \union {"none"}
  /\ pc[Stream] # "idle" => streamed \in Presets

HistoryType ==
  /\ crashed \in BOOLEAN
  /\ faults \in 0..MaxFaults
  /\ latest \in [by : Clients \union {"none"}, op : Operations \union {"none"},
                 alone : BOOLEAN, free : BOOLEAN, clean : BOOLEAN,
                 failed : BOOLEAN, speeds : Speeds]
  /\ overlapped \in BOOLEAN

\* Every member of the controller, robot register, thread position and local
\* has a value the code can give it: in particular run() only dispatches on a
\* movement, and only trajectories of movl and movv are stored.
TypeOK == ControllerType /\ RobotType /\ ThreadType /\ HistoryType

\* stopControl halts the robot.  A stop (or the stop inside wait and close)
\* during which no other client was busy and no device call of its own failed
\* leaves the robot at rest with nothing in control until the next call,
\* whatever the periodic thread and the command port were in the middle of.
SafeStop ==
  (latest.op \in {"stop", "close"} /\ latest.alone /\ ~latest.failed /\ ~crashed
     /\ pc[latest.by] \notin StopSteps)
  => /\ currentState = NC
     /\ streamingCommand = "NOT_SET"
     /\ driven = {}
     /\ \A j \in Joints : mode[j] \in {"POSITION", Unmanaged}

\* A command that started clean (see Recorded) engages properly: while its
\* state lasts the joints are in the mode that the handlers demand and the
\* trajectories they iterate over exist.  Commands over a running movement, over
\* an iteration that is not over yet or beside another client are not claimed:
\* there the races do bite.
EngagedProperly ==
  (latest.clean /\ faults = MaxFaults /\ Idle /\ currentState # NC)
  => /\ currentState = latest.op
     /\ Others(ModeOf(currentState)) = {}
     /\ currentState \in {"movl", "movv"} => trajectories = currentState

\* After such a command, and until a call overlaps with another, the periodic
\* thread never iterates over an empty vector nor over one that another thread is
\* changing.  A movement over a running one, a stop of it, or one that starts
\* before the last iteration is over does race.
NoCrash ==
  latest.clean => /\ ~crashed
                  /\ pc[Cmc] = "iterate" => ~Rewriting /\ trajectories # "none"

\* wait tells the truth.  When it has waited for a clean command without a
\* timeout, nothing failed and it answers TRUE, the joints arrived (movj) or
\* the trajectory ran to its end (movl).
WaitTellsTruth ==
  [][\A c \in Clients :
       (pc[c] = "waitReturn" /\ op[c] = "wait" /\ latest.clean
          /\ faults = MaxFaults /\ ret'[c] /\ pc'[c] = "idle")
       => /\ latest.op = "movj" => atTarget
          /\ latest.op = "movl" => elapsed]_vars

\* A movj that started clean and ends without errors gives the robot back the
\* reference speeds it had before (vmoStored).  That the periodic thread was at
\* rest when it started is needed: see SpeedsKept.
SpeedsRestored ==
  (latest.op = "movj" /\ latest.clean /\ faults = MaxFaults /\ Idle
     /\ currentState = NC /\ pc[Cmc] = "idle" /\ cmcSuccess)
  => refSpeeds = latest.speeds

\* As long as calls of two clients never overlapped, a streaming command is
\* only ever preset while nothing is in control: twist, pose and movi cannot
\* be accepted during a movement.
StreamingNeedsIdle ==
  (~overlapped /\ streamingCommand # "NOT_SET") => currentState = NC

Kind(o) ==
  CASE o \in Presets \union {"frame", "unsupported"} -> "set"
    [] o = "waitTimeout"                            -> "wait"
    [] OTHER                                        -> o

\* The promises of the control interface, shared with the AMOR controller, as
\* long as the robot does not fail: stopControl answers TRUE in any case, so
\* that its answer is no sign that all went well.
Contract == INSTANCE CartesianControlContract
  WITH state <- currentState, moving <- driven # {}, frame <- referenceFrame,
       accepting <- streamingCommand # "NOT_SET" \/ pc[Stream] # "idle",
       pending <- [c \in Clients |-> Kind(op[c])], alone <- ~overlapped,
       well <- faults = MaxFaults /\ \A c \in Clients : ret[c]
Implements == Contract!Spec

\* wait comes back: the movement it waits for ends, one way or another.
WaitReturns ==
  \A c \in Clients : pc[c] \in {"waitCheck", "poll", "waitReturn"} ~> (pc[c] = "idle" \/ crashed)

\* Something else in control of a joint does not go unnoticed: the state is
\* not left standing with a joint in another mode.
MismatchNoticed ==
  (currentState # NC /\ Others(ModeOf(currentState)) # {})
     ~> (currentState = NC \/ Others(ModeOf(currentState)) = {} \/ crashed)

\* BasicCartesianControl.hpp on vmoStored: "MOVJ store previous reference
\* speeds".  A movj that a lone client starts with nothing in control and that
\* ends without errors gives the robot back those speeds: SpeedsRestored without
\* the periodic thread at rest, which no client can know of.
SpeedsKept ==
  (latest.op = "movj" /\ latest.free /\ faults = MaxFaults /\ Idle
     /\ currentState = NC /\ pc[Cmc] = "idle" /\ cmcSuccess)
  => refSpeeds = latest.speeds

\* ICartesianControl.h on wait: "false if errors occurred during the execution
\* of the trajectory".
WaitReportsErrors ==
  [][\A c \in Clients :
       (pc[c] \in {"waitCheck", "waitReturn"} /\ pc'[c] = "idle" /\ ret'[c])
       => cmcSuccess]_vars
=============================================================================
