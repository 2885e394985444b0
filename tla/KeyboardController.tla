-------------------------- MODULE KeyboardController --------------------------
(***************************************************************************)
(* keyboardController: keys change the velocity of joints or of the tool.  *)
(* Three things run at the same time: updateModule, which handles one key  *)
(* after another; LinearTrajectoryThread, if the application was asked to  *)
(* use MOVI, which sends a point of a trajectory every period; and the     *)
(* controller at the other end, of which the model keeps what the          *)
(* application can notice.  What updateModule still has to do is a         *)
(* sequence of steps, one for every call it makes: a signal stops the      *)
(* application by handling a stop in front of them.                        *)
(***************************************************************************)
EXTENDS Integers, Sequences

CONSTANTS
  MaxSteps,    \* bound on the steps of velocity of the tool
  BackSteps,   \* the same in the negative direction
  MaxFaults    \* bound on remote calls that fail

ASSUME KeyboardNumbers == MaxSteps \in Nat \ {0} /\ BackSteps \in Nat /\ MaxFaults \in Nat

Velocities == -BackSteps..MaxSteps
JointLimit == 1       \* maxVelocityLimits, in steps
Null       == MaxSteps + 1    \* no trajectory yet
Frames     == {"BASE", "TCP"}
NoTarget   == [delta |-> FALSE, frame |-> "none"]

VARIABLES
  \* the module: "configure", "running", "stopping", "closed", or "failed" and
  \* "aborted" if it could not be configured; what it has still to do
  phase, todo,
  \* members: devices that are valid, use of the thread, control mode, velocities
  \* on display, direction of the key (1 once used), frame, an actuator command
  \* in force
  devices, usingThread, controlMode, cartVels, jointVels, dir, cartFrame, grip,
  \* the thread: state of PeriodicThread, usingTcpFrame, deltaX and the
  \* trajectory (by the velocities they are made of), iteration in
  \* progress and whether it is about to send a displacement
  thread, tcp, deltaX, trajectory, run, point,
  \* datagrams on their way to the controller: displacements and poses of movi,
  \* zero twists (of several that are alike the model keeps one)
  wire,
  \* the robot: kind of controller, movement in control, MOVI preset, frame, and
  \* what it executes: velocity of the tool, target of a movi, joint velocity
  robot, control, preset, frame, speed, target, joints,
  \* remote calls that may still fail
  faults,
  \* history: null dereference; an iteration, what it sent or the movement that
  \* follows from it outlasted a stop; a zero twist was lost; a signal arrived in
  \* the middle of a key
  crashed, late, lost, interrupted

module  == <<phase, devices, usingThread>>
members == <<controlMode, cartVels, jointVels, dir, cartFrame, grip>>
points  == <<tcp, deltaX, trajectory>>
ticking == <<run, point, wire>>
remote  == <<control, preset, frame, speed, target, joints>>
history == <<crashed, late, lost, interrupted>>
vars == <<module, todo, members, thread, points, ticking, robot, remote, faults, history>>

Board == "board" \in devices
Cart  == "cart" \in devices
Movis == wire \intersect {"delta", "pose"}

Works == UNCHANGED faults
Fails == faults > 0 /\ faults' = faults - 1

\* The first step to do is s.
Next1(s) == phase # "configure" /\ todo # <<>> /\ Head(todo) = s
Done     == todo' = Tail(todo)

\* Mutant: a stop does not suspend the thread.
StopNotThread ==
  IF Cart THEN <<"actuator", "stopControl", "stopReply", "clear">> ELSE <<"boardStop", "clear">>

\* issueStop
Stop ==
  IF Cart THEN <<"actuator">> \o (IF usingThread = "yes" THEN <<"suspend">> ELSE <<>>)
                 \o <<"stopControl", "stopReply", "clear">>
          ELSE <<"boardStop", "clear">>

-----------------------------------------------------------------------------
(* configure.                                                              *)

\* main closes the module if configure fails.
Abort == phase' = "failed" /\ todo' = <<>>

\* The control board first, as asked for or not.
ConfigureBoard ==
  /\ phase = "configure" /\ devices = {}
  /\ \/ devices' \in {{"board"}, {"asked"}} /\ UNCHANGED <<phase, todo>>
     \/ Abort /\ UNCHANGED devices
  /\ UNCHANGED <<usingThread, members, thread, points, ticking, robot, remote, faults, history>>

\* Mutant: the thread does not start suspended.
StartTicking == thread' = "ticking"

StartSuspended == thread' = "suspended"

\* Then the controller, its frame, and the thread.
ConfigureCartesian ==
  /\ phase = "configure" /\ devices # {}
  /\ \/ /\ devices' = (devices \ {"asked"}) \union {"cart"}
        /\ \/ cartFrame' = frame /\ usingThread' = "no"
              /\ phase' = "running"
              /\ UNCHANGED <<thread, tcp>>
           \/ cartFrame' = frame /\ usingThread' = "yes"
              /\ phase' = "running"
              /\ StartSuspended
              /\ tcp' = (frame = "TCP")
           \/ \* checkStreamingConfig or start fails
              /\ cartFrame' = frame /\ usingThread' = "yes"
              /\ phase' = "failed"
              /\ UNCHANGED <<thread, tcp>>
           \/ \* no frame, before usingThread is assigned
              /\ phase' = "failed"
              /\ UNCHANGED <<usingThread, cartFrame, thread, tcp>>
     \/ /\ devices = {"board"} /\ phase' = "running"   \* skipCC
        /\ UNCHANGED <<devices, usingThread, cartFrame, thread, tcp>>
     \/ /\ phase' = "failed"
        /\ devices' = devices \ {"asked"}
        /\ UNCHANGED <<usingThread, cartFrame, thread, tcp>>
  /\ todo' = IF phase' # "running" THEN <<>>
             ELSE IF "cart" \notin devices' THEN <<"boardStop", "clear">>
             ELSE (IF usingThread' = "yes" THEN <<"suspend">> ELSE <<>>)
                    \o <<"stopControl", "stopReply", "clear">>
  /\ UNCHANGED <<controlMode, cartVels, jointVels, dir, grip, deltaX, trajectory, ticking,
                 robot, remote, faults, history>>

-----------------------------------------------------------------------------
(* updateModule: one key.                                                  *)

Key(steps) ==
  /\ phase = "running" /\ todo = <<>>
  /\ todo' = steps
  /\ UNCHANGED <<controlMode, cartVels, jointVels, cartFrame, grip, devices, usingThread,
                 thread, points, ticking, robot, remote, faults, history>>

\* A joint that the robot does not have stops it.
JointKey ==
  /\ dir' \in {-1, 1}
  /\ \E present \in BOOLEAN :
       Key(IF ~Board THEN Stop
           ELSE (IF controlMode = "cartesian" THEN Stop ELSE <<>>)
                  \o (IF present THEN <<"velocityMode", "velocityMove">> ELSE Stop))
  /\ UNCHANGED phase

\* Mutant: joint velocities go on when the tool is to move.
CartesianKeyOnly ==
  /\ dir' \in {-1, 1}
  /\ Key(IF ~Cart THEN Stop ELSE <<"adjust">>)
  /\ UNCHANGED phase

CartesianKey ==
  /\ dir' \in {-1, 1}
  /\ Key(IF ~Cart THEN Stop
         ELSE (IF controlMode = "joint" THEN Stop ELSE <<>>) \o <<"adjust">>)
  /\ UNCHANGED phase

ToggleKey == Key(Stop \o (IF Cart THEN <<"setFrame">> ELSE <<>>)) /\ UNCHANGED <<dir, phase>>

ToolKey == Key(IF Cart THEN <<"act">> ELSE Stop) /\ UNCHANGED <<dir, phase>>

\* Positions of a device that is not there, Enter and any other key.
StopKey == Key(Stop) /\ UNCHANGED <<dir, phase>>

EscapeKey == Key(Stop) /\ phase' = "stopping" /\ UNCHANGED dir

\* SIGINT: stopModule in the middle of whatever updateModule is doing.
Signal ==
  /\ phase = "running"
  /\ phase' = "stopping"
  /\ interrupted' = (todo # <<>>)
  /\ todo' = Stop \o todo
  /\ UNCHANGED <<devices, usingThread, members, thread, points, ticking, robot, remote,
                 faults, crashed, late, lost>>

-----------------------------------------------------------------------------
(* Steps of issueStop.                                                     *)

StopActuator ==
  /\ Next1("actuator")
  /\ Done
  /\ \/ grip' = FALSE /\ Works
     \/ grip /\ UNCHANGED grip /\ Fails
  /\ UNCHANGED <<module, controlMode, cartVels, jointVels, dir, cartFrame, thread, points,
                 ticking, robot, remote, history>>

\* PeriodicThread::suspend does not wait for the iteration in progress.
Suspend ==
  /\ Next1("suspend")
  /\ Done
  /\ thread' = "suspended"
  /\ UNCHANGED <<module, members, points, ticking, robot, remote, faults, history>>

Halt == control' = "none" /\ preset' = FALSE /\ speed' = 0 /\ target' = NoTarget /\ joints' = 0

\* The result of stopControl is not looked at.
StopControl ==
  /\ Next1("stopControl")
  /\ Done
  /\ \/ Halt /\ Works
     \/ UNCHANGED <<control, preset, speed, target, joints>> /\ Fails
  /\ UNCHANGED <<module, members, thread, points, ticking, robot, frame, history>>

StopReply ==
  /\ Next1("stopReply")
  /\ Done
  /\ late' = (late \/ run # "idle" \/ Movis # {} \/ target # NoTarget)
  /\ UNCHANGED <<module, members, thread, points, ticking, robot, remote, faults, crashed,
                 lost, interrupted>>

BoardStop ==
  /\ Next1("boardStop")
  /\ Done
  /\ \/ joints' = 0 /\ Works
     \/ UNCHANGED joints /\ Fails
  /\ UNCHANGED <<module, members, thread, points, ticking, robot, control, preset, frame,
                 speed, target, history>>

Clear ==
  /\ Next1("clear")
  /\ Done
  /\ cartVels' = 0 /\ jointVels' = 0
  /\ controlMode' = "none"
  /\ UNCHANGED <<module, dir, cartFrame, grip, thread, points, ticking, robot, remote,
                 faults, history>>

-----------------------------------------------------------------------------
(* Steps of the other keys.                                                *)

VelocityMode ==
  /\ Next1("velocityMode")
  /\ \/ Done /\ Works
     \/ todo' = Stop \o Tail(Tail(todo)) /\ Fails
  /\ UNCHANGED <<module, members, thread, points, ticking, robot, remote, history>>

Clamp(v) == IF v > JointLimit THEN JointLimit ELSE IF v < -JointLimit THEN -JointLimit ELSE v

VelocityMove ==
  /\ Next1("velocityMove")
  /\ jointVels' = Clamp(jointVels + dir)
  /\ \/ Done /\ joints' = jointVels' /\ controlMode' = "joint" /\ Works
     \/ todo' = Stop \o Tail(todo) /\ Fails /\ UNCHANGED <<joints, controlMode>>
  /\ dir' = 1
  /\ UNCHANGED <<module, cartVels, cartFrame, grip, thread, points, ticking, robot,
                 control, preset, frame, speed, target, history>>

\* Mutant: with all velocities at zero, the thread goes on.
AdjustNoSuspend ==
  /\ Next1("adjust")
  /\ cartVels + dir \in Velocities
  /\ cartVels' = cartVels + dir
  /\ todo' = (IF usingThread = "yes" THEN <<"preset", "point", "resume">>
              ELSE IF cartVels' = 0 THEN <<"zeroTwist">> ELSE <<"movv">>)
               \o <<"cartesian">> \o Tail(todo)
  /\ dir' = 1
  /\ UNCHANGED <<module, controlMode, jointVels, cartFrame, grip, thread, points,
                 ticking, robot, remote, faults, history>>

\* The new velocity of the tool, and what follows from it.
Adjust ==
  /\ Next1("adjust")
  /\ cartVels + dir \in Velocities
  /\ cartVels' = cartVels + dir
  /\ todo' = (IF cartVels' = 0
                THEN IF usingThread = "yes" THEN <<"suspend">> ELSE <<"zeroTwist">>
                ELSE IF usingThread = "yes" THEN <<"preset", "point", "resume">> ELSE <<"movv">>)
               \o <<"cartesian">> \o Tail(todo)
  /\ dir' = 1
  /\ UNCHANGED <<module, controlMode, jointVels, cartFrame, grip, thread, points,
                 ticking, robot, remote, faults, history>>

CartesianMode ==
  /\ Next1("cartesian")
  /\ Done
  /\ controlMode' = "cartesian"
  /\ UNCHANGED <<module, cartVels, jointVels, dir, cartFrame, grip, thread, points, ticking,
                 robot, remote, faults, history>>

\* Sent as a datagram.
ZeroTwist ==
  /\ Next1("zeroTwist")
  /\ Done
  /\ wire' = wire \union {"zero"}
  /\ UNCHANGED <<module, members, thread, points, run, point, robot, remote, faults, history>>

\* The result of movv is not looked at; AmorCartesianControl refuses it in the
\* frame of the tool.
Movv ==
  /\ Next1("movv")
  /\ Done
  /\ \/ /\ robot = "amor" => frame = "BASE"
        /\ control' = "movv" /\ preset' = FALSE /\ speed' = cartVels /\ target' = NoTarget
        /\ Works
     \/ /\ robot = "amor" /\ frame = "TCP"
        /\ UNCHANGED <<control, preset, speed, target>> /\ Works
     \/ UNCHANGED <<control, preset, speed, target>> /\ Fails
  /\ UNCHANGED <<module, members, thread, points, ticking, robot, frame, joints, history>>

\* LinearTrajectoryThread::configure.  If a call fails, the velocities on display
\* are those that were asked for, and the rest of the key is skipped.
GiveUp == todo' = Tail(Tail(Tail(Tail(todo))))

\* Only a controller that has the parameter is asked to preset MOVI.
Preset ==
  /\ Next1("preset")
  /\ IF robot = "amor" THEN Done /\ Works /\ UNCHANGED preset
     ELSE \/ control = "none" /\ Done /\ preset' = TRUE /\ Works
          \/ control # "none" /\ GiveUp /\ Works /\ UNCHANGED preset
          \/ GiveUp /\ Fails /\ UNCHANGED preset
  /\ UNCHANGED <<module, members, thread, points, ticking, robot, control, frame, speed,
                 target, joints, history>>

ConfigurePoints ==
  /\ Next1("point")
  /\ \/ /\ tcp /\ deltaX' = cartVels
        /\ Done /\ Works /\ UNCHANGED trajectory
     \/ /\ ~tcp /\ trajectory' = cartVels
        /\ Done /\ Works /\ UNCHANGED deltaX
     \/ /\ ~tcp /\ Fails       \* stat
        /\ todo' = Tail(Tail(Tail(todo)))
        /\ UNCHANGED <<deltaX, trajectory>>
  /\ UNCHANGED <<module, members, thread, tcp, ticking, robot, remote, history>>

Resume ==
  /\ Next1("resume")
  /\ Done
  /\ thread' = "ticking"
  /\ UNCHANGED <<module, members, points, ticking, robot, remote, faults, history>>

Other(f) == IF f = "BASE" THEN "TCP" ELSE "BASE"

\* Mutant: the thread is not told of the new frame.
SetFrameOnly ==
  /\ Next1("setFrame")
  /\ Done
  /\ control = "none" /\ Works
  /\ frame' = Other(cartFrame) /\ cartFrame' = frame'
  /\ UNCHANGED <<module, controlMode, cartVels, jointVels, dir, grip, thread, points,
                 ticking, robot, control, preset, speed, target, joints, history>>

\* Controllers refuse parameters while a movement is in control.
SetFrame ==
  /\ Next1("setFrame")
  /\ \/ /\ control = "none" /\ Works
        /\ frame' = Other(cartFrame) /\ cartFrame' = frame'
        /\ todo' = (IF usingThread = "yes" THEN <<"useTcpFrame">> ELSE <<>>) \o Tail(todo)
     \/ control # "none" /\ Works /\ Done /\ UNCHANGED <<frame, cartFrame>>
     \/ Fails /\ Done /\ UNCHANGED <<frame, cartFrame>>
  /\ UNCHANGED <<module, controlMode, cartVels, jointVels, dir, grip, thread, points,
                 ticking, robot, control, preset, speed, target, joints, history>>

UseTcpFrame ==
  /\ Next1("useTcpFrame")
  /\ Done
  /\ tcp' = (cartFrame = "TCP")
  /\ UNCHANGED <<module, members, thread, deltaX, trajectory, ticking, robot, remote,
                 faults, history>>

ActuateTool ==
  /\ Next1("act")
  /\ Done
  /\ \/ grip' = TRUE /\ Works
     \/ UNCHANGED grip /\ Fails
  /\ UNCHANGED <<module, controlMode, cartVels, jointVels, dir, cartFrame, thread, points,
                 ticking, robot, remote, history>>

\* Mutant: the module closes without waiting for the thread.
CloseAtOnce ==
  /\ phase \in {"stopping", "failed"} /\ todo = <<>>
  /\ phase' = (IF phase = "stopping" THEN "closed" ELSE "aborted")
  /\ UNCHANGED <<devices, usingThread, todo, members, thread, points, ticking, robot,
                 remote, faults, history>>

\* close: waits for the iteration in progress and deletes the thread, if the
\* controller was opened; an unassigned usingThread may be anything.
Close ==
  /\ phase \in {"stopping", "failed"} /\ todo = <<>>
  /\ phase' = (IF phase = "stopping" THEN "closed" ELSE "aborted")
  /\ \/ /\ Cart /\ usingThread = "yes" /\ run = "idle"
        /\ thread' = "deleted"
        /\ UNCHANGED crashed
     \/ /\ ~Cart \/ usingThread # "yes"
        /\ UNCHANGED <<thread, crashed>>
     \/ /\ Cart /\ usingThread = "unset"
        /\ crashed' = TRUE
        /\ UNCHANGED thread
  /\ UNCHANGED <<devices, usingThread, todo, members, points, ticking, robot, remote,
                 faults, late, lost, interrupted>>

-----------------------------------------------------------------------------
(* The thread, every period, and the robot.                                *)

RunBegin ==
  /\ thread = "ticking" /\ run = "idle"
  /\ run' = "begun"
  /\ UNCHANGED <<module, todo, members, thread, points, point, wire, robot, remote, faults,
                 history>>

\* A point of the trajectory, or a displacement.
RunRead ==
  /\ run = "begun"
  /\ IF ~tcp /\ trajectory = Null
       THEN crashed' = TRUE /\ run' = "idle" /\ UNCHANGED point
       ELSE run' = "read" /\ point' = tcp /\ UNCHANGED crashed
  /\ UNCHANGED <<module, todo, members, thread, points, wire, robot, remote, faults, late,
                 lost, interrupted>>

\* movi goes out as a datagram: nothing says whether, or when, it arrives.
RunSend ==
  /\ run = "read"
  /\ run' = "idle"
  /\ wire' = wire \union {IF point THEN "delta" ELSE "pose"}
  /\ point' = FALSE
  /\ UNCHANGED <<module, todo, members, thread, points, robot, remote, faults, history>>

\* The controller takes a datagram; another like it may still be on its way.
Arrives(d) == d \in wire /\ wire' \in {wire, wire \ {d}}

\* BasicCartesianControl takes a movi if MOVI is preset and nothing in control,
\* AmorCartesianControl always does.
TakeMovi ==
  /\ \E d \in {"delta", "pose"} :
       /\ Arrives(d)
       /\ IF robot = "amor" \/ (preset /\ control = "none")
            THEN /\ target' = [delta |-> d = "delta", frame |-> frame]
                 /\ control' = IF robot = "amor" THEN "movj" ELSE control
                 /\ speed' = 0
            ELSE UNCHANGED <<target, control, speed>>
  /\ UNCHANGED <<module, todo, members, thread, points, run, point, robot, preset, frame,
                 joints, faults, history>>

\* BasicCartesianControl has no preset for a twist and drops it,
\* AmorCartesianControl executes it.
TakeTwist ==
  /\ Arrives("zero")
  /\ speed' = IF robot = "amor" THEN 0 ELSE speed
  /\ UNCHANGED <<module, todo, members, thread, points, run, point, robot, control, preset,
                 frame, target, joints, faults, history>>

Lose ==
  /\ \E d \in wire : wire' = wire \ {d} /\ lost' = (lost \/ d = "zero")
  /\ UNCHANGED <<module, todo, members, thread, points, run, point, robot, remote, faults,
                 crashed, late, interrupted>>

\* The target of a movi is reached.
Arrive ==
  /\ target # NoTarget
  /\ target' = NoTarget
  /\ UNCHANGED <<module, todo, members, thread, points, ticking, robot, control, preset,
                 frame, speed, joints, faults, history>>

\* The controller gives up by itself.
Abandon ==
  /\ robot = "basic" /\ control = "movv"
  /\ Halt
  /\ UNCHANGED <<module, todo, members, thread, points, ticking, robot, frame, faults, history>>

Init ==
  /\ phase = "configure" /\ todo = <<>>
  /\ devices = {} /\ usingThread = "unset"
  /\ controlMode = "none"
  /\ cartVels = 0 /\ jointVels = 0 /\ dir = 1
  /\ cartFrame = "BASE" /\ grip = FALSE
  /\ thread = "none" /\ tcp = FALSE /\ deltaX = 0 /\ trajectory = Null
  /\ run = "idle" /\ point = FALSE /\ wire = {}
  /\ robot \in {"basic", "amor"}
  /\ control \in {"none", "movv"} /\ speed = (IF control = "movv" THEN 1 ELSE 0)
  /\ preset = FALSE /\ frame \in Frames /\ target = NoTarget /\ joints = 0
  /\ faults = MaxFaults
  /\ crashed = FALSE /\ late = FALSE /\ lost = FALSE /\ interrupted = FALSE

Next ==
  \/ ConfigureBoard \/ ConfigureCartesian \/ Close \/ Signal
  \/ JointKey \/ CartesianKey \/ ToggleKey \/ ToolKey \/ StopKey \/ EscapeKey
  \/ StopActuator \/ Suspend \/ StopControl \/ StopReply \/ BoardStop \/ Clear
  \/ VelocityMode \/ VelocityMove \/ Adjust \/ CartesianMode \/ ZeroTwist \/ Movv
  \/ Preset \/ ConfigurePoints \/ Resume \/ SetFrame \/ UseTcpFrame \/ ActuateTool
  \/ RunBegin \/ RunRead \/ RunSend \/ TakeMovi \/ TakeTwist \/ Lose
  \/ Arrive \/ Abandon

Spec == Init /\ [][Next]_vars

-----------------------------------------------------------------------------
\* No call has failed, and no signal came in the middle of a key.
Undisturbed == faults = MaxFaults /\ ~interrupted

\* The thread never asks for a point before there is a trajectory, nor does
\* close use what configure has not assigned: unless an iteration, or a movi it
\* sent, outlasts the stop in front of a change of frame, or configure ended
\* before the assignment.
NoCrash == crashed => late \/ usingThread = "unset"

\* The robot takes displacements in the frame of the tool and poses in that of
\* the base: unless an iteration or a movi outlasts a stop, no point computed for
\* one frame is executed in the other, however long it was on its way.
FramesAgree ==
  (target # NoTarget /\ ~late) => (target.delta <=> target.frame = "TCP")

\* No movement is left over from a movi, but for one AmorCartesianControl makes
\* because an iteration, or its movi, outlasted a stop.
NoStray == target # NoTarget => robot = "amor" /\ late

\* Once a stop has been handled, the robot rests until the next key: joints and
\* tool have no velocity on either controller, and no movi is executed, even if
\* the thread was about to send it or had sent it, by BasicCartesianControl.
\* AmorCartesianControl may still execute a movi that outlasted a stop.
StoppedIsStill ==
  (phase = "running" /\ todo = <<>> /\ controlMode = "none" /\ Undisturbed)
  => joints = 0 /\ (Cart => speed = 0 /\ NoStray)

\* A stop has the robot cease its movement: the property without the exception.
\* AmorCartesianControl takes a movi whenever it comes, and suspending the
\* thread does not wait for the iteration that is about to send it.
StopCeasesMovement ==
  (phase = "running" /\ todo = <<>> /\ controlMode = "none" /\ Undisturbed)
  => joints = 0 /\ (Cart => speed = 0 /\ target = NoTarget)

\* Between keys, the velocity on display is the one the robot was told, and the
\* thread runs exactly if there is one.  Without the thread, a velocity that is
\* back at zero is left out for BasicCartesianControl, which does not take the
\* final twist, and for AmorCartesianControl while the twist is on its way or if
\* one was lost.
ShownIsCommanded ==
  (todo = <<>> /\ controlMode = "cartesian" /\ phase = "running" /\ Undisturbed) =>
    IF usingThread = "yes"
      THEN /\ thread = "ticking" <=> cartVels # 0
           /\ cartVels # 0 => cartVels = IF tcp THEN deltaX ELSE trajectory
      ELSE \/ cartVels # 0 /\ speed \in {0, cartVels}
           \/ cartVels = 0 /\ (robot = "basic" \/ speed = 0 \/ "zero" \in wire \/ lost)

\* The application never moves joints while the tool has a velocity or follows a
\* movi, on either controller; only a movi that outlasted a stop may still be
\* executed by AmorCartesianControl while joints move.
OneMode == (joints # 0 /\ Cart /\ Undisturbed) => speed = 0 /\ NoStray

\* The application leaves no thread behind and the robot without velocities, and
\* no movi is in execution, but for one on AmorCartesianControl that outlasted a
\* stop.
ExitAtRest ==
  (phase = "closed" /\ Undisturbed) =>
    /\ run = "idle" /\ thread \notin {"ticking", "suspended"}
    /\ joints = 0 /\ (Cart => speed = 0 /\ NoStray)
=============================================================================
