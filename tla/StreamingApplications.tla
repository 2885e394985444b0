------------------------ MODULE StreamingApplications ------------------------
(***************************************************************************)
(* Applications that stream commands through a CartesianControlClient:     *)
(* streamingDeviceController, with one of its devices, and                 *)
(* haarDetectionController, whose commands come from the callback of the   *)
(* port of a vision program.  What an application knows of the motion is   *)
(* one flag, isStopped, and (SpaceNavigator with movi) the last pose that  *)
(* it has sent; what it sends travels over UDP.                            *)
(*                                                                         *)
(* Of the controller the model keeps what the applications can notice.     *)
(***************************************************************************)
EXTENDS Integers, Sequences

CONSTANTS
  MaxPose,     \* bound on the poses, in displacements of the device
  MaxFlight,   \* bound on the datagrams in flight
  MaxFaults    \* bound on remote calls that fail

ASSUME StreamingNumbers == MaxPose \in Nat /\ MaxFlight \in Nat /\ MaxFaults \in Nat

Devices == {"spnav", "leap", "wiimote"}

VARIABLES
  \* which application; does it send movi; kind of controller
  app, usingMovi, robot,
  \* "configure", "running", "stopping", "closed" or, if not configured, "aborted"
  phase,
  \* control points of updateModule and of the callback
  pc, callback,
  \* members: last data (moves or not), buttons, state of the actuator, isStopped,
  \* last pose sent; the port of the callback is read
  data, buttons, actuatorState, isStopped, currentX, reading,
  \* datagrams in flight, in the order in which they were sent
  flight,
  \* the controller: streaming command preset, another client in control, velocity,
  \* pose and gripper of the robot
  preset, foreign, speed, pose, gripper,
  \* remote calls that may still fail
  faults,
  \* history: a datagram was lost, overtaken or not taken; a command was under way
  \* when the application stopped the robot; another client moved the robot
  undelivered, late, interfered

kinds   == <<app, usingMovi, robot>>
members == <<data, buttons, actuatorState, isStopped, currentX, reading>>
remote  == <<preset, foreign, speed, pose, gripper>>
history == <<undelivered, late, interfered>>
vars == <<kinds, phase, pc, callback, members, flight, remote, faults, history>>

Works == UNCHANGED faults
Fails == faults > 0 /\ faults' = faults - 1

Running == phase \in {"running", "stopping"}

-----------------------------------------------------------------------------
(* Commands.                                                               *)

Post(v) ==
  /\ Len(flight) < MaxFlight
  /\ flight' = Append(flight, v)

\* twist and pose set a velocity that lasts, movi sets a target.  Only
\* BasicCartesianControl asks for a preset.
Execute(v) ==
  IF robot = "basic" => preset /\ ~foreign
    THEN IF usingMovi THEN pose' = v /\ UNCHANGED <<speed, undelivered>>
                      ELSE speed' = v /\ UNCHANGED <<pose, undelivered>>
    ELSE undelivered' = TRUE /\ UNCHANGED <<pose, speed>>

RemoveAt(i) == SubSeq(flight, 1, i - 1) \o SubSeq(flight, i + 1, Len(flight))

Deliver ==
  /\ flight # <<>>
  /\ flight' = Tail(flight)
  /\ Execute(Head(flight))
  /\ UNCHANGED <<kinds, phase, pc, callback, members, preset, foreign, gripper, faults,
                 late, interfered>>

\* The last datagram of all arrives first, or never.
Overtake ==
  /\ Len(flight) > 1
  /\ flight' = <<flight[Len(flight)]>> \o SubSeq(flight, 1, Len(flight) - 1)
  /\ undelivered' = TRUE
  /\ UNCHANGED <<kinds, phase, pc, callback, members, remote, faults, late, interfered>>

Lose ==
  /\ \E i \in 1..Len(flight) : flight' = RemoveAt(i)
  /\ undelivered' = TRUE
  /\ UNCHANGED <<kinds, phase, pc, callback, members, remote, faults, late, interfered>>

\* stopControl; busy tells that another command of the application is under way.
StopControl(busy) ==
  /\ \/ speed' = 0 /\ preset' = FALSE /\ foreign' = FALSE /\ Works
     \/ UNCHANGED <<speed, preset, foreign>> /\ Fails
  /\ late' = (late \/ busy \/ flight # <<>>)

-----------------------------------------------------------------------------
(* configure.                                                              *)

\* Parameters of the device, preset, frame, initial state: whatever fails, the
\* module is closed without having moved.  Nothing can be set while another
\* client is in control.
Initialize ==
  /\ phase = "configure" /\ app \in Devices
  /\ \/ phase' = "running" /\ ~foreign /\ preset' = (robot = "basic")
     \/ phase' = "aborted" /\ preset' \in {preset, robot = "basic" /\ ~foreign}
  /\ currentX' = pose
  /\ isStopped' = TRUE
  /\ UNCHANGED <<kinds, pc, callback, data, buttons, actuatorState, reading, flight,
                 foreign, speed, pose, gripper, faults, history>>

\* haarDetectionController presets no streaming command.
ConfigureHaar ==
  /\ phase = "configure" /\ app = "haar"
  /\ \/ phase' = "running" /\ ~foreign /\ reading' = TRUE /\ gripper' = "open" /\ Works
     \/ phase' = "running" /\ gripper' = "open" /\ Works /\ UNCHANGED reading   \* noMove
     \/ phase' = "aborted" /\ gripper' = "open" /\ Works /\ UNCHANGED reading
     \/ phase' = "aborted" /\ Fails /\ UNCHANGED <<gripper, reading>>
  /\ UNCHANGED <<kinds, pc, callback, data, buttons, actuatorState, isStopped, currentX,
                 flight, preset, foreign, speed, pose, history>>

-----------------------------------------------------------------------------
(* streamingDeviceController: updateModule.                                *)

\* acquireData, and the proximity sensors: on a high alert the iteration ends
\* with a stop.
Acquire ==
  /\ phase = "running" /\ app \in Devices /\ pc = "idle"
  /\ data' \in {0, 1}
  /\ buttons' \in IF app = "wiimote" THEN {"none"} ELSE {"none", "close", "open"}
  /\ pc' \in {"act"} \union (IF isStopped THEN {"idle"} ELSE {"alert"})
  /\ UNCHANGED <<kinds, phase, callback, actuatorState, isStopped, currentX, reading,
                 flight, remote, faults, history>>

\* Mutant: a button that is released ends the command at once.
NoStopCommand ==
  actuatorState' = buttons

\* getActuatorState: a button that is released ends in one stop command.
GetActuatorState ==
  actuatorState' =
    CASE buttons # "none"                   -> buttons
      [] actuatorState \in {"close", "open"} -> "stop"
      [] OTHER                               -> "none"

\* The result of act is not looked at.
Act ==
  /\ pc = "act"
  /\ GetActuatorState
  /\ pc' = "send"
  /\ \/ gripper' = (IF actuatorState' = "none" THEN gripper ELSE actuatorState') /\ Works
     \/ actuatorState' # "none" /\ UNCHANGED gripper /\ Fails
  /\ UNCHANGED <<kinds, phase, callback, data, buttons, isStopped, currentX, reading, flight,
                 preset, foreign, speed, pose, history>>

\* hasValidMovementData, after transformData, which may hand over to the centroid
\* of an object; devices with a pose of their own do not look at the actuator,
\* and a pose of Leap Motion, absolute, is never zero.
HasValidMovementData ==
  CASE app = "spnav" /\ usingMovi -> data # 0
    [] app = "leap"               -> actuatorState = "none"
    [] OTHER                      -> data # 0 /\ actuatorState = "none"

\* stopMotion: twists are set to zero; targets need no stop, and
\* LeapMotionSensorDevice does nothing at all.
StopMotion ==
  IF app # "leap" /\ ~usingMovi THEN Post(0) ELSE UNCHANGED flight

\* Mutant: a stop on alert is left to the robot.
AlertOnly ==
  /\ pc = "alert"
  /\ pc' = "idle"
  /\ isStopped' = TRUE
  /\ UNCHANGED <<kinds, phase, callback, data, buttons, actuatorState, currentX, reading,
                 flight, remote, faults, history>>

Alert ==
  /\ pc = "alert"
  /\ pc' = "idle"
  /\ StopMotion
  /\ isStopped' = TRUE
  /\ UNCHANGED <<kinds, phase, callback, data, buttons, actuatorState, currentX, reading,
                 remote, faults, history>>

\* Mutant: the pose that was sent is not kept.
SendAndForget ==
  /\ pc = "send"
  /\ pc' = "idle"
  /\ IF HasValidMovementData THEN Post(1) /\ isStopped' = FALSE
                             ELSE StopMotion /\ isStopped' = TRUE
  /\ UNCHANGED <<kinds, phase, callback, data, buttons, actuatorState, currentX, reading,
                 remote, faults, history>>

\* sendMovementCommand, or stopMotion once.
Send ==
  /\ pc = "send"
  /\ pc' = "idle"
  /\ IF HasValidMovementData
       THEN /\ isStopped' = FALSE
            /\ IF app = "spnav" /\ usingMovi
                 THEN /\ currentX < MaxPose
                      /\ currentX' = currentX + data
                      /\ Post(currentX')
                 ELSE Post(1) /\ UNCHANGED currentX
       ELSE /\ isStopped' = TRUE
            /\ IF isStopped THEN UNCHANGED flight ELSE StopMotion
            /\ UNCHANGED currentX
  /\ UNCHANGED <<kinds, phase, callback, data, buttons, actuatorState, reading, remote,
                 faults, history>>

-----------------------------------------------------------------------------
(* haarDetectionController.                                                *)

\* onRead: a centroid off the centre moves the robot, one at the centre stops it.
OnRead ==
  /\ phase = "running" /\ app = "haar"
  /\ reading /\ callback = "idle"
  /\ callback' \in {"twist"} \union (IF isStopped THEN {"idle"} ELSE {"stop"})
  /\ UNCHANGED <<kinds, phase, pc, members, flight, remote, faults, history>>

OnReadTwist ==
  /\ callback = "twist"
  /\ callback' = "idle"
  /\ Post(1)
  /\ isStopped' = FALSE
  /\ UNCHANGED <<kinds, phase, pc, data, buttons, actuatorState, currentX, reading, remote,
                 faults, history>>

OnReadStop ==
  /\ callback = "stop"
  /\ callback' = "idle"
  /\ StopControl(FALSE)
  /\ isStopped' = TRUE
  /\ UNCHANGED <<kinds, phase, pc, data, buttons, actuatorState, currentX, reading, flight,
                 pose, gripper, undelivered, interfered>>

\* Mutant: the port is not interrupted.
DetectAndRead ==
  /\ phase = "running" /\ app = "haar" /\ pc = "idle"
  /\ pc' = "detected"
  /\ UNCHANGED <<kinds, phase, callback, members, flight, remote, faults, history>>

\* A target: no more readings (the one in progress goes on), stop, grasp, leave.
Detect ==
  /\ phase = "running" /\ app = "haar" /\ pc = "idle"
  /\ pc' = "detected"
  /\ reading' = FALSE
  /\ UNCHANGED <<kinds, phase, callback, data, buttons, actuatorState, isStopped, currentX,
                 flight, remote, faults, history>>

DetectStop ==
  /\ pc = "detected"
  /\ pc' = "grasp"
  /\ StopControl(callback # "idle")
  /\ UNCHANGED <<kinds, phase, callback, members, flight, pose, gripper, undelivered,
                 interfered>>

Grasp ==
  /\ pc = "grasp"
  /\ \/ gripper' = "close" /\ Works
     \/ UNCHANGED gripper /\ Fails
  /\ \/ UNCHANGED <<pc, phase>>
     \/ pc' = "idle" /\ phase' = "stopping"
  /\ UNCHANGED <<kinds, callback, members, flight, preset, foreign, speed, pose, history>>

-----------------------------------------------------------------------------
(* The end, and the others.                                                *)

\* Mutant: the robot is left as it is.
SignalOnly ==
  /\ phase = "running"
  /\ phase' = "stopping"
  /\ UNCHANGED <<kinds, pc, callback, members, flight, remote, faults, history>>

\* interruptModule, in the middle of whatever updateModule is doing.
Signal ==
  /\ phase = "running"
  /\ phase' = "stopping"
  /\ reading' = FALSE
  /\ StopControl(pc # "idle" \/ callback # "idle")
  /\ UNCHANGED <<kinds, pc, callback, data, buttons, actuatorState, isStopped, currentX,
                 flight, pose, gripper, undelivered, interfered>>

\* close waits for the callback.
Close ==
  /\ phase = "stopping" /\ pc = "idle" /\ callback = "idle"
  /\ phase' = "closed"
  /\ UNCHANGED <<kinds, pc, callback, members, flight, remote, faults, history>>

\* Another client takes control, and lets go.
Interfere ==
  /\ ~foreign
  /\ foreign' = TRUE
  /\ preset' = FALSE /\ speed' = 0
  /\ interfered' = TRUE
  /\ UNCHANGED <<kinds, phase, pc, callback, members, flight, pose, gripper, faults,
                 undelivered, late>>

LetGo ==
  /\ foreign
  /\ foreign' = FALSE
  /\ UNCHANGED <<kinds, phase, pc, callback, members, flight, preset, speed, pose, gripper,
                 faults, history>>

Init ==
  /\ app \in Devices \union {"haar"}
  /\ usingMovi \in IF app = "haar" THEN {FALSE} ELSE BOOLEAN
  /\ robot \in {"basic", "amor"}
  /\ phase = "configure"
  /\ pc = "idle" /\ callback = "idle"
  /\ data = 0 /\ buttons = "none" /\ actuatorState = "none"
  /\ isStopped = TRUE /\ currentX = 0 /\ reading = FALSE
  /\ flight = <<>>
  /\ preset = FALSE /\ foreign = FALSE /\ speed = 0 /\ pose = 0 /\ gripper = "none"
  /\ faults = MaxFaults
  /\ undelivered = FALSE /\ late = FALSE /\ interfered = FALSE

Next ==
  \/ Deliver \/ Overtake \/ Lose
  \/ Initialize \/ ConfigureHaar
  \/ Acquire \/ Act \/ Alert \/ Send
  \/ OnRead \/ OnReadTwist \/ OnReadStop \/ Detect \/ DetectStop \/ Grasp
  \/ Signal \/ Close \/ Interfere \/ LetGo

Spec == Init /\ [][Next]_vars

-----------------------------------------------------------------------------
\* Everything that was sent has arrived.
Delivered == flight = <<>> /\ ~undelivered /\ faults = MaxFaults

\* An application that believes the robot stopped, or that works the gripper, has
\* stopped it: whether data end, the gripper is used or an obstacle is near.
\* (Poses of the Leap Motion sensor are left out: see stopMotion.)
BelievedStopped ==
  /\ Running /\ pc = "idle" /\ callback = "idle"
  /\ Delivered /\ ~late
  /\ isStopped \/ actuatorState # "none"
  /\ app # "leap"
  => speed = 0

\* Between iterations, as long as no call has failed: if the last command given to
\* the gripper was to close or to open, the application remembers that one, so that
\* the next iteration without the button still has something to stop, whatever the
\* alerts did in between.  (It does not say that the iteration comes, and after a
\* call that failed it claims nothing.)
GripperFollows ==
  (app \in Devices /\ pc = "idle" /\ faults = MaxFaults /\ gripper \in {"close", "open"})
  => actuatorState = gripper

\* The pose from which the next target is computed is the one the robot was sent
\* to: targets accumulate on it without ever asking the robot.
Tracking ==
  (app = "spnav" /\ usingMovi /\ Running /\ pc = "idle" /\ Delivered /\ ~interfered)
  => pose = currentX

\* The robot rests while it grasps, if no command was under way.
GraspAtRest == (pc = "grasp" /\ faults = MaxFaults /\ ~late /\ ~interfered) => speed = 0

\* The application leaves the robot at rest; with BasicCartesianControl even if a
\* command was under way.
ExitAtRest ==
  (phase = "closed" /\ faults = MaxFaults /\ (robot = "basic" \/ ~late)) => speed = 0
=============================================================================
