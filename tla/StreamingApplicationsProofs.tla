---------------------- MODULE StreamingApplicationsProofs ----------------------
(***************************************************************************)
(* What holds of the streaming applications however many datagrams are in  *)
(* flight, however far the robot goes and however many calls fail.         *)
(***************************************************************************)
EXTENDS StreamingApplications, SequenceTheorems, TLAPS

Shape ==
  /\ faults \in Int /\ faults <= MaxFaults
  /\ flight \in Seq(Int)
  /\ speed \in Int /\ pose \in Int /\ currentX \in Int /\ data \in Int
  /\ buttons \in {"none", "close", "open"}
  /\ pc \in {"idle", "act", "alert", "send", "detected", "grasp"}
  /\ callback \in {"idle", "twist", "stop"}
  /\ phase \in {"configure", "running", "stopping", "closed", "aborted"}

\* Which step belongs to which application, and what is so before it is
\* configured.
Roles ==
  /\ pc \in {"detected", "grasp"} => app = "haar" /\ ~reading
  /\ pc \in {"act", "alert", "send"} => app \in Devices
  /\ callback # "idle" \/ reading => app = "haar"
  /\ phase = "configure" =>
       pc = "idle" /\ callback = "idle" /\ flight = <<>> /\ speed = 0 /\ ~reading
         /\ actuatorState = "none"
  /\ phase \in {"stopping", "closed"} => ~reading
  /\ app = "haar" => actuatorState = "none"

Base == Shape /\ Roles

Application ==
  \/ Initialize \/ ConfigureHaar
  \/ Acquire \/ Act \/ Alert \/ Send
  \/ OnRead \/ OnReadTwist \/ OnReadStop \/ Detect \/ DetectStop \/ Grasp
  \/ Signal \/ Close

LEMMA NextCases ==
  [Next]_vars => Deliver \/ Overtake \/ Lose \/ Application \/ Interfere \/ LetGo \/ UNCHANGED vars
BY DEF Next, Application

LEMMA Removal ==
  ASSUME NEW s \in Seq(Int), NEW i \in 1 .. Len(s)
  PROVE  SubSeq(s, 1, i - 1) \o SubSeq(s, i + 1, Len(s)) \in Seq(Int)
OBVIOUS

LEMMA Rotation ==
  ASSUME NEW s \in Seq(Int), Len(s) > 1
  PROVE  <<s[Len(s)]>> \o SubSeq(s, 1, Len(s) - 1) \in Seq(Int)
OBVIOUS

\* A command in flight, a datagram more or less.
LEMMA Posted ==
  ASSUME flight \in Seq(Int), NEW v \in Int, Post(v)
  PROVE  flight' \in Seq(Int) /\ flight' # <<>> /\ Len(flight') > 0 /\ flight'[Len(flight')] = v
BY DEF Post

LEMMA StoppedFaults ==
  ASSUME Shape, NEW busy, StopControl(busy)
  PROVE  faults' \in Int /\ faults' <= MaxFaults /\ speed' \in {0, speed}
BY StreamingNumbers DEF StopControl, Shape, Works, Fails

LEMMA BaseInit == Init => Base
<1> SUFFICES ASSUME Init PROVE Base
  OBVIOUS
<1>1. <<>> \in Seq(Int)
  OBVIOUS
<1>2. Shape
  BY <1>1, StreamingNumbers DEF Init, Shape
<1>3. Roles
  BY DEF Init, Roles
<1>4. QED
  BY <1>2, <1>3 DEF Base

LEMMA BaseStep == Base /\ [Next]_vars => Base'
<1> SUFFICES ASSUME Base, [Next]_vars PROVE Base'
  OBVIOUS
<1> USE StreamingNumbers
    DEF Base, Shape, Roles, kinds, members, remote, history, Works, Fails, Devices
<1>1. CASE Deliver
  <2>1. Head(flight) \in Int /\ Tail(flight) \in Seq(Int)
    BY <1>1 DEF Deliver
  <2>2. speed' \in Int /\ pose' \in Int
    BY <1>1, <2>1 DEF Deliver, Execute
  <2>3. phase # "configure"
    BY <1>1 DEF Deliver
  <2>4. QED
    BY <1>1, <2>1, <2>2, <2>3 DEF Deliver
<1>2. CASE Overtake
  BY <1>2, Rotation DEF Overtake
<1>3. CASE Lose
  BY <1>3, Removal DEF Lose, RemoveAt
<1>4. CASE Initialize
  BY <1>4 DEF Initialize
<1>5. CASE ConfigureHaar
  BY <1>5 DEF ConfigureHaar
<1>6. CASE Acquire
  BY <1>6 DEF Acquire
<1>7. CASE Act
  BY <1>7 DEF Act
<1>8. CASE Alert
  BY <1>8, Posted DEF Alert, StopMotion
<1>9. CASE Send
  BY <1>9, Posted DEF Send, StopMotion
<1>10. CASE OnRead
  BY <1>10 DEF OnRead
<1>11. CASE OnReadTwist
  BY <1>11, Posted DEF OnReadTwist
<1>12. CASE OnReadStop
  BY <1>12 DEF OnReadStop, StopControl
<1>13. CASE Detect
  BY <1>13 DEF Detect
<1>14. CASE DetectStop
  BY <1>14, StoppedFaults DEF DetectStop
<1>15. CASE Grasp
  BY <1>15 DEF Grasp
<1>16. CASE Signal
  BY <1>16, StoppedFaults DEF Signal
<1>17. CASE Close
  BY <1>17 DEF Close
<1>18. CASE Interfere \/ LetGo \/ UNCHANGED vars
  BY <1>18 DEF Interfere, LetGo, vars
<1>19. QED
  BY <1>1, <1>2, <1>3, <1>4, <1>5, <1>6, <1>7, <1>8, <1>9, <1>10, <1>11, <1>12, <1>13, <1>14,
     <1>15, <1>16, <1>17, <1>18, NextCases DEF Application

-----------------------------------------------------------------------------
(* The gripper: as long as no call fails, a command in force is the one    *)
(* that the application remembers.                                         *)
Remembered ==
  (app \in Devices /\ faults = MaxFaults /\ gripper \in {"close", "open"})
  => actuatorState = gripper

LEMMA RememberedStep == Base /\ Remembered /\ [Next]_vars => Remembered'
<1> SUFFICES ASSUME Base, Remembered, [Next]_vars PROVE Remembered'
  OBVIOUS
<1> USE StreamingNumbers
    DEF Base, Shape, Roles, Remembered, kinds, members, remote, history, Works, Fails
<1>1. CASE Act
  <2>1. CASE faults' = MaxFaults
    BY <1>1, <2>1 DEF Act, GetActuatorState
  <2>2. CASE faults' # MaxFaults
    BY <2>2
  <2>3. QED
    BY <2>1, <2>2
<1>2. CASE Deliver \/ Overtake \/ Lose \/ Acquire \/ Alert \/ Send \/ OnRead \/ OnReadTwist \/ Detect
           \/ Close \/ Interfere \/ LetGo \/ UNCHANGED vars \/ Initialize
  BY <1>2 DEF Deliver, Overtake, Lose, Acquire, Alert, Send, OnRead, OnReadTwist, Detect,
     Close, Interfere, LetGo, vars, Initialize
<1>3. CASE OnReadStop \/ DetectStop \/ Signal
  BY <1>3 DEF OnReadStop, DetectStop, Signal, StopControl
<1>4. CASE Grasp \/ ConfigureHaar
  BY <1>4 DEF Grasp, ConfigureHaar, Devices
<1>5. QED
  BY <1>1, <1>2, <1>3, <1>4, NextCases DEF Application

(* In any order of buttons, alerts and movements, as long as no call fails: *)
(* a gripper last told to close or to open is one the application knows it  *)
(* has to stop.                                                             *)
THEOREM GripperIsRemembered == Spec => []GripperFollows
<1>1. Init => Base /\ Remembered
  BY BaseInit DEF Init, Remembered
<1>2. (Base /\ Remembered) /\ [Next]_vars => (Base /\ Remembered)'
  BY BaseStep, RememberedStep
<1>3. Remembered => GripperFollows
  BY DEF Remembered, GripperFollows
<1>4. QED
  BY <1>1, <1>2, <1>3, PTL DEF Spec

-----------------------------------------------------------------------------
(* The end: from the moment that the application stops the robot for good  *)
(* nothing of it is under way, unless late says so, and                    *)
(* BasicCartesianControl refuses what is under way.                        *)
Ended == phase \in {"stopping", "closed"} \/ pc = "grasp"

Quiet ==
  (Ended /\ faults = MaxFaults /\ ~late) =>
    speed = 0 /\ flight = <<>> /\ callback = "idle" /\ ~reading /\ pc \in {"idle", "grasp"}

Refusing ==
  robot = "basic" =>
    /\ app = "haar" => ~preset /\ speed = 0
    /\ (phase \in {"stopping", "closed"} /\ faults = MaxFaults) => ~preset /\ speed = 0

AtEnd == Quiet /\ Refusing

\* What stopControl leaves, whether it works or not.
LEMMA Stopped ==
  ASSUME NEW busy, StopControl(busy)
  PROVE  /\ ~late' => ~late /\ ~busy /\ flight = <<>>
         /\ \/ speed' = 0 /\ ~preset' /\ faults' = faults
            \/ UNCHANGED <<speed, preset>> /\ faults > 0 /\ faults' = faults - 1
<1>1. late' = (late \/ busy \/ flight # <<>>)
  BY DEF StopControl
<1>2. ~late' => ~late /\ ~busy /\ flight = <<>>
  BY <1>1
<1>3. QED
  BY <1>2 DEF StopControl, Works, Fails

LEMMA AtEndInit == Init => AtEnd
BY DEF Init, AtEnd, Quiet, Refusing, Ended

LEMMA AtEndStep == Base /\ AtEnd /\ [Next]_vars => AtEnd'
<1> SUFFICES ASSUME Base, AtEnd, [Next]_vars PROVE AtEnd'
  OBVIOUS
<1> USE StreamingNumbers
    DEF Base, Shape, Roles, AtEnd, Quiet, Refusing, Ended, kinds, members, remote, history, Works, Fails,
        Devices
<1>1. CASE Deliver
  <2>1. flight # <<>>
    BY <1>1 DEF Deliver
  <2>2. QED
    BY <1>1, <2>1 DEF Deliver, Execute
<1>2. CASE Overtake
  BY <1>2 DEF Overtake
<1>3. CASE Lose
  <2>1. flight # <<>> /\ UNCHANGED <<kinds, phase, pc, callback, members, remote, faults, late>>
    BY <1>3 DEF Lose
  <2>2. QED
    BY <2>1
<1>4. CASE Initialize
  BY <1>4 DEF Initialize
<1>5. CASE ConfigureHaar
  BY <1>5 DEF ConfigureHaar
<1>6. CASE Acquire
  BY <1>6 DEF Acquire
<1>7. CASE Act
  BY <1>7 DEF Act
<1>8. CASE Alert
  BY <1>8 DEF Alert
<1>9. CASE Send
  BY <1>9 DEF Send
<1>10. CASE OnRead
  BY <1>10 DEF OnRead
<1>11. CASE OnReadTwist
  BY <1>11 DEF OnReadTwist
<1>12. CASE OnReadStop
  <2>1. ~late' => ~late /\ flight = <<>>
    BY <1>12, Stopped DEF OnReadStop
  <2>2. \/ speed' = 0 /\ ~preset' /\ faults' = faults
        \/ UNCHANGED <<speed, preset>> /\ faults > 0 /\ faults' = faults - 1
    BY <1>12, Stopped DEF OnReadStop
  <2>3. QED
    BY <1>12, <2>1, <2>2 DEF OnReadStop
<1>13. CASE Detect
  BY <1>13 DEF Detect
<1>14. CASE DetectStop
  <2>1. ~late' => ~late /\ callback = "idle" /\ flight = <<>>
    BY <1>14, Stopped DEF DetectStop
  <2>2. \/ speed' = 0 /\ ~preset' /\ faults' = faults
        \/ UNCHANGED <<speed, preset>> /\ faults > 0 /\ faults' = faults - 1
    BY <1>14, Stopped DEF DetectStop
  <2>3. QED
    BY <1>14, <2>1, <2>2 DEF DetectStop
<1>15. CASE Grasp
  BY <1>15 DEF Grasp
<1>16. CASE Signal
  <2>1. ~late' => ~late /\ pc = "idle" /\ callback = "idle" /\ flight = <<>>
    BY <1>16, Stopped DEF Signal
  <2>2. \/ speed' = 0 /\ ~preset' /\ faults' = faults
        \/ UNCHANGED <<speed, preset>> /\ faults > 0 /\ faults' = faults - 1
    BY <1>16, Stopped DEF Signal
  <2>3. QED
    BY <1>16, <2>1, <2>2 DEF Signal
<1>17. CASE Close
  BY <1>17 DEF Close
<1>18. CASE Interfere \/ LetGo \/ UNCHANGED vars
  BY <1>18 DEF Interfere, LetGo, vars
<1>19. QED
  BY <1>1, <1>2, <1>3, <1>4, <1>5, <1>6, <1>7, <1>8, <1>9, <1>10, <1>11, <1>12, <1>13, <1>14,
     <1>15, <1>16, <1>17, <1>18, NextCases DEF Application

LEMMA AtEndHolds == Spec => [](Base /\ AtEnd)
<1>1. Init => Base /\ AtEnd
  BY BaseInit, AtEndInit
<1>2. (Base /\ AtEnd) /\ [Next]_vars => (Base /\ AtEnd)'
  BY BaseStep, AtEndStep
<1>3. QED
  BY <1>1, <1>2, PTL DEF Spec

(* Whatever the detection, the signal and the datagrams do, the robot is   *)
(* at rest while it grasps.                                                *)
THEOREM RobotRestsToGrasp == Spec => []GraspAtRest
<1>1. AtEnd => GraspAtRest
  BY DEF AtEnd, Quiet, Ended, GraspAtRest
<1>2. QED
  BY <1>1, AtEndHolds, PTL

(* And when the application has left.                                      *)
THEOREM RobotRestsAtExit == Spec => []ExitAtRest
<1>1. AtEnd => ExitAtRest
  BY DEF AtEnd, Quiet, Refusing, Ended, ExitAtRest
<1>2. QED
  BY <1>1, AtEndHolds, PTL

-----------------------------------------------------------------------------
(* What the application believes.  Until a datagram is lost, the velocity  *)
(* that the robot will have, and the pose that it will go to, are those of *)
(* the last datagram in flight, if there is one.                           *)
Last == flight[Len(flight)]

FinalSpeed == IF flight = <<>> THEN speed ELSE Last
FinalPose  == IF flight = <<>> THEN pose ELSE Last

\* With usingMovi no velocity is ever set; a command to the actuator stops the
\* robot before the iteration ends.
Apart ==
  /\ usingMovi => speed = 0
  /\ (app # "leap" /\ ~usingMovi /\ pc \in {"idle", "alert", "act"} /\ actuatorState # "none")
       => isStopped

Believed ==
  (app # "leap" /\ ~usingMovi /\ ~undelivered /\ faults = MaxFaults /\ ~late /\ isStopped)
  => FinalSpeed = 0

Followed ==
  (phase # "configure" /\ app = "spnav" /\ usingMovi /\ ~undelivered) => FinalPose = currentX

Belief == Apart /\ Believed /\ Followed

LEMMA LastOfTail ==
  ASSUME NEW s \in Seq(Int), s # <<>>
  PROVE  /\ Head(s) \in Int
         /\ Tail(s) = <<>> => s[Len(s)] = Head(s)
         /\ Tail(s) # <<>> => Tail(s)[Len(Tail(s))] = s[Len(s)]
<1>1. Len(s) \in Nat \ {0} /\ Len(Tail(s)) = Len(s) - 1 /\ Tail(s) \in Seq(Int)
  OBVIOUS
<1>2. Head(s) = s[1] /\ s[1] \in Int
  BY <1>1
<1>3. \A i \in 1 .. Len(s) - 1 : Tail(s)[i] = s[i + 1]
  BY <1>1
<1>4. Tail(s) = <<>> <=> Len(s) = 1
  <2>1. Tail(s) = <<>> => Len(Tail(s)) = 0
    BY EmptySeq
  <2>2. Tail(s) # <<>> => Len(Tail(s)) # 0
    BY <1>1, EmptySeq
  <2>3. QED
    BY <1>1, <2>1, <2>2
<1>5. Tail(s) # <<>> => Len(Tail(s)) \in 1 .. Len(s) - 1
  BY <1>1, <1>4
<1>6. QED
  BY <1>1, <1>2, <1>3, <1>4, <1>5

LEMMA BeliefInit == Init => Belief
BY DEF Init, Belief, Apart, Believed, Followed, FinalSpeed

LEMMA BeliefDeliver == ASSUME Base, Belief, Deliver PROVE Belief'
<1> USE DEF Base, Shape, Belief, Apart, Believed, Followed, FinalSpeed, FinalPose, Last, kinds, members
<1>1. /\ flight # <<>> /\ flight' = Tail(flight)
      /\ UNCHANGED <<app, usingMovi, phase, pc, isStopped, actuatorState, currentX, faults, late>>
  BY DEF Deliver
<1>2. ~undelivered' =>
        /\ ~undelivered
        /\ usingMovi => pose' = Head(flight) /\ speed' = speed
        /\ ~usingMovi => speed' = Head(flight) /\ pose' = pose
  BY DEF Deliver, Execute
<1>3. usingMovi => speed' = speed
  BY DEF Deliver, Execute
<1>4. Apart'
  BY <1>1, <1>3
<1>5. /\ flight' = <<>> => flight[Len(flight)] = Head(flight)
      /\ flight' # <<>> => flight'[Len(flight')] = flight[Len(flight)]
  BY <1>1, LastOfTail
<1>6. Believed'
  BY <1>1, <1>2, <1>5
<1>7. Followed'
  BY <1>1, <1>2, <1>5
<1>8. QED
  BY <1>4, <1>6, <1>7

\* A stop: the velocity is zero, or one of the conditions of Believed is gone.
LEMMA BeliefStopped ==
  ASSUME Base, Belief, NEW busy, StopControl(busy),
         UNCHANGED <<app, usingMovi, actuatorState, flight, pose, undelivered, currentX>>,
         pc' = pc \/ pc' = "grasp",
         isStopped => isStopped',
         phase # "configure"
  PROVE  Belief'
<1>1. /\ ~late' => ~late /\ flight = <<>>
      /\ \/ speed' = 0 /\ faults' = faults
         \/ speed' = speed /\ faults' = faults - 1
  BY Stopped
<1>2. Apart'
  BY <1>1 DEF Belief, Apart
<1>3. Believed'
  BY <1>1 DEF Belief, Believed, FinalSpeed, Last, Base, Shape
<1>4. Followed'
  BY <1>1 DEF Belief, Followed, FinalPose, Last
<1>5. QED
  BY <1>2, <1>3, <1>4 DEF Belief

LEMMA BeliefSend == ASSUME Base, Belief, Send PROVE Belief'
<1> USE DEF Base, Shape, Roles, Belief, Apart, Believed, Followed, FinalSpeed, FinalPose, Last, kinds,
            remote, history, Devices
<1>1. /\ pc = "send" /\ pc' = "idle"
      /\ UNCHANGED <<app, usingMovi, phase, speed, pose, actuatorState, undelivered, faults, late>>
  BY DEF Send
<1>2. CASE HasValidMovementData /\ app = "spnav" /\ usingMovi
  <2>1. ~isStopped' /\ currentX' \in Int /\ Post(currentX')
    BY <1>2 DEF Send
  <2>2. flight' # <<>> /\ flight'[Len(flight')] = currentX'
    BY <2>1, Posted
  <2>3. QED
    BY <1>1, <1>2, <2>1, <2>2
<1>3. CASE HasValidMovementData /\ ~(app = "spnav" /\ usingMovi)
  <2>1. ~isStopped' /\ (app # "leap" => actuatorState = "none")
    BY <1>3 DEF Send, HasValidMovementData
  <2>2. QED
    BY <1>1, <1>3, <2>1
<1>4. CASE ~HasValidMovementData
  <2>1. isStopped' /\ currentX' = currentX
    BY <1>4 DEF Send
  <2>2. \/ flight' = flight /\ (isStopped \/ app = "leap" \/ usingMovi)
        \/ Post(0) /\ ~usingMovi
    BY <1>4 DEF Send, StopMotion
  <2>3. CASE flight' = flight /\ (isStopped \/ app = "leap" \/ usingMovi)
    BY <1>1, <2>1, <2>3
  <2>4. CASE Post(0) /\ ~usingMovi
    <3>1. flight' # <<>> /\ flight'[Len(flight')] = 0
      BY <2>4, Posted
    <3>2. QED
      BY <1>1, <2>1, <2>4, <3>1
  <2>5. QED
    BY <2>2, <2>3, <2>4
<1>5. QED
  BY <1>2, <1>3, <1>4

LEMMA BeliefAlert == ASSUME Base, Belief, Alert PROVE Belief'
<1> USE DEF Base, Shape, Roles, Belief, Apart, Believed, Followed, FinalSpeed, FinalPose, Last, kinds,
            remote, history, Devices
<1>1. /\ isStopped'
      /\ UNCHANGED <<app, usingMovi, phase, speed, pose, actuatorState, currentX, undelivered, faults, late>>
  BY DEF Alert
<1>2. CASE app # "leap" /\ ~usingMovi
  <2>1. Post(0)
    BY <1>2 DEF Alert, StopMotion
  <2>2. flight' # <<>> /\ flight'[Len(flight')] = 0
    BY <2>1, Posted
  <2>3. QED
    BY <1>1, <1>2, <2>2
<1>3. CASE ~(app # "leap" /\ ~usingMovi)
  <2>1. flight' = flight
    BY <1>3 DEF Alert, StopMotion
  <2>2. QED
    BY <1>1, <1>3, <2>1
<1>4. QED
  BY <1>2, <1>3

LEMMA BeliefStep == Base /\ Belief /\ [Next]_vars => Belief'
<1> SUFFICES ASSUME Base, Belief, [Next]_vars PROVE Belief'
  OBVIOUS
<1> USE StreamingNumbers
    DEF Base, Shape, Roles, Belief, Apart, Believed, Followed, FinalSpeed, FinalPose, Last, kinds, members,
        remote, history, Devices
<1>1. CASE Overtake
  BY <1>1 DEF Overtake
<1>2. CASE Lose
  <2>1. undelivered' /\ UNCHANGED <<kinds, pc, members, speed>>
    BY <1>2 DEF Lose
  <2>2. QED
    BY <2>1
<1>3. CASE Initialize
  BY <1>3 DEF Initialize
<1>4. CASE ConfigureHaar
  BY <1>4 DEF ConfigureHaar, Works, Fails
<1>5. CASE Acquire
  BY <1>5 DEF Acquire
<1>6. CASE Act
  BY <1>6 DEF Act, Works, Fails
<1>7. CASE OnRead
  BY <1>7 DEF OnRead
<1>8. CASE OnReadTwist
  BY <1>8 DEF OnReadTwist
<1>9. CASE OnReadStop
  <2>1. PICK busy \in {FALSE} : StopControl(busy)
    BY <1>9 DEF OnReadStop
  <2>2. QED
    BY <1>9, <2>1, BeliefStopped DEF OnReadStop
<1>10. CASE Detect
  BY <1>10 DEF Detect
<1>11. CASE DetectStop
  BY <1>11, BeliefStopped DEF DetectStop
<1>12. CASE Grasp
  BY <1>12 DEF Grasp, Works, Fails
<1>13. CASE Signal
  BY <1>13, BeliefStopped DEF Signal
<1>14. CASE Close \/ LetGo \/ UNCHANGED vars
  BY <1>14 DEF Close, LetGo, vars
<1>15. CASE Interfere
  BY <1>15 DEF Interfere
<1>16. QED
  BY <1>1, <1>2, <1>3, <1>4, <1>5, <1>6, <1>7, <1>8, <1>9, <1>10, <1>11, <1>12, <1>13, <1>14, <1>15,
     BeliefDeliver, BeliefAlert, BeliefSend, NextCases DEF Application

LEMMA BeliefHolds == Spec => [](Base /\ Belief)
<1>1. Init => Base /\ Belief
  BY BaseInit, BeliefInit
<1>2. (Base /\ Belief) /\ [Next]_vars => (Base /\ Belief)'
  BY BaseStep, BeliefStep
<1>3. QED
  BY <1>1, <1>2, PTL DEF Spec

(* With any number of datagrams in flight: once all of them have arrived,  *)
(* an application that believes the robot stopped is right.                *)
THEOREM BeliefIsTrue == Spec => []BelievedStopped
<1>1. Base /\ Belief => BelievedStopped
  BY DEF Base, Shape, Belief, Apart, Believed, FinalSpeed, BelievedStopped, Delivered
<1>2. QED
  BY <1>1, BeliefHolds, PTL

(* And targets that accumulate on the last one that was sent are those of   *)
(* the robot.                                                               *)
THEOREM TargetsTrack == Spec => []Tracking
<1>1. Base /\ Belief => Tracking
  BY DEF Base, Shape, Belief, Followed, FinalPose, Tracking, Delivered, Running
<1>2. QED
  BY <1>1, BeliefHolds, PTL
=============================================================================
