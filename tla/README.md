# Verification of kinematics-dynamics

TLA+ models of the Cartesian control stack of this repository, checked by TLC
on small instances and, where stated, proved with TLAPS for every value of the
constants. Paths below are relative to `src/`.

## 1. The system

Applications command a robot in Cartesian space through one interface,
`ICartesianControl`. Its main implementation runs a control loop on the robot's
control boards with the help of a kinematic solver; a server and a client carry
the interface over the network.

| part | state | operations | talks to |
|------|-------|------------|----------|
| **BasicCartesianControl** (`libraries/YarpPlugins/BasicCartesianControl`) | current state, streaming command, trajectories, stored reference speeds, success flag, configuration; its periodic thread | movj relj movl movv gcmp forc stopControl wait tool act, twist pose movi, set/getParameter(s), `run()` and a handler per movement, open, close | control boards, solver, trajectories |
| **CartesianControlServer** | ports, periodic FK stream | one handler per RPC vocab, stream callback, `run()`, open, close | any `ICartesianControl` |
| **CartesianControlClient** | ports, last FK sample | marshalling of every call, FK callback | server (RPC, UDP) |
| **AmorCartesianControl** | current state, handle of the arm | the same interface, executed by the arm's firmware | AMOR arm |
| **TrajectoryLib** | waypoints, path, profile, trajectory | configure, create, query, destroy | - |
| **KdlSolver, KdlTreeSolver, AsibotSolver** | chain or tree, tool, solver error | forward, inverse and differential kinematics, dynamics | ScrewTheoryLib |
| **ScrewTheoryLib** | screws and points of the search, last chosen configuration | search for a decomposition into subproblems, solve it, choose a solution | - |
| **keyboardController, streamingDeviceController, haarDetectionController** (`programs`) | control mode, current velocities, "is stopped" flag, a trajectory thread | react to keys, device samples and detections | client |
| **KinematicRepresentationLib, KdlVectorConverterLib, YarpTinyMathLib** | none | conversions | - |

**How they interact.** Every RPC connection of the server has a thread of its
own and calls the controller directly; the command port has another
(`useCallback`), and `run()` a third. They share the controller object.
`stateMutex` protects single accesses of `currentState` and nothing else:
`trajectories`, `cmcSuccess`, `vmoStored`, `streamingCommand`, `referenceFrame`
and the robot itself are shared without a lock. Nothing is persisted: there is
no recovery after a crash to model.

**What is hard.** The check of the state and the action that depends on it are
apart in every operation; `run()` works on a snapshot; `stopControl` is run by
three kinds of threads and consists of several device calls each of which may
fail or take effect on some joints only; joints may be taken over by faults or
by other users of the boards; `wait` polls. Over the network, replies may be
missing and streamed commands lost or reordered. `PROJECT.json` lists the
hazards at their lines.

**What makes each part correct.**

* *Controller:* a command engages in the mode its handler demands and with the
  trajectories it iterates over; a stop is a stop whatever was going on; a
  movement always ends and `wait` says how; streaming commands act only with
  nothing in control; parameters do not change under a movement; the reference
  speeds of the user survive a movj.
* *Client and server:* a call has the effect and the answer it has locally, or
  fails; the last streamed command determines the motion; FK samples are not
  older than they claim.
* *AMOR controller:* the same contract as the basic controller.
* *Trajectories:* no query before `create` or after `destroy`, no leak on
  re-creation.
* *Solvers, ScrewTheoryLib:* the tool is the product of what was appended; a
  failure of one query does not affect the next; the search terminates with a
  complete sequence of subproblems or none; a chosen configuration is a valid
  one.
* *Applications:* whoever stops commanding leaves the robot stopped; presets
  precede streaming.

## 2. Modules

| module | models | theorems |
|--------|--------|----------|
| `CartesianControlContract` | what `ICartesianControl` promises a caller, whatever the robot: an abstract specification | |
| `BasicCartesianControl` | the controller object with all threads that enter it, and the robot as it sees it | `BasicCartesianControlProofs` |
| `AmorCartesianControl` | the second implementation of the interface, on an arm with a firmware of its own | `AmorCartesianControlProofs` |
| `CartesianControlNetwork` | `CartesianControlServer` and several `CartesianControlClient`s, composed over RPC and UDP ports | `CartesianControlNetworkProofs` |
| `KeyboardController` | the keyboard application composed with its trajectory thread and a controller | `KeyboardControllerProofs` |
| `StreamingApplications` | `streamingDeviceController` with its three devices and `haarDetectionController`, over the command port | `StreamingApplicationsProofs` |
| `KdlTrajectory` | the lifecycle of the objects of a trajectory | `KinematicsProofs` |
| `ScrewTheory` | screws and products of exponentials, exact at multiples of 90 degrees | `KinematicsProofs` |
| `ScrewTheoryIk` | the search for subproblems and the problem it yields | `ScrewTheoryIkProofs` |
| `KdlSolver` | the solver of serial chains with `ik=st`: configuration, tool, search, solution, choice | `KinematicsProofs`, `ScrewTheoryIkProofs` |
| `AsibotSolver` | the solver of ASIBOT: kinematics, choice of a pose, Jacobians | `AsibotSolverProofs` |
| `MC_*` | instances for TLC; `MC_Kinematics` puts the libraries side by side | |

Both controllers are shown to implement the contract (`Contract == INSTANCE
CartesianControlContract WITH ...`, property `Implements`). The network module
takes a controller for what the contract and `BasicCartesianControl` say of it,
a call being one step; the applications keep of a controller what they can
notice of it.

### BasicCartesianControl

*Threads.* `pc` gives the control point of each client (an RPC connection), of
the periodic thread `Cmc` and of the command port `Stream`. A step is one device
call or one access to a shared member; a run of purely local computation has no
step. Calls that are refused at once because encoders or kinematics fail change
nothing and have no step either.

| code | model |
|------|-------|
| `movj` | `CallMovj`, `GetRefSpeeds`, `SetRefSpeeds`, `ReadModes`, `WriteModes`, `PositionMove`, `Arm`, `Engage` |
| `relj` | computes a target and is `movj` from there on |
| `movl`, `movv` | `CallTrajectory`, `ClearTrajectories`, `BuildTrajectories`, `ReadModes`, `WriteModes`, `Arm`, `Engage` |
| `gcmp`, `forc` | `CallTorque`, `ReadModes`, `WriteModes`, `Engage` |
| `stopControl` | `StopState`, `StopRead`, `StopWrite`, `StopMotion`, `StopClear`, for clients and `Cmc` alike |
| `wait` | `CallWait`, `WaitCheck`, `Poll`, `WaitReturn`, and `stopControl` on a timeout |
| `setParameter(s)` | `CallSetParameter`, then `SetFrame`, or `Preset`, `ReadModes`, `WriteModes`, `Enable` |
| `close` | `CallClose`, `stopControl`, `Join` |
| `run` and handlers | `Tick`, `CheckLimits`, `CheckModes`, then `MotionDone`, `Finish`, `RestoreSpeeds`, or `Iterate`, `SendVelocities`, or `SendTorques`; `Abort` and `stopControl` on errors |
| `twist`, `pose`, `movi` | `StreamCall`, `StreamCommand`, `StreamModes`, `StreamMove` |

`setControlModes` is two device calls, so it is two steps: `ReadModes` finds the
joints in another mode (`stale`), `WriteModes` switches those and no others,
even if a third thread has switched more joints in between.

*Data.* `trajectories` is empty ("none") or remembers which movement built it;
`elapsed` says whether the time of the trajectory has run out. A number of
parameters behave as `referenceFrame` does (checked, then stored), which stands
for them. Reference speeds are the user's, the isochronous ones of a movj, some of
each after a call that failed, or unset. Vectors have the length the interface
asks for: `RpcResponder` passes on shorter ones, with which movl and movv would
build fewer trajectories than they read; no model has these. Whether limits are exceeded, the kinematics fail or a commanded velocity
is zero is nondeterministic.

*Undefined behaviour.* The handlers of movl and movv read the vector of
trajectories while other threads may clear it. If it was already empty when the
handler started its loop, `desiredX` and `desiredXdot` stay empty too, and the
control law reads `desiredXdot[i]` through the null pointer of an empty vector
(`crashed`), unless `fwdKin` fails first. If it is cleared during the loop, the
iteration runs over freed elements and the process may crash or carry on.

*The robot* (external). A joint is in one control mode or is `IDLE`, taken over
by a fault or another user. It is `driven` while it follows a set-point; a
change of mode stops it; set-points only affect joints in their mode; joints
driven in position arrive.

*Faults.* Every device call may fail; when a call on several joints fails, it
may have had its effect on any subset (`DriveSome`, `SpeedsFail`, and the
failing branches of `WriteModes` and `StopWrite`). Failures and lost modes together are
bounded by `MaxFaults`.

*History.* `latest` describes the last call that changes anything: whose it was,
whether another client was busy (`alone`), whether in addition nothing was in
control when it began (`free`), whether in addition the periodic thread was at
rest (`clean`), whether a device call made for it failed (`failed`), the
reference speeds it found or that are about to be restored. `clean` is more than
a client can know: `run()` releases the state before it restores the speeds or
has stopped the robot, and wait returns in between. What this means for a
client is shown by the run `speeds_kept`. `overlapped` says whether calls of
two clients ever did.

### CartesianControlContract

A call is invoked and returns; between the two the implementation may take any
number of steps. `Promise` says what a successful call leaves: a movement is in
control, nothing is in control and the robot is at rest after a stop, no movement
is left that could be waited for after a wait. `Move` says that a robot at rest
with nothing in control stays at rest, `FrozenWhileMoving` that parameters do not
change under a movement. The promises are conditional on what the interface
leaves open: that the caller was alone (`alone`), that nothing failed (`well`),
that nobody streams (`accepting`). The refinement mappings are at the end of
`BasicCartesianControl` and `AmorCartesianControl`.

### AmorCartesianControl

No periodic thread and no mutex: every call to the library of the arm and every
access to `currentState` is a step, of a client or of the callback thread of the
command port. `movj`, `relj`, `movl`, `movv` go through `Stat`, `Encoders`,
`Command`, `Engage`; `stopControl` is `StopState` and `StopArm`; `wait` is
`WaitCheck`, `Poll` (or `PollForever`), `StopArmSilently` on a timeout and
`WaitEnd`; `setParameter` is `SetFrame`; `Open` and `Close` are the driver's. The
arm (external) arrives when it likes.

### CartesianControlNetwork

An RPC call is a request, its execution by the server thread of the connection,
and a reply; a connection may break at any of these points (`Break`) and the
client then gets an empty reply. Handlers are grouped as `RpcResponder` groups
them, with one member each: runnables, consumers, functions, setters, getters,
and `wait` and `stat`. The controller may refuse any of them, a setter also
when it is idle (`RpcResponder.cpp:369`). Twists travel over UDP: they are lost or overtaken; the
server keeps the last one in `inbox`, and `Callback` and `HandleTwist` are the
callback thread. `Publish` is `run()` of the server; `AskStat` answers from the
last sample or by RPC. `Close` takes the ports down in the order of the code, so
that calls in progress interleave with it. `Transforms` are the clients of the
transform port.

### KeyboardController

`todo` is the sequence of calls `updateModule` still has to make, one step each;
a signal (`Signal`) puts a stop in front of them. `RunBegin`, `RunRead` and
`RunSend` are an iteration of `LinearTrajectoryThread`, which interleaves with
the keys; `suspend()` does not wait for it. What the application streams travels
as datagrams (`wire`): movis of the thread and the zero twist that ends a movv.
They are taken at any later moment (`TakeMovi`, `TakeTwist`), in any order, more
than once if several alike were sent, or lost (`Lose`, which also stands for a
controller that refuses one). `late` records that an iteration, a movi it sent or
the movement that follows outlasted a stop, `lost` that a zero twist was lost,
`interrupted` that a signal came in the middle of a key. Velocities run from
`-BackSteps` to `MaxSteps`; the model only compares them with zero and with each
other, so the two directions are alike. The module runs against either controller (`robot`), with and without the thread,
with and without the devices that `configure` may fail to open.

### StreamingApplications

A cycle of `updateModule` is `Acquire`, `Act` (the gripper), `Alert` (an obstacle
is near) and `Send`; the detection controller has `OnRead`, `OnReadTwist`,
`OnReadStop` in the callback of the vision port and `Detect`, `DetectStop`,
`Grasp` in its module. Datagrams are delivered, lost, or overtaken (`Deliver`,
`Lose`, `Overtake`); another client may move or stop the robot (`Interfere`,
`LetGo`). The devices differ in what is valid data, what stops the motion and
whether a pose is tracked.

### Kinematics

Joint positions are multiples of 90 degrees and lengths integers, so that every
transform is a matrix of integers and composition is exact; what holds for all
real positions is checked where both sides of an equation are exact.

`ScrewTheoryIk` follows the builder step by step: the points chosen
(`searchPoints`; the point it adds on each axis at random is any of `Draws`), the
terms simplified, the subproblem recognised for the one,
two or three terms left, and what becomes known. Which numbers a subproblem
yields is abstracted to how many there are. `KdlSolver` opens from a
configuration, appends and restores the tool, builds the problem for the chain in
force (and for the reversed chain when that fails), solves it term by term and
chooses a configuration, remembering the one chosen first. `Open` refuses a
configuration with a missing link, without joint limits or with an unknown
strategy. `SelectorCrash` is the process that ends because the strategy has no
selector for the robot, or because the configuration chosen first is read past
the solutions there are (which may also return joints of an earlier target:
`Select`). `AsibotSolver` has all
operations of that solver, with the four poses, their limits and the choice by
the least displacement. `KdlTrajectory` has every call that allocates or frees.

## 3. What is checked

The state graphs of all runs are exhausted. `CHECK_DEADLOCK FALSE` stands in all
configurations but `kinematics`: a closed controller, server or application
really stops.

| run | instance | properties |
|-----|----------|------------|
| `sequential` | 1 client, 2 interchangeable joints: movj movl stop wait (with and without timeout) set-frame close; 1 fault | `SafeStop`, `SpeedsRestored`, `EngagedProperly`, `WaitTellsTruth`, `Implements` |
| `streaming` | 1 client, 1 joint: movv forc stop, presets of twist, movi and an unsupported command, and the command port; 1 fault | `TypeOK`, `SafeStop`, `EngagedProperly`, `StreamingNeedsIdle` |
| `concurrent` | 2 interchangeable clients, 1 joint: movl stop, preset of pose; no faults | `SafeStop`, `EngagedProperly`, `NoCrash` |
| `live` | 1 client, 1 joint: movj movl wait; 1 fault; fair threads | `WaitReturns`, `MismatchNoticed` |
| `amor` | 2 clients, one issuing every operation, the other movl, stop and set-frame, and the command port; 1 fault; fair calls | `NoOrphanMotion`, `Implements`, `TimeoutReturns` |
| `network` | 2 clients, one on the transform port, in two profiles; 1 datagram of each kind in flight; timeout and delay of 1, clock up to 3 | `FreshAnswers`, `Honest`, `StopIsFinal`, `ClosedMeansRest` |
| `keyboard` | every key, either controller, with and without the thread; velocities of 1 step forward, 1 fault, a signal at any moment | `NoCrash`, `FramesAgree`, `StoppedIsStill`, `ShownIsCommanded`, `OneMode`, `ExitAtRest` |
| `streaming_device` | 3 devices, both sending modes, the detection controller, either controller; 2 datagrams in flight, poses up to 3 displacements, 1 fault | `BelievedStopped`, `GripperFollows`, `Tracking`, `GraspAtRest`, `ExitAtRest` |
| `kinematics` | the robots of `tests/testScrewTheory.cpp` and eight small ones, 3 draws of the random points, 1 tool at a time; ASIBOT at 4 guesses, 3 sets of limits, 2 tools; 3 waypoints | `EquationsHold`, `AnswersFollowTool`, `RepresentationsAgree`, `HandReachesTarget`, `JacobianIsVelocity`, `OwnedOnce` |
| `wait_reports_errors` | as `sequential` | `WaitReportsErrors` is violated |
| `speeds_kept` | 1 client, 1 joint: movj wait; no faults | `SpeedsKept` is violated |
| `keyboard_stop` | as `keyboard`, without faults | `StopCeasesMovement` is violated |

*Basic controller*

* `SafeStop`: after a stop (or the stop inside wait or close) with no other
  client busy and no failed call of its own, nothing is in control, no joint is
  driven or left in a mode it could be driven in, whatever the periodic thread
  and the command port still do.
* `EngagedProperly`: a command issued by one client with nothing in control and
  the periodic thread at rest finds, while it lasts, its joints in its mode and
  its trajectories in place.
* `NoCrash`: after such a command the periodic thread never meets an empty
  vector of trajectories nor one that is being changed.
* `WaitTellsTruth`: when wait answers true for such a movement, and no device
  failed, the movement really ran to its end.
* `SpeedsRestored`: such a movj that ends without errors restores the reference
  speeds. `SpeedsKept`, the same without asking for the periodic thread to be at
  rest, is violated: movj, wait and movj of one client lose the speeds of the
  user, because wait returns before they are restored.
* `StreamingNeedsIdle`: without overlapping calls, streaming commands are preset
  only with nothing in control, although check and action are separate steps.
* `Implements`: every behaviour is one of the contract, by which parameters do not
  change under a movement either. The run has no presets:
  the contract promises nothing to a client that stops next to somebody who
  streams, and the basic controller keeps no more.
* `WaitReturns`, `MismatchNoticed`: wait comes back; a joint in another mode
  ends the movement.

*AMOR controller*

* `NoOrphanMotion`: with no call in progress, no stream, no overlap and no
  failure before, an arm that moves is one whose movement is in `currentState`.
* `Implements`: every behaviour is one of the contract, presets, overlaps and
  failures included.
* `TimeoutReturns`: a wait with a timeout comes back even if the arm never
  arrives and its polls fail.

*Network*

* `FreshAnswers`: `stat` answers with a pose that was current during the call or
  at most the timeout and the way of a datagram before it.
* `Honest`: while the connection holds, true means that the controller took the
  call and false that it refused it.
* `StopIsFinal`: twists sent, in flight, in the inbox or with the callback when
  a stop is served do not move the robot.
* `ClosedMeansRest`: when `close` returns, no thread of the server is left in the
  controller, and the controller has stopped.

*Applications*

* `KeyboardController.NoCrash`: no point is asked of a trajectory that does not
  exist. `FramesAgree`: displacements go to the frame of the tool and poses to
  that of the base, although the thread and the key that toggles the frame share
  it without the mutex, also when calls fail or a signal cuts the key short;
  only what outlasts a stop (`late`) is excepted.
* `StoppedIsStill`, `OneMode`, `ExitAtRest`: after the stop key, while joints move,
  and once the program has closed (its thread gone), the tool has no velocity on
  either controller and no movi is executed. One exception is part of the formula
  (`NoStray`): the AMOR controller, which takes every movi, may execute one whose
  iteration or datagram outlasted a stop. That this happens is what
  `StopCeasesMovement` is violated by.
* `ShownIsCommanded`: the velocities on display are those the robot was given; a
  velocity back at zero is not claimed of the basic controller, which refuses the
  twist, nor of the AMOR controller while the twist is on its way or if it was
  lost.
* `BelievedStopped`: when the application holds the robot for stopped (and will
  not stop it again), it is. `GripperFollows`: the last command the gripper was given
  is the one the application remembers, also when alerts skip the iteration in
  which a button was released, as long as no call has failed; that the stop is
  eventually sent is not claimed. `Tracking`: the pose that targets accumulate
  on is the pose the robot goes to. `GraspAtRest`, `ExitAtRest`: the robot rests
  before it grasps and after the application ends.

*Kinematics*

* `EquationsHold`: whenever the problem solves a step, the equation it was given
  has the form the builder assumed: the terms moved to the right-hand side and
  those applied to the point leave no unknown but the step's own.
* `AnswersFollowTool`: joints are only returned from a problem built for the
  chain with the tool that was last appended, and are one of its solutions
  unless the configuration was chosen among more than there are now.
* `RepresentationsAgree`: chain, product of exponentials, reversed product and
  parts of it give the same poses.
* `HandReachesTarget`: a pose the hand can take is never out of reach; the joints
  that ASIBOT's solver returns are within limits, bring the hand there, and are
  the ones preferred. `Preferred` is what `AsibotConfiguration.hpp:123-132`
  describes: the pose that moves the robot least, or the other elbow of the same
  side if it moves joint 2 no more than that one.
* `JacobianIsVelocity`: the columns of ASIBOT's Jacobians are the velocities of
  the tip: in both frames without a tool, and in the frame of the base with a tool
  that does not turn its own displacement. One of the two tools of the run turns
  the hand about its displacement, the other one turns the displacement itself.
* `OwnedOnce`: after any sequence of configuration, (failed) creation and
  destruction, every object is owned by one pointer.

**Why these bounds are enough.** For the basic controller, the interleavings that
matter involve a client, the periodic thread, the command port and, in
`concurrent`, a second client: the code treats all RPC threads alike, so a third
adds no new pair of steps. Joints only interact through "all joints are in mode m"
and through partial effects of a failing call, and one fault suffices to break
each call once; with one joint a failing call has either all of its effect or
none, so `sequential` has two; two suffice to tell "all" from "some". Operations are distributed over the runs so that each
pair that shares state meets (movl with stop and streaming, movj with movl, movv
with presets). The same holds for the clients of `amor` and `network`, where the
second client does what the first can be disturbed by. In `network` a clock of 3
lets a sample be sent, arrive late, grow too old and be replaced, with a call
before and after. A velocity of one step has a zero and a limit, and the
direction of a key is kept apart from it; negative velocities (`BackSteps`) are
left to the theorems. Two datagrams can overtake each other; three poses are more than a
round trip of one datagram. For `kinematics`, the robots of the tests reach every
kind of subproblem but those of two translations, which the gantry and the
cylindrical robot reach; the search itself only depends on the relations between
neighbouring axes. The draws put the random points of the axes on either side
of those the axes define. Theorems (section 4) remove the bounds for all but liveness.

**Fairness.** `FairSpec` of `BasicCartesianControl` assumes weak fairness of each
client's call in progress, of stopControl, of the periodic thread, of arriving
joints and of time. The operating system schedules threads and the periodic
thread is re-armed by a timer; a position move arrives unless the joint is taken
over. One strong fairness says that `fwdKin`, which depends on the encoders alone,
does not refuse for ever when a movl is in control and its trajectories were
lost: the iteration that gets past it then ends the process. `FairSpec` of
`AmorCartesianControl` only assumes that the thread that serves a call goes on;
nothing makes the arm arrive, since nothing in the code does. Clients need not
issue calls, ports need not stream, devices need not fail. `WaitReturns` is
stated for one client: a second one could engage an endless movement between any
two polls, and wait would then rightly go on. A wait without timeout on the AMOR
arm returns only if the arm arrives, and is not claimed to.

**Conditions.** The properties about engaging are stated for calls that start
with nothing in control, no other client busy and the periodic thread at rest.
Without these conditions they fail in the code as written: two clients that move
at once leave the joints in each other's modes, a movl issued over a running movl
races with the iteration over `trajectories`, and a movement that starts while the
periodic thread is still ending or aborting the one before may be stopped by it,
or lose the speeds of the user. No document promises more, but for the speeds.
`late`, `lost`, `interrupted`, `interfered` and "no fault so far" mark, in the
applications, the cases in which the code as written gives no guarantee; each is
a history variable, set where it happens.

### Divergences from the documentation

Shown by a run:

* `ICartesianControl.h:286` has wait return "false if errors occurred during the
  execution of the trajectory"; if the error came before wait looked at the
  state, it returns true (`ICartesianControlImpl.cpp:405`).
* `BasicCartesianControl.hpp:252` says of `vmoStored` "MOVJ store previous reference
  speeds"; a movj after a wait may store the isochronous ones of the movement
  before it (`ICartesianControlImpl.cpp:101`, `PeriodicThreadImpl.cpp:81-83`).
* `ICartesianControl.h:272` has a stop "cease movement", and so has the stop key of
  the keyboard controller (`KeyboardController.cpp:739`); the AMOR arm moves after
  it if a movi of the thread was under way (`LinearTrajectoryThread.cpp:120`).

Met while modelling, and written into the models as the code has them:

* *Network.* A client takes the empty reply of a broken connection for success,
  and `stat` computes `response.size() - 2` on it. `open` of the server returns
  true early for an unknown `angleRepr` or `angularUnits`, without ports.
* *Basic and AMOR controllers.* `stopControl` of the basic controller returns true
  after failures that leave joints moving (`ICartesianControlImpl.cpp:396`), where
  the interface says "true on success, false otherwise". `setParameter`, "unable to
  set config parameter while controlling" (`:620`), looks at the state only once: a
  movement that another client starts meanwhile has its frame changed. A streamed zero twist is refused by the basic
  controller while a movv is in control, so that the keyboard application
  (`KeyboardController.cpp:512`, "disable CMC") does not stop it that way. The wait
  of the AMOR controller answers true although the stop after its timeout
  failed.
* *Keyboard.* When the thread cannot be configured, the key returns with the
  velocity on display increased. `close` reads `usingThread`, which an early
  return of `configure` leaves unassigned.
* *Streaming applications.* `stopMotion` of the Leap Motion sensor is empty,
  though `StreamingDevice.hpp:116` says that it "sends a movement command that would
  stop motion". A failing `acquireData` leaves the last twist in force. The preset
  is not renewed when another client has moved the robot. The detection controller
  never presets, so its twists only move the AMOR arm.
* *Screw theory.* For two perpendicular translations followed by a rotation
  perpendicular to both, the builder chooses a subproblem whose equation does not
  have the form it solves (`ScrewTheoryIkProblemBuilder.cpp:563-638`); these are
  the exception `TranslationsLeft` of `EquationsHold`. All 3- and 4-joint robots
  with axes along those of the base (6912 of four joints) were explored once, and
  these were the only exceptions; `EquationsAlwaysHold` (section 4) shows that there
  are no others, however many joints the robot has.
* *KDL solver.* Once no solution was found every later query fails, also after
  the tool is restored; appending a tool without a solution still returns true.
  The configuration chosen first is "if attainable" retained
  (`ConfigurationSelector.hpp:121`), but also for a new problem where it is out of
  range, so that the answer is no solution (the exception `chosenOf > answer.of`) or
  the process crashes. With the strategy `humanoidGait` a robot that has not six
  joints opens without a selector (`ConfigurationSelector.hpp:265-275`,
  `ChainIkSolverPos_ST.cpp:86`) and inverse kinematics dereference null (`:40`):
  `SelectorCrash`. `ik=st` ignores the scale of a joint
  and thus turns `InvRot` and `InvTrans` the wrong way. An unrecognized `xyzLink`
  is skipped with a warning.
* *ASIBOT solver.* Forward kinematics give the opposite azimuth when the arm leans
  back; the sign of the pitch, and the roll, are lost at the poles; Jacobians are
  wrong with a tool that turns its own displacement, for which the code takes the
  rotation of the tip for that of the hand (`ICartesianSolverImpl.cpp:449`), and in
  the TCP frame with any tool that displaces the tip. The
  properties leave these cases out. Of poses of equal displacement the choice
  sees only the first, for they share a key of its `std::map`: a pose tied with
  another is not compared by joint 2 (guess `<<-2, -2, -1, 0, 2>>` for
  `<<0, 0, 1, -1, 0>>`, in quarter turns: three poses move the robot by 7).
  `Preferred` states what is left of the rule.
* *Trajectories.* A single waypoint is accepted without a velocity
  (`KdlTrajectory.cpp:156`), and queries before `create` dereference null.

## 4. What is proved

Eight modules of theorems, for every value of the constants: any sets of clients,
joints and operations, any number of faults, any bounds on time, traffic, poses
and waypoints, any robots and tools. The assumptions are those of the modules
(the names of clients differ from those of other threads, `Ops` are operations,
bounds are natural numbers; those of the kinematics are discussed below) and,
where stated, of the theorem.

`BasicCartesianControlProofs`

* `TypeCorrect`: `Spec => []TypeOK`. The strengthening `TypeInv` adds that a
  thread at a step executes an operation that takes the step (`OpOK`): without
  it `Engage` could set a state that is no movement.
* `StopIsSafe`: `Spec => []SafeStop`. `SafeStop` only speaks of finished stops.
  `StopProgress` says what has been achieved at each step of one: the state is
  released after the first, all joints outside `stale` rest before the switch of
  modes and all after it, nothing is driven after `stop()`. The others cannot
  undo it: the periodic thread and the command port hold set-points for modes no
  joint is in any more (`ElsewhereProgress`, `DriveAtRest`), clients are idle or
  about to find that there is nothing to wait for (`ClientProgress`).
  `DrivenManaged` (no joint taken over by others is driven) is needed to
  conclude that stopping the joints of position mode stops all.
* `StreamingIsExclusive`: `Spec => []StreamingNeedsIdle`. The invariant `Serial` says that, without
  overlap, a busy client is the only one and nothing is in control between the
  check of setParameter and its return; the periodic thread only ever releases
  the state (`ReleaseSerial`).
* `CommandsEngageProperly`, `CleanCommandsNeverCrash`, `SpeedsAreRestored`: `Spec`
  implies `[]EngagedProperly`, `[]NoCrash`, `[]SpeedsRestored`.
* `WaitIsTruthful`: `Joints # {}` and `Spec` imply `WaitTellsTruth` (a robot
  without joints arrives before it leaves).
* One invariant serves the four, which speak of what comes of a call that began
  with nothing in control, nobody busy and the periodic thread at rest: `CleanInv` says, in terms of the last recorded
  call, whose turn it is among its client, the periodic thread and the waiters
  (`Turn`), that its trajectories exist (`Made`), and, while nothing has failed,
  that the joints are in its mode (`InMode`), the speeds of the user are stored
  or restored (`Kept`) and a movement that is over has arrived (`Completed`). The
  periodic thread may still be in an iteration that began under the state before
  it; `Turn` says how far.
* `BasicImplementsContract`: `Presets \intersect Ops = {}` and `Spec` imply
  `Implements`. `OrderlyInv` combines the invariants above with `Calm`: an
  iteration that outlasts the state it began with finds no joint to move. It is
  what makes the steps of such an iteration stutter in the contract.

`AmorCartesianControlProofs`

* `AmorTypeCorrect`, and `AmorImplementsContract`: `Spec => Implements`, without
  restriction on the operations. The invariant `Inv` says which call is at which
  step (`Corresponds`) and that a client that is alone shares the controller with
  nobody and finds the state as it left it (`Alone`).
* `NoMotionIsOrphaned`: `Spec => []NoOrphanMotion`, from `OneBusy` and `Accounted`:
  an arm that moves with nothing in control is one whose movement is about to be
  announced or which is about to be stopped.

`CartesianControlNetworkProofs`: `StopHolds`, `ClosedIsAtRest`, `ServerIsHonest`,
`AnswersAreFresh`, each from the shape of the state and an invariant of its own:
nothing is preset after a stop (`AtRest`), what each stage of close leaves
(`Stages`), what replies carry (`Told`), how old samples are (`Aged`).

`StreamingApplicationsProofs`: `GripperIsRemembered` (as long as no call failed), `RobotRestsToGrasp`,
`RobotRestsAtExit`, `BeliefIsTrue`, `TargetsTrack`. `Believed` and `Followed` speak
of what the robot will do once everything in flight has arrived (`FinalSpeed`,
`FinalPose`), for any number of datagrams; `Quiet` and `Refusing` of what is left
under way at the end.

`KeyboardControllerProofs`: `NoCrashAlways`, `FramesAgreeAlways`,
`StoppedIsStillAlways`, `ShownIsCommandedAlways`, `OneModeAlways` and
`ExitAtRestAlways`, each `Spec` implies the property always, from one invariant
`IInv`, for velocities of any size.

* What a key still has to do is the sequence `todo`. `Script` says which sequences
  there are, and `Ordered` what follows for the calls ahead (`Ahead`): the
  suspension of the thread precedes what it protects.
* `Rested`, `Pointed` and `Framed` say in terms of what is ahead when the thread is
  at rest, has something to send and knows the frame. A change of frame that is
  ahead finds the thread suspended, or suspends it first, and no iteration under
  way unless it outlasts the stop: this is why `FramesAgree` holds although the
  frame is not protected, and why it survives failures and signals.
* `Moded`, `Stopped`, `JointsStopped`, `Alone` and `Displayed` say what the robot
  does once each call of a key has been made. What is on the wire belongs to an
  iteration: a movi that finds the thread stopped has outlasted a stop.

`KinematicsProofs`

* `TrajectoryOwnsOnce`: `TrajectorySpec => []OwnedOnce`, from flags and pointers
  agreeing (`Configured`).
* `AnswersFollowToolAlways`: `SolverSpec => []AnswersFollowTool`. `FollowInv` ties
  the problem in force to the chain in force: a search works on the product of
  exponentials of the chain or its reversal (`Builds`), what is solved was built
  for it (`Fits`), and the configuration was chosen for it or an earlier one
  (`Chosen`). The draws of the random points do not enter it, and a process that
  has crashed answers nothing.
* `EveryRepresentationAgrees`: for a chain of any length and every joint position,
  the chain, the product of exponentials read from it, its reversal, its halves
  put together, the product in another base and the chain rebuilt from it give
  the same poses. `RepresentationsAlwaysAgree`: `SolverSpec => []RepresentationsAgree`
  follows for every robot that is configured and every tool (`ChainInv`). The
  argument is the algebra of rigid frames with integer coordinates: composition
  is associative, an exponential moved to another base is conjugated by it, and
  a product reversed is inverted. The products are recursive functions; what
  they compute is shown by an induction over their length (`WFMin` on a set of
  counterexamples, so that no operator is a parameter).

`ScrewTheoryIkProofs`

* `EquationsAlwaysHold`: `SolverSpec => []EquationsHold`, for chains of any length.
  `EquationsHold` looks at one subproblem when it is solved. Whether it holds
  depends on all that was solved before: a joint already known may lie between two
  unknown ones, where it can neither be moved to the right-hand side nor be applied
  to the point, and is harmless only if it leaves the point where it is. The
  invariant therefore is a history.
* `HistoryInv` says, of the search and of the problem it yields, what the builder
  saw of the axes when it took each subproblem (`Taken`, five ways: a single joint,
  a pair, one joint between two points, a translation that leads or trails a
  plane), that the problem leaves no joint unsolved, and that a call in progress
  has made known exactly the terms of the steps behind it (`Terms`, `Learnt`). Of a
  search under way it says in addition that no point tried before finds two
  adjacent joints whose axes meet there (`WithoutWrist`): this is why a later point
  cannot take one joint of such a pair alone.
* From the history of a *complete* sequence follows what is true of the joints left
  at any of its steps (`Solvable`): a joint solved while one before it is unknown was
  solved between two points, or is a translation along the normal of a plane. The
  lemmas `EquationAlone`, `EquationPair`, `EquationMiddle`, `EquationLeads` and
  `EquationTrails` conclude that each way to take a subproblem leaves the other
  unknown joints out of its equation. `TranslationsLeft` is needed in the last
  two only.
* `HistoryStep` shows that the search keeps it: the joints moved aside in either
  stage are those that leave a test point where it is (`CoveredSet`, `ShieldedSet`),
  and the points are finitely many vectors, however many joints there are and
  wherever the random ones fall (`PointsFound`). A sequence that cannot be completed, which the code gives up, need
  not have equations that hold.

`AsibotSolverProofs`

* `JacobianAlwaysVelocity`: `AsibotSpec => []JacobianIsVelocity`, with the condition
  on tools that is part of the property. `HandPosition` says
  where the joints bring the hand: the three of the arm turn about parallel axes,
  so their turns add up (`Pitch`) and their reaches are the sums of the forward
  kinematics. The velocity a joint gives the hand is then a rotated reach, in
  the frame of the base or of the hand; a tool that displaces the tip adds its
  share. `AsibotInv` says that a tool is rigid, that none is the identity, and
  that an answer was computed for what was asked.
* `HandAlwaysReachesTarget`: `AsibotSpec => []HandReachesTarget`, from `ReachInv`.
  The target is taken apart into azimuth, position and Euler angles; the triangle
  of the elbow has a right angle or is stretched, and `Atan2` finds its angles in
  each case; elbow up, elbow down and the arm turned round reach the same place
  (`ForwardPose`, `ReversedPose`: the two equal links exchanged, then the arm
  mirrored and the roll turned by half), and normalising
  angles changes no turn. So each of the four poses brings the hand there; of those
  within limits the choice among at most four displacements is `Preferred`.

*Assumptions of the kinematics.* `RobotsAssumption` and `ToolsAssumption`
(`KdlSolver`): configured angles are quarter turns, axes are those of the base,
and the matrices of base, tip and tools are rigid motions: what `open` reads and
`appendLink` gets are frames, and the quarter turns are the exact arithmetic of
these modules. `AsibotToolsAssumption`: the same of the tools of ASIBOT. `DrawsAssumption`: a
random factor is not zero (the code draws again when the point is not new).
`HandPosesAssumption`: the hand asked for is in front of the robot, does not point
back at its axis, and the arm is not folded up; behind, forward kinematics give the
opposite azimuth (section 3), and a folded arm has a triangle of length zero, by
which the code divides. `GuessesAssumption`: the robot is in
front of itself when it is asked. All are met by the instance of `kinematics`,
where TLC evaluates them.

**Only model-checked.** Liveness under fairness (`WaitReturns`, `MismatchNoticed`,
`TimeoutReturns`) is out of the prover's reach. Every invariant and every other
property of a passing run is a theorem.

## 5. Not modelled

* Real arithmetic: the numbers of the subproblems, the iterative solvers (lma,
  nrjl, id), joint velocities of `diffInvKin`, dynamics, conversions. Where they
  can fail, the models of their callers let them.
* `KdlTreeSolver`: no state once opened, tools refused, the rest as above.
* A change of tool during a movement: `tool` is covered on the side of the solver
  only, the controller holds no state of it, so that an iteration between its two
  calls is not composed with it. `act` is forwarded to a hand and
  keeps no state. The race of two clients on the torques of `forc`.
* Values of gain, duration and periods: `referenceFrame` stands for the parameters;
  that setParameters applies some of them and fails on the next one is not told
  apart. Failures of `open` of the basic controller.
* The operations of `AsibotSolver` are atomic: that its tool is read twice by
  inverse kinematics, and copied, changed and stored under separate locks by
  `appendLink`, is not modelled.
* Velocities and accelerations of trajectories, positions along a path.
* Crashes and restarts: nothing is persisted, a restarted process is a new one.
* Examples, tests and bindings.
