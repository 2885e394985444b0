-------------------- MODULE BasicCartesianControlProofs --------------------
(***************************************************************************)
(* Theorems about the Cartesian controller device, for any number of       *)
(* clients, joints and faults and any set of operations.                   *)
(*                                                                         *)
(* What holds of every call comes first: stopping, streaming, parameters.  *)
(* Then what comes of a call that begins cleanly, with no other client     *)
(* busy, nothing in control and the periodic thread at rest.  Last, that   *)
(* the controller implements the contract of its interface, as long as no  *)
(* streaming command is preset: a client that stops next to somebody who   *)
(* streams is promised nothing.                                            *)
(***************************************************************************)
EXTENDS BasicCartesianControl, TLAPS

\* The operations that take a step.
Fits(o, step) ==
  /\ step \in {"clear", "build"} => o \in {"movl", "movv"}
  /\ step \in {"readModes", "writeModes"} => o \in Movements \union Presets
  /\ step \in {"getRefSpeeds", "setRefSpeeds", "positionMove"} => o = "movj"
  /\ step = "arm" => o \in {"movj", "movl", "movv"}
  /\ step = "engage" => o \in Movements
  /\ step = "enable" => o \in Presets

OpOK == \A c \in Clients : Fits(op[c], pc[c])

TypeInv == TypeOK /\ OpOK

-----------------------------------------------------------------------------
USE DEF config, motion, control, robot, locals, history, At, Goto, Return,
        Works, SetCurrentState

\* Whatever the operation, the mode it works in is one that joints are commanded to.
LEMMA ModeOfControls == \A o : ModeOf(o) \in ControlModes
BY DEF ModeOf, ControlModes

\* Where the caller of setControlModes goes on.
LEMMA AfterModesSteps ==
  /\ AfterModes("movj") = "positionMove"
  /\ \A o \in {"movl", "movv"} : AfterModes(o) = "arm"
  /\ \A o \in {"gcmp", "forc"} : AfterModes(o) = "engage"
  /\ \A o \in Presets : AfterModes(o) = "enable"
<1>1. AfterModes("movj") = "positionMove"
  BY Zenon DEF AfterModes
<1>2. \A o \in {"movl", "movv"} : AfterModes(o) = "arm"
  BY Zenon DEF AfterModes
<1>3. \A o \in {"gcmp", "forc"} : AfterModes(o) = "engage"
  BY Zenon DEF AfterModes
<1>4. \A o \in Presets : AfterModes(o) = "enable"
  BY Zenon DEF AfterModes, Presets
<1>5. QED
  BY <1>1, <1>2, <1>3, <1>4

\* What a set-point or a stop can do to the joints in its mode, if the call works
\* for all of them, for some or for none.
LEMMA SomeDriven ==
  /\ \A t : StopMotion(t) => \E J \in SUBSET Within("POSITION") : Drive(J, FALSE)
  /\ SendVelocities => \E J \in SUBSET Within("VELOCITY"), moves \in BOOLEAN : Drive(J, moves)
  /\ SendTorques => \E J \in SUBSET Within("TORQUE"), moves \in BOOLEAN : Drive(J, moves)
  /\ StreamMove => \E J \in SUBSET Within(ModeOf(streamed)), moves \in BOOLEAN : Drive(J, moves)
<1>1. ASSUME NEW m, UNCHANGED driven PROVE \E J \in SUBSET Within(m) : Drive(J, FALSE)
  <2>1. Drive({}, FALSE)
    BY <1>1 DEF Drive
  <2>2. QED
    BY <2>1
<1>2. ASSUME NEW m, NEW moves, Drive(Within(m), moves) \/ DriveSome(m, moves)
      PROVE  \E J \in SUBSET Within(m) : Drive(J, moves)
  BY <1>2 DEF DriveSome
<1>3. ASSUME NEW t, StopMotion(t) PROVE \E J \in SUBSET Within("POSITION") : Drive(J, FALSE)
  BY <1>2, <1>3 DEF StopMotion
<1>4. ASSUME SendVelocities PROVE \E J \in SUBSET Within("VELOCITY"), moves \in BOOLEAN : Drive(J, moves)
  BY <1>2, <1>4 DEF SendVelocities
<1>5. ASSUME SendTorques PROVE \E J \in SUBSET Within("TORQUE"), moves \in BOOLEAN : Drive(J, moves)
  BY <1>1, <1>2, <1>5 DEF SendTorques
<1>6. ASSUME StreamMove PROVE \E J \in SUBSET Within(ModeOf(streamed)), moves \in BOOLEAN : Drive(J, moves)
  BY <1>1, <1>2, <1>6 DEF StreamMove
<1>7. QED
  BY <1>3, <1>4, <1>5, <1>6

\* A failing device call leaves the history well formed.
LEMMA FailsType ==
  ASSUME HistoryType, NEW t, Fails(t), crashed' \in BOOLEAN
  PROVE  HistoryType'
<1>1. faults' \in 0..MaxFaults
  BY FaultsAssumption DEF HistoryType, Fails
<1>2. latest' \in [by : Clients \union {"none"}, op : Operations \union {"none"},
                 alone : BOOLEAN, free : BOOLEAN, clean : BOOLEAN,
                 failed : BOOLEAN, speeds : Speeds]
  BY Zenon DEF HistoryType, Fails
<1>3. overlapped' \in BOOLEAN
  BY Zenon DEF HistoryType, Fails
<1>4. QED
  BY <1>1, <1>2, <1>3 DEF HistoryType

\* So does a call that is recorded.
LEMMA RecordedType ==
  ASSUME HistoryType, RobotType, ControllerType, NEW c \in Clients, NEW o \in Operations, Recorded(c, o),
         UNCHANGED <<faults, crashed>>
  PROVE  HistoryType'
<1> DEFINE v == IF pc[Cmc] = "restore" THEN vmoStored ELSE refSpeeds
<1>1. PICK a \in BOOLEAN, f \in BOOLEAN, b \in BOOLEAN :
        latest' = [by |-> c, op |-> o, alone |-> a, free |-> f, clean |-> b, failed |-> FALSE, speeds |-> v]
  BY Zenon DEF Recorded, Alone
<1>2. c \in Clients \union {"none"} /\ o \in Operations \union {"none"} /\ v \in Speeds
  BY DEF RobotType, ControllerType
<1> HIDE DEF v
<1>3. latest' \in [by : Clients \union {"none"}, op : Operations \union {"none"},
                 alone : BOOLEAN, free : BOOLEAN, clean : BOOLEAN,
                 failed : BOOLEAN, speeds : Speeds]
  BY <1>1, <1>2, Zenon
<1>4. overlapped' \in BOOLEAN
  BY Zenon DEF Recorded
<1>5. QED
  BY <1>3, <1>4 DEF HistoryType

\* A controller that has just been opened is well typed.
LEMMA TypeInit == Init => TypeInv
<1> SUFFICES ASSUME Init PROVE TypeInv
  OBVIOUS
<1>1. ControllerType
  BY DEF Init, ControllerType, States, Speeds, NC
<1>2. RobotType
  BY DEF Init, RobotType, Speeds, ControlModes, Unmanaged
<1>3. ThreadType
  BY ClientsAssumption
  DEF Init, ThreadType, Actors, Cmc, Stream, Steps, CmcSteps, StreamSteps, States
<1>4. HistoryType
  <2>1. faults \in 0..MaxFaults
    BY FaultsAssumption DEF Init
  <2>2. latest \in [by : Clients \union {"none"}, op : Operations \union {"none"},
                 alone : BOOLEAN, free : BOOLEAN, clean : BOOLEAN,
                 failed : BOOLEAN, speeds : Speeds]
    BY Zenon DEF Init, Speeds
  <2>3. QED
    BY <2>1, <2>2 DEF Init, HistoryType
<1>5. OpOK
  BY DEF Init, OpOK, Fits, Actors
<1>6. QED
  BY <1>1, <1>2, <1>3, <1>4, <1>5 DEF TypeInv, TypeOK

-----------------------------------------------------------------------------
(* Type correctness is preserved by every step.                            *)

\* A call that begins: its first step fits its operation.
LEMMA CallType ==
  ASSUME TypeInv, NEW c \in Clients, NEW o \in Operations,
         NEW step \in {"getRefSpeeds", "clear", "readModes", "stopState",
                      "waitCheck", "setFrame", "preset"},
         step = "clear" => o \in {"movl", "movv"},
         step = "readModes" => o \in {"gcmp", "forc"},
         step = "getRefSpeeds" => o = "movj",
         Call(c, o, step)
  PROVE  ControllerType' /\ RobotType' /\ ThreadType' /\ OpOK'
<1>1. ControllerType' /\ RobotType'
  BY DEF TypeInv, TypeOK, ControllerType, RobotType, Call
<1>2. ThreadType'
  BY ClientsAssumption
  DEF TypeInv, TypeOK, ThreadType, Call, Actors, Cmc, Stream, Steps, StopSteps
<1>3. OpOK'
  BY DEF TypeInv, TypeOK, ThreadType, OpOK, Fits, Call, Actors, Movements, Presets
<1>4. QED
  BY <1>1, <1>2, <1>3

\* Every call that a client can issue.
LEMMA CallsType ==
  ASSUME TypeInv, NEW c \in Clients, Calls(c)
  PROVE  TypeInv'
<1> USE OpsAssumption DEF TypeInv, TypeOK
<1>1. CASE CallMovj(c)
  BY <1>1, CallType, RecordedType DEF CallMovj, Call, Operations, Movements
<1>2. ASSUME NEW o \in {"movl", "movv"}, CallTrajectory(c, o)
      PROVE  TypeInv'
  BY <1>2, CallType, RecordedType DEF CallTrajectory, Call, Operations, Movements
<1>3. ASSUME NEW o \in {"gcmp", "forc"}, CallTorque(c, o)
      PROVE  TypeInv'
  BY <1>3, CallType, RecordedType DEF CallTorque, Call, Operations, Movements
<1>4. CASE CallStop(c)
  BY <1>4, CallType, RecordedType DEF CallStop, Call, Operations
<1>5. ASSUME NEW o \in {"wait", "waitTimeout"}, CallWait(c, o)
      PROVE  TypeInv'
  <2>1. Call(c, o, "waitCheck") /\ o \in Operations /\ UNCHANGED <<crashed, faults>>
    BY <1>5 DEF CallWait, Call, Operations
  <2>2. ControllerType' /\ RobotType' /\ ThreadType' /\ OpOK'
    BY <2>1, CallType
  <2>3. latest' \in [by : Clients \union {"none"}, op : Operations \union {"none"},
                   alone : BOOLEAN, free : BOOLEAN, clean : BOOLEAN,
                 failed : BOOLEAN, speeds : Speeds]
    BY <1>5, Zenon DEF CallWait, HistoryType
  <2>4. overlapped' \in BOOLEAN
    BY <1>5, Zenon DEF CallWait
  <2>5. QED
    BY <2>1, <2>2, <2>3, <2>4 DEF HistoryType
<1>6. ASSUME NEW o \in Presets \union {"frame", "unsupported"}, CallSetParameter(c, o)
      PROVE  TypeInv'
  BY <1>6, CallType, RecordedType DEF CallSetParameter, Call, Operations
<1>7. CASE CallClose(c)
  BY <1>7, CallType, RecordedType DEF CallClose, Call, Operations
<1>8. QED
  BY <1>1, <1>2, <1>3, <1>4, <1>5, <1>6, <1>7 DEF Calls

\* Client c goes on to another step of its operation.
LEMMA GotoType ==
  ASSUME ThreadType, OpOK, NEW c \in Clients, NEW step \in Steps, Fits(op[c], step),
         Goto(c, step), UNCHANGED locals, stale' \in [Actors -> SUBSET Joints]
  PROVE  ThreadType' /\ OpOK'
<1>1. ThreadType'
  BY ClientsAssumption DEF ThreadType, Actors, Cmc, Stream
<1>2. OpOK'
  BY DEF OpOK, ThreadType, Actors
<1>3. QED
  BY <1>1, <1>2

\* The call of client c returns.
LEMMA ReturnType ==
  ASSUME ThreadType, OpOK, NEW c \in Clients, NEW r \in BOOLEAN, Return(c, r),
         stale' \in [Actors -> SUBSET Joints]
  PROVE  ThreadType' /\ OpOK'
<1>1. ThreadType'
  BY ClientsAssumption DEF ThreadType, Actors, Cmc, Stream, Steps
<1>2. OpOK'
  BY DEF OpOK, Fits, ThreadType, Actors
<1>3. QED
  BY <1>1, <1>2

\* Every step of a call in progress, stopControl excepted.
LEMMA ClientType ==
  ASSUME TypeInv, NEW c \in Clients, ClientNext(c)
  PROVE  TypeInv'
<1> USE ClientsAssumption DEF TypeInv, TypeOK
<1>1. CASE GetRefSpeeds(c)
  <2>1. ControllerType'
    BY <1>1 DEF GetRefSpeeds, ControllerType, RobotType
  <2>2. RobotType'
    BY <1>1 DEF GetRefSpeeds, RobotType
  <2>3. HistoryType'
    BY <1>1, FailsType DEF GetRefSpeeds, HistoryType
  <2>4. stale' \in [Actors -> SUBSET Joints]
    BY <1>1 DEF GetRefSpeeds, ThreadType
  <2>5. "setRefSpeeds" \in Steps /\ Fits(op[c], "setRefSpeeds")
    BY <1>1 DEF GetRefSpeeds, OpOK, Fits, Steps, Movements, Presets
  <2>6. ThreadType' /\ OpOK'
    BY <1>1, <2>4, <2>5, GotoType, ReturnType DEF GetRefSpeeds
  <2>7. QED
    BY <2>1, <2>2, <2>3, <2>6
<1>2. CASE SetRefSpeeds(c)
  <2>1. ControllerType'
    BY <1>2 DEF SetRefSpeeds, ControllerType
  <2>2. RobotType'
    BY <1>2 DEF SetRefSpeeds, SpeedsFail, RobotType, Speeds
  <2>3. HistoryType'
    BY <1>2, FailsType DEF SetRefSpeeds, HistoryType
  <2>4. stale' \in [Actors -> SUBSET Joints]
    BY <1>2 DEF SetRefSpeeds, ThreadType
  <2>5. "readModes" \in Steps /\ Fits(op[c], "readModes")
    BY <1>2 DEF SetRefSpeeds, OpOK, Fits, Steps, Movements, Presets
  <2>6. ThreadType' /\ OpOK'
    BY <1>2, <2>4, <2>5, GotoType, ReturnType DEF SetRefSpeeds
  <2>7. QED
    BY <2>1, <2>2, <2>3, <2>6
<1>3. CASE ReadModes(c)
  <2>1. ControllerType'
    BY <1>3 DEF ReadModes, ControllerType
  <2>2. RobotType'
    BY <1>3 DEF ReadModes, RobotType
  <2>3. HistoryType'
    BY <1>3, FailsType DEF ReadModes, HistoryType
  <2>4. stale' \in [Actors -> SUBSET Joints]
    BY <1>3 DEF ReadModes, ThreadType, Actors, Others, Within
  <2>5. "writeModes" \in Steps /\ Fits(op[c], "writeModes")
    BY <1>3 DEF ReadModes, OpOK, Fits, Steps, Movements, Presets
  <2>6. ThreadType' /\ OpOK'
    BY <1>3, <2>4, <2>5, GotoType, ReturnType DEF ReadModes
  <2>7. QED
    BY <2>1, <2>2, <2>3, <2>6
<1>4. CASE WriteModes(c)
  <2>1. ControllerType'
    BY <1>4 DEF WriteModes, ControllerType
  <2>2. RobotType'
    <3>1. PICK J \in SUBSET Joints : SwitchModes(J, ModeOf(op[c]))
      BY <1>4 DEF WriteModes, ThreadType, Actors
    <3>2. QED
      BY <3>1, ModeOfControls DEF SwitchModes, RobotType
  <2>3. HistoryType'
    BY <1>4, FailsType DEF WriteModes, HistoryType
  <2>4. stale' \in [Actors -> SUBSET Joints]
    BY <1>4 DEF WriteModes, ThreadType, Actors, Others, Within
  <2>5. AfterModes(op[c]) \in Steps /\ Fits(op[c], AfterModes(op[c]))
    <3>1. op[c] \in Movements \union Presets
      BY <1>4 DEF WriteModes, OpOK, Fits
    <3>2. QED
      BY <3>1, AfterModesSteps DEF Fits, Steps, Movements, Presets
  <2>6. ThreadType' /\ OpOK'
    BY <1>4, <2>4, <2>5, GotoType, ReturnType DEF WriteModes
  <2>7. QED
    BY <2>1, <2>2, <2>3, <2>6
<1>5. CASE PositionMove(c)
  <2>1. ControllerType'
    BY <1>5 DEF PositionMove, ControllerType
  <2>2. RobotType'
    BY <1>5 DEF PositionMove, RobotType, Within
  <2>3. HistoryType'
    BY <1>5, FailsType DEF PositionMove, HistoryType
  <2>4. stale' \in [Actors -> SUBSET Joints]
    BY <1>5 DEF PositionMove, ThreadType
  <2>5. "arm" \in Steps /\ Fits(op[c], "arm")
    BY <1>5 DEF PositionMove, OpOK, Fits, Steps, Movements, Presets
  <2>6. ThreadType' /\ OpOK'
    BY <1>5, <2>4, <2>5, GotoType, ReturnType DEF PositionMove
  <2>7. QED
    BY <2>1, <2>2, <2>3, <2>6
<1>6. CASE ClearTrajectories(c)
  <2>1. ControllerType'
    BY <1>6 DEF ClearTrajectories, ControllerType
  <2>2. RobotType'
    BY <1>6 DEF ClearTrajectories, RobotType
  <2>3. HistoryType'
    BY <1>6, FailsType DEF ClearTrajectories, HistoryType
  <2>4. stale' \in [Actors -> SUBSET Joints]
    BY <1>6 DEF ClearTrajectories, ThreadType
  <2>5. "build" \in Steps /\ Fits(op[c], "build")
    BY <1>6 DEF ClearTrajectories, OpOK, Fits, Steps, Movements, Presets
  <2>6. ThreadType' /\ OpOK'
    BY <1>6, <2>4, <2>5, GotoType DEF ClearTrajectories
  <2>7. QED
    BY <2>1, <2>2, <2>3, <2>6
<1>7. CASE BuildTrajectories(c)
  <2>1. ControllerType'
    BY <1>7 DEF BuildTrajectories, ControllerType, OpOK, Fits
  <2>2. RobotType'
    BY <1>7 DEF BuildTrajectories, RobotType
  <2>3. HistoryType'
    BY <1>7, FailsType DEF BuildTrajectories, HistoryType
  <2>4. stale' \in [Actors -> SUBSET Joints]
    BY <1>7 DEF BuildTrajectories, ThreadType
  <2>5. "readModes" \in Steps /\ Fits(op[c], "readModes")
    BY <1>7 DEF BuildTrajectories, OpOK, Fits, Steps, Movements, Presets
  <2>6. ThreadType' /\ OpOK'
    BY <1>7, <2>4, <2>5, GotoType DEF BuildTrajectories
  <2>7. QED
    BY <2>1, <2>2, <2>3, <2>6
<1>8. CASE Arm(c)
  <2>1. ControllerType'
    BY <1>8 DEF Arm, ControllerType
  <2>2. RobotType'
    BY <1>8 DEF Arm, RobotType
  <2>3. HistoryType'
    BY <1>8, FailsType DEF Arm, HistoryType
  <2>4. stale' \in [Actors -> SUBSET Joints]
    BY <1>8 DEF Arm, ThreadType
  <2>5. "engage" \in Steps /\ Fits(op[c], "engage")
    BY <1>8 DEF Arm, OpOK, Fits, Steps, Movements, Presets
  <2>6. ThreadType' /\ OpOK'
    BY <1>8, <2>4, <2>5, GotoType DEF Arm
  <2>7. QED
    BY <2>1, <2>2, <2>3, <2>6
<1>9. CASE Engage(c)
  <2>1. ControllerType'
    BY <1>9 DEF Engage, ControllerType, OpOK, Fits, States
  <2>2. RobotType'
    BY <1>9 DEF Engage, RobotType
  <2>3. HistoryType'
    BY <1>9, FailsType DEF Engage, HistoryType
  <2>4. stale' \in [Actors -> SUBSET Joints]
    BY <1>9 DEF Engage, ThreadType
  <2>5. ThreadType' /\ OpOK'
    BY <1>9, <2>4, ReturnType DEF Engage
  <2>6. QED
    BY <2>1, <2>2, <2>3, <2>5
<1>10. CASE SetFrame(c)
  <2>1. ControllerType'
    BY <1>10 DEF SetFrame, ControllerType
  <2>2. RobotType'
    BY <1>10 DEF SetFrame, RobotType
  <2>3. HistoryType'
    BY <1>10, FailsType DEF SetFrame, HistoryType
  <2>4. stale' \in [Actors -> SUBSET Joints]
    BY <1>10 DEF SetFrame, ThreadType
  <2>5. ThreadType' /\ OpOK'
    BY <1>10, <2>4, ReturnType DEF SetFrame
  <2>6. QED
    BY <2>1, <2>2, <2>3, <2>5
<1>11. CASE Preset(c)
  <2>1. ControllerType'
    BY <1>11 DEF Preset, ControllerType, States
  <2>2. RobotType'
    BY <1>11 DEF Preset, RobotType
  <2>3. HistoryType'
    BY <1>11, FailsType DEF Preset, HistoryType
  <2>4. stale' \in [Actors -> SUBSET Joints]
    BY <1>11 DEF Preset, ThreadType
  <2>5. "readModes" \in Steps /\ (op[c] \in Presets => Fits(op[c], "readModes"))
    BY <1>11 DEF Preset, OpOK, Fits, Steps, Movements, Presets
  <2>6. ThreadType' /\ OpOK'
    BY <1>11, <2>4, <2>5, GotoType, ReturnType DEF Preset
  <2>7. QED
    BY <2>1, <2>2, <2>3, <2>6
<1>12. CASE Enable(c)
  <2>1. ControllerType'
    BY <1>12 DEF Enable, ControllerType, OpOK, Fits
  <2>2. RobotType'
    BY <1>12 DEF Enable, RobotType
  <2>3. HistoryType'
    BY <1>12, FailsType DEF Enable, HistoryType
  <2>4. stale' \in [Actors -> SUBSET Joints]
    BY <1>12 DEF Enable, ThreadType
  <2>5. ThreadType' /\ OpOK'
    BY <1>12, <2>4, ReturnType DEF Enable
  <2>6. QED
    BY <2>1, <2>2, <2>3, <2>5
<1>13. CASE WaitCheck(c)
  <2>1. ControllerType'
    BY <1>13 DEF WaitCheck, ControllerType
  <2>2. RobotType'
    BY <1>13 DEF WaitCheck, RobotType
  <2>3. HistoryType'
    BY <1>13, FailsType DEF WaitCheck, HistoryType
  <2>4. stale' \in [Actors -> SUBSET Joints]
    BY <1>13 DEF WaitCheck, ThreadType
  <2>5. "poll" \in Steps /\ Fits(op[c], "poll")
    BY <1>13 DEF WaitCheck, OpOK, Fits, Steps, Movements, Presets
  <2>6. ThreadType' /\ OpOK'
    BY <1>13, <2>4, <2>5, GotoType, ReturnType DEF WaitCheck
  <2>7. QED
    BY <2>1, <2>2, <2>3, <2>6
<1>14. CASE Poll(c)
  <2>1. ControllerType'
    BY <1>14 DEF Poll, ControllerType
  <2>2. RobotType'
    BY <1>14 DEF Poll, RobotType
  <2>3. HistoryType'
    BY <1>14, RecordedType DEF Poll, HistoryType, Operations
  <2>4. \A step \in {"stopState", "waitReturn"} : step \in Steps /\ Fits(op[c], step)
    BY DEF Steps, StopSteps, Fits
  <2>5. ThreadType' /\ OpOK'
    BY <1>14, <2>4, GotoType DEF Poll, ThreadType
  <2>6. QED
    BY <2>1, <2>2, <2>3, <2>5
<1>15. CASE WaitReturn(c)
  <2>1. ControllerType'
    BY <1>15 DEF WaitReturn, ControllerType
  <2>2. RobotType'
    BY <1>15 DEF WaitReturn, RobotType
  <2>3. HistoryType'
    BY <1>15, FailsType DEF WaitReturn, HistoryType
  <2>4. stale' \in [Actors -> SUBSET Joints]
    BY <1>15 DEF WaitReturn, ThreadType
  <2>5. ThreadType' /\ OpOK'
    BY <1>15, <2>4, ReturnType DEF WaitReturn, ControllerType
  <2>6. QED
    BY <2>1, <2>2, <2>3, <2>5
<1>16. CASE Join(c)
  <2>1. ControllerType'
    BY <1>16 DEF Join, ControllerType
  <2>2. RobotType'
    BY <1>16 DEF Join, RobotType
  <2>3. HistoryType'
    BY <1>16, FailsType DEF Join, HistoryType
  <2>4. ThreadType' /\ OpOK'
    BY <1>16 DEF Join, ThreadType, OpOK, Fits, Actors, Cmc, Stream, Steps, CmcSteps
  <2>5. QED
    BY <2>1, <2>2, <2>3, <2>4
<1>17. QED
  BY <1>1, <1>2, <1>3, <1>4, <1>5, <1>6, <1>7, <1>8, <1>9, <1>10, <1>11, <1>12, <1>13, <1>14, <1>15, <1>16 DEF ClientNext

\* A thread goes on to another step of stopControl.
LEMMA StopGotoType ==
  ASSUME ThreadType, OpOK, NEW t \in Actors, NEW step \in StopSteps,
         Goto(t, step), UNCHANGED locals, stale' \in [Actors -> SUBSET Joints]
  PROVE  ThreadType' /\ OpOK'
<1>1. ThreadType'
  BY ClientsAssumption DEF ThreadType, Actors, Cmc, Stream, Steps, CmcSteps
<1>2. OpOK'
  BY ClientsAssumption DEF OpOK, Fits, ThreadType, Actors, Cmc, Stream, StopSteps
<1>3. QED
  BY <1>1, <1>2

\* The periodic thread goes on.
LEMMA CmcGotoType ==
  ASSUME ThreadType, OpOK, NEW step \in CmcSteps, Goto(Cmc, step),
         UNCHANGED <<op, ret, streamed, stale>>, snap' \in States
  PROVE  ThreadType' /\ OpOK'
<1>1. ThreadType'
  BY ClientsAssumption DEF ThreadType, Actors, Cmc, Stream
<1>2. OpOK'
  BY ClientsAssumption DEF OpOK, ThreadType, Actors, Cmc, Stream
<1>3. QED
  BY <1>1, <1>2

\* The command port goes on.
LEMMA StreamGotoType ==
  ASSUME ThreadType, OpOK, NEW step \in StreamSteps, Goto(Stream, step),
         UNCHANGED <<op, ret, snap, stale>>, streamed' \in Presets \union {"none"},
         step # "idle" => streamed' \in Presets
  PROVE  ThreadType' /\ OpOK'
<1>1. ThreadType'
  BY ClientsAssumption DEF ThreadType, Actors, Cmc, Stream
<1>2. OpOK'
  BY ClientsAssumption DEF OpOK, ThreadType, Actors, Cmc, Stream
<1>3. QED
  BY <1>1, <1>2

\* Every step of stopControl, for whichever thread runs it.
LEMMA StopType ==
  ASSUME TypeInv, NEW t \in Actors, StopNext(t)
  PROVE  TypeInv'
<1> USE DEF TypeInv, TypeOK
<1>1. CASE StopState(t)
  <2>1. ControllerType'
    BY <1>1 DEF StopState, ControllerType, States, NC
  <2>2. RobotType'
    BY <1>1 DEF StopState, RobotType
  <2>3. HistoryType'
    BY <1>1, FailsType DEF StopState, HistoryType
  <2>4. ThreadType' /\ OpOK'
    BY <1>1, StopGotoType DEF StopState, ThreadType, StopSteps
  <2>5. QED
    BY <2>1, <2>2, <2>3, <2>4
<1>2. CASE StopRead(t)
  <2>1. ControllerType'
    BY <1>2 DEF StopRead, ControllerType
  <2>2. RobotType'
    BY <1>2 DEF StopRead, RobotType
  <2>3. HistoryType'
    BY <1>2, FailsType DEF StopRead, HistoryType
  <2>4. stale' \in [Actors -> SUBSET Joints]
    BY <1>2 DEF StopRead, ThreadType, Others
  <2>5. ThreadType' /\ OpOK'
    BY <1>2, <2>4, StopGotoType DEF StopRead, StopSteps
  <2>6. QED
    BY <2>1, <2>2, <2>3, <2>5
<1>3. CASE StopWrite(t)
  <2>1. ControllerType'
    BY <1>3 DEF StopWrite, ControllerType
  <2>2. RobotType'
    <3>1. PICK J \in SUBSET Joints : SwitchModes(J, "POSITION")
      BY <1>3 DEF StopWrite, ThreadType
    <3>2. QED
      BY <3>1 DEF SwitchModes, RobotType, ControlModes
  <2>3. HistoryType'
    BY <1>3, FailsType DEF StopWrite, HistoryType
  <2>4. stale' \in [Actors -> SUBSET Joints]
    BY <1>3 DEF StopWrite, ThreadType
  <2>5. ThreadType' /\ OpOK'
    BY <1>3, <2>4, StopGotoType DEF StopWrite, StopSteps
  <2>6. QED
    BY <2>1, <2>2, <2>3, <2>5
<1>4. CASE StopMotion(t)
  <2>1. ControllerType'
    BY <1>4 DEF StopMotion, ControllerType
  <2>2. RobotType'
    BY <1>4, SomeDriven DEF StopMotion, RobotType, Drive, Within
  <2>3. HistoryType'
    BY <1>4, FailsType DEF StopMotion, HistoryType
  <2>4. ThreadType' /\ OpOK'
    BY <1>4, StopGotoType DEF StopMotion, ThreadType, StopSteps
  <2>5. QED
    BY <2>1, <2>2, <2>3, <2>4
<1>5. CASE StopClear(t)
  <2>1. ControllerType'
    BY <1>5 DEF StopClear, ControllerType
  <2>2. RobotType'
    BY <1>5 DEF StopClear, RobotType
  <2>3. HistoryType'
    BY <1>5, FailsType DEF StopClear, HistoryType
  <2>4. stale' \in [Actors -> SUBSET Joints]
    BY <1>5 DEF StopClear, ThreadType
  <2>5. CASE t = Cmc
    <3>1. Goto(Cmc, "idle") /\ snap' = NC /\ UNCHANGED <<op, ret, streamed, stale>>
      BY <1>5, <2>5 DEF StopClear
    <3>2. "idle" \in CmcSteps /\ NC \in States
      BY DEF CmcSteps, States
    <3>3. QED
      BY <2>1, <2>2, <2>3, <3>1, <3>2, CmcGotoType
  <2>6. CASE t # Cmc
    <3>1. t \in Clients
      BY <2>6 DEF Actors
    <3>2. \A step \in {"waitReturn", "join"} : step \in Steps /\ Fits(op[t], step)
      BY DEF Steps, Fits
    <3>3. CASE Return(t, TRUE)
      BY <2>1, <2>2, <2>3, <2>4, <3>1, <3>3, ReturnType
    <3>4. CASE (Goto(t, "waitReturn") \/ Goto(t, "join")) /\ UNCHANGED locals
      BY <2>1, <2>2, <2>3, <2>4, <3>1, <3>2, <3>4, GotoType
    <3>5. QED
      BY <1>5, <2>6, <3>3, <3>4 DEF StopClear
  <2>7. QED
    BY <2>1, <2>2, <2>3, <2>5, <2>6
<1>6. QED
  BY <1>1, <1>2, <1>3, <1>4, <1>5 DEF StopNext

\* Every step of run() and of its handlers.
LEMMA CmcType ==
  ASSUME TypeInv, CmcNext
  PROVE  TypeInv'
<1> USE DEF TypeInv, TypeOK
<1>1. CASE Tick
  <2>1. ControllerType'
    BY <1>1 DEF Tick, ControllerType
  <2>2. RobotType'
    BY <1>1 DEF Tick, RobotType
  <2>3. HistoryType'
    BY <1>1, FailsType DEF Tick, HistoryType
  <2>4. ThreadType' /\ OpOK'
    BY <1>1, CmcGotoType
    DEF Tick, Then, EndTick, ThreadType, ControllerType, CmcSteps, StopSteps, States
  <2>5. QED
    BY <2>1, <2>2, <2>3, <2>4
<1>2. CASE CheckLimits
  <2>1. ControllerType'
    BY <1>2 DEF CheckLimits, ControllerType
  <2>2. RobotType'
    BY <1>2 DEF CheckLimits, RobotType
  <2>3. HistoryType'
    BY <1>2, FailsType DEF CheckLimits, HistoryType
  <2>4. ThreadType' /\ OpOK'
    BY <1>2, CmcGotoType
    DEF CheckLimits, Then, EndTick, ThreadType, CmcSteps, StopSteps, States
  <2>5. QED
    BY <2>1, <2>2, <2>3, <2>4
<1>3. CASE Abort
  <2>1. ControllerType'
    BY <1>3 DEF Abort, ControllerType
  <2>2. RobotType'
    BY <1>3 DEF Abort, RobotType
  <2>3. HistoryType'
    BY <1>3, FailsType DEF Abort, HistoryType
  <2>4. ThreadType' /\ OpOK'
    BY <1>3, CmcGotoType
    DEF Abort, Then, EndTick, ThreadType, CmcSteps, StopSteps, States
  <2>5. QED
    BY <2>1, <2>2, <2>3, <2>4
<1>4. CASE CheckModes
  <2>1. ControllerType'
    BY <1>4 DEF CheckModes, ControllerType
  <2>2. RobotType'
    BY <1>4 DEF CheckModes, RobotType
  <2>3. HistoryType'
    BY <1>4, FailsType DEF CheckModes, HistoryType
  <2>4. Handler(snap) \in CmcSteps
    BY Zenon DEF Handler, CmcSteps
  <2>5. {"stopState", "abort"} \subseteq CmcSteps
    BY DEF CmcSteps, StopSteps
  <2>6. ThreadType' /\ OpOK'
    BY <1>4, <2>4, <2>5, CmcGotoType DEF CheckModes, Then, ThreadType
  <2>7. QED
    BY <2>1, <2>2, <2>3, <2>6
<1>5. CASE MotionDone
  <2>1. ControllerType'
    BY <1>5 DEF MotionDone, ControllerType
  <2>2. RobotType'
    BY <1>5 DEF MotionDone, RobotType
  <2>3. HistoryType'
    BY <1>5, FailsType DEF MotionDone, HistoryType
  <2>4. ThreadType' /\ OpOK'
    BY <1>5, CmcGotoType
    DEF MotionDone, Then, EndTick, ThreadType, CmcSteps, StopSteps, States
  <2>5. QED
    BY <2>1, <2>2, <2>3, <2>4
<1>6. CASE Finish
  <2>1. ControllerType'
    BY <1>6 DEF Finish, ControllerType, States, NC
  <2>2. RobotType'
    BY <1>6 DEF Finish, RobotType
  <2>3. HistoryType'
    BY <1>6, FailsType DEF Finish, HistoryType
  <2>4. ThreadType' /\ OpOK'
    BY <1>6, CmcGotoType
    DEF Finish, Then, EndTick, ThreadType, CmcSteps, StopSteps, States
  <2>5. QED
    BY <2>1, <2>2, <2>3, <2>4
<1>7. CASE RestoreSpeeds
  <2>1. ControllerType'
    BY <1>7 DEF RestoreSpeeds, ControllerType
  <2>2. RobotType'
    BY <1>7 DEF RestoreSpeeds, SpeedsFail, RobotType, ControllerType, Speeds
  <2>3. HistoryType'
    BY <1>7, FailsType DEF RestoreSpeeds, HistoryType
  <2>4. ThreadType' /\ OpOK'
    BY <1>7, CmcGotoType
    DEF RestoreSpeeds, Then, EndTick, ThreadType, CmcSteps, StopSteps, States
  <2>5. QED
    BY <2>1, <2>2, <2>3, <2>4
<1>8. CASE Iterate
  <2>1. ControllerType'
    BY <1>8 DEF Iterate, ControllerType
  <2>2. RobotType'
    BY <1>8 DEF Iterate, RobotType
  <2>3. HistoryType'
    BY <1>8, FailsType DEF Iterate, HistoryType
  <2>4. ASSUME UNCHANGED <<pc, locals>>
        PROVE  ThreadType' /\ OpOK'
    BY <1>8, <2>4 DEF Iterate, ThreadType, OpOK
  <2>5. ASSUME NEW step \in {"idle", "stopState", "velocityMove", "abort"}, Goto(Cmc, step),
               UNCHANGED <<op, ret, streamed>>, snap' \in {snap, NC}
        PROVE  ThreadType' /\ OpOK'
    BY <1>8, <2>5, CmcGotoType DEF Iterate, ThreadType, CmcSteps, StopSteps, States
  <2>6. ThreadType' /\ OpOK'
    BY <1>8, <2>4, <2>5, Zenon DEF Iterate, Then, EndTick
  <2>7. QED
    BY <2>1, <2>2, <2>3, <2>6
<1>9. CASE SendVelocities
  <2>1. ControllerType'
    BY <1>9 DEF SendVelocities, ControllerType
  <2>2. RobotType'
    BY <1>9, SomeDriven DEF SendVelocities, RobotType, Drive, Within
  <2>3. HistoryType'
    BY <1>9, FailsType DEF SendVelocities, HistoryType
  <2>4. ThreadType' /\ OpOK'
    BY <1>9, CmcGotoType
    DEF SendVelocities, Then, EndTick, ThreadType, CmcSteps, StopSteps, States
  <2>5. QED
    BY <2>1, <2>2, <2>3, <2>4
<1>10. CASE SendTorques
  <2>1. ControllerType'
    BY <1>10 DEF SendTorques, ControllerType
  <2>2. RobotType'
    BY <1>10, SomeDriven DEF SendTorques, RobotType, Drive, Within
  <2>3. HistoryType'
    BY <1>10, FailsType DEF SendTorques, HistoryType
  <2>4. ThreadType' /\ OpOK'
    BY <1>10, CmcGotoType
    DEF SendTorques, Then, EndTick, ThreadType, CmcSteps, StopSteps, States
  <2>5. QED
    BY <2>1, <2>2, <2>3, <2>4
<1>11. QED
  BY <1>1, <1>2, <1>3, <1>4, <1>5, <1>6, <1>7, <1>8, <1>9, <1>10 DEF CmcNext

\* Every step of twist, pose and movi.
LEMMA StreamType ==
  ASSUME TypeInv, StreamNext
  PROVE  TypeInv'
<1> USE DEF TypeInv, TypeOK
<1>1. CASE StreamCall
  <2>1. ControllerType'
    BY <1>1 DEF StreamCall, ControllerType
  <2>2. RobotType'
    BY <1>1 DEF StreamCall, RobotType
  <2>3. HistoryType'
    BY <1>1, FailsType DEF StreamCall, HistoryType
  <2>4. ThreadType' /\ OpOK'
    BY <1>1, StreamGotoType DEF StreamCall, Passed, Dropped, ThreadType, StreamSteps
  <2>5. QED
    BY <2>1, <2>2, <2>3, <2>4
<1>2. CASE StreamCommand
  <2>1. ControllerType'
    BY <1>2 DEF StreamCommand, ControllerType
  <2>2. RobotType'
    BY <1>2 DEF StreamCommand, RobotType
  <2>3. HistoryType'
    BY <1>2, FailsType DEF StreamCommand, HistoryType
  <2>4. ThreadType' /\ OpOK'
    BY <1>2, StreamGotoType DEF StreamCommand, Passed, Dropped, ThreadType, StreamSteps
  <2>5. QED
    BY <2>1, <2>2, <2>3, <2>4
<1>3. CASE StreamModes
  <2>1. ControllerType'
    BY <1>3 DEF StreamModes, ControllerType
  <2>2. RobotType'
    BY <1>3 DEF StreamModes, RobotType
  <2>3. HistoryType'
    BY <1>3, FailsType DEF StreamModes, HistoryType
  <2>4. ThreadType' /\ OpOK'
    BY <1>3, StreamGotoType DEF StreamModes, Passed, Dropped, ThreadType, StreamSteps
  <2>5. QED
    BY <2>1, <2>2, <2>3, <2>4
<1>4. CASE StreamMove
  <2>1. ControllerType'
    BY <1>4 DEF StreamMove, ControllerType
  <2>2. RobotType'
    BY <1>4, SomeDriven DEF StreamMove, RobotType, Drive, Within
  <2>3. HistoryType'
    BY <1>4, FailsType DEF StreamMove, HistoryType
  <2>4. ThreadType' /\ OpOK'
    BY <1>4, StreamGotoType DEF StreamMove, Passed, Dropped, ThreadType, StreamSteps
  <2>5. QED
    BY <2>1, <2>2, <2>3, <2>4
<1>5. QED
  BY <1>1, <1>2, <1>3, <1>4 DEF StreamNext

\* Joints arrive or are taken over, time passes.
LEMMA EnvironmentType ==
  ASSUME TypeInv, Environment
  PROVE  TypeInv'
<1> USE FaultsAssumption
    DEF TypeInv, TypeOK, ControllerType, RobotType, ThreadType, HistoryType, OpOK
<1>1. CASE Elapse
  BY <1>1 DEF Elapse
<1>2. ASSUME NEW j \in Joints, Arrive(j)
      PROVE  TypeInv'
  BY <1>2 DEF Arrive
<1>3. ASSUME NEW j \in Joints, ModeLost(j)
      PROVE  TypeInv'
  BY <1>3 DEF ModeLost
<1>4. QED
  BY <1>1, <1>2, <1>3 DEF Environment

\* Nothing happens.
LEMMA TypeStutter ==
  ASSUME TypeInv, UNCHANGED vars
  PROVE  TypeInv'
BY DEF TypeInv, TypeOK, ControllerType, RobotType, ThreadType, HistoryType, OpOK, vars

\* TypeInv is inductive.
LEMMA TypeStep == TypeInv /\ [Next]_vars => TypeInv'
BY CallsType, ClientType, StopType, CmcType, StreamType, EnvironmentType, TypeStutter
DEF Next

\* Type correctness of the controller object, of its threads and of the robot
\* registers, for any number of clients and joints: run() only ever dispatches
\* on a movement, and the command port only on a streaming command.
THEOREM TypeCorrect == Spec => []TypeOK
<1>1. TypeInv => TypeOK
  BY DEF TypeInv
<1>2. QED
  BY <1>1, TypeInit, TypeStep, PTL DEF Spec

-----------------------------------------------------------------------------
(* A stop stops: the inductive invariant behind SafeStop.                  *)

\* Only joints in a mode that the controller commands are ever driven.
DrivenManaged == \A j \in driven : mode[j] # Unmanaged

\* The last call that changed anything was a stop with no other client busy,
\* and no device call of that stop has failed.
Stopped == latest.op \in {"stop", "close"} /\ latest.alone /\ ~latest.failed

AtRest(j) == mode[j] \in {"POSITION", Unmanaged}

\* How far the stop of client b has come.
StopPosition(b) ==
  /\ \A d \in Clients \ {b} : pc[d] \in {"idle", "waitCheck"}
  /\ pc[b] \in StopSteps \union {"idle", "waitCheck", "waitReturn", "join", "closed"}
  /\ pc[b] \in StopSteps => Alone(b)

StateReleased(b) ==
  pc[b] # "stopState" => currentState = NC /\ streamingCommand = "NOT_SET"

ModesRestored(b) ==
  /\ pc[b] = "stopWrite" => \A j \in Joints \ stale[b] : AtRest(j)
  /\ pc[b] \notin {"stopState", "stopRead", "stopWrite"} => \A j \in Joints : AtRest(j)

MotionCeased(b) == pc[b] \notin StopSteps \ {"stopClear"} => driven = {}

Progress(b) == StopPosition(b) /\ StateReleased(b) /\ ModesRestored(b) /\ MotionCeased(b)

StopProgress == Stopped => latest.by \in Clients /\ Progress(latest.by)

StopInv == TypeInv /\ DrivenManaged /\ StopProgress

\* Switching modes stops the joints that switch.
LEMMA SwitchManaged ==
  ASSUME RobotType, DrivenManaged, NEW J \in SUBSET Joints, NEW m \in ControlModes,
         SwitchModes(J, m)
  PROVE  DrivenManaged'
BY DEF RobotType, DrivenManaged, SwitchModes, ControlModes, Unmanaged

\* A set-point only drives joints of a commanded mode.
LEMMA DriveManaged ==
  ASSUME RobotType, DrivenManaged, NEW m \in ControlModes, NEW moves \in BOOLEAN,
         NEW J \in SUBSET Within(m), Drive(J, moves), UNCHANGED mode
  PROVE  DrivenManaged'
BY DEF RobotType, DrivenManaged, Drive, Within, ControlModes, Unmanaged

\* DrivenManaged is inductive, given TypeInv.
LEMMA ManagedStep == TypeInv /\ DrivenManaged /\ [Next]_vars => DrivenManaged'
<1> SUFFICES ASSUME TypeInv, DrivenManaged, [Next]_vars
             PROVE  DrivenManaged'
  OBVIOUS
<1> USE DEF TypeInv, TypeOK
<1>1. ASSUME UNCHANGED <<mode, driven>>
      PROVE  DrivenManaged'
  BY <1>1 DEF DrivenManaged
<1>2. ASSUME NEW c \in Clients, Calls(c)
      PROVE  DrivenManaged'
  BY <1>1, <1>2 DEF Calls, CallMovj, CallTrajectory, CallTorque, CallStop, CallWait,
                    CallSetParameter, CallClose, Call
<1>3. ASSUME NEW c \in Clients, ClientNext(c)
      PROVE  DrivenManaged'
  <2>1. CASE WriteModes(c)
    <3>1. PICK J \in SUBSET Joints : SwitchModes(J, ModeOf(op[c]))
      BY <2>1 DEF WriteModes, ThreadType, Actors
    <3>2. QED
      BY <3>1, SwitchManaged, ModeOfControls
  <2>2. CASE PositionMove(c)
    BY <2>2 DEF PositionMove, DrivenManaged, RobotType, Within, Others, Unmanaged
  <2>3. CASE ~WriteModes(c) /\ ~PositionMove(c)
    BY <1>1, <1>3, <2>3
    DEF ClientNext, GetRefSpeeds, SetRefSpeeds, ReadModes, ClearTrajectories,
        BuildTrajectories, Arm, Engage, SetFrame, Preset, Enable, WaitCheck, Poll,
        WaitReturn, Join
  <2>4. QED
    BY <2>1, <2>2, <2>3
<1>4. ASSUME NEW t \in Actors, StopNext(t)
      PROVE  DrivenManaged'
  <2>1. CASE StopWrite(t)
    <3>1. PICK J \in SUBSET Joints : SwitchModes(J, "POSITION")
      BY <2>1 DEF StopWrite, ThreadType
    <3>2. QED
      BY <3>1, SwitchManaged DEF ControlModes
  <2>2. CASE StopMotion(t)
    BY <2>2, DriveManaged, SomeDriven DEF StopMotion, ControlModes
  <2>3. CASE StopState(t) \/ StopRead(t) \/ StopClear(t)
    BY <1>1, <2>3 DEF StopState, StopRead, StopClear
  <2>4. QED
    BY <1>4, <2>1, <2>2, <2>3 DEF StopNext
<1>5. ASSUME CmcNext
      PROVE  DrivenManaged'
  <2>1. CASE SendVelocities
    BY <2>1, DriveManaged, SomeDriven DEF SendVelocities, ControlModes
  <2>2. CASE SendTorques
    BY <2>2, DriveManaged, SomeDriven DEF SendTorques, ControlModes
  <2>3. CASE ~SendVelocities /\ ~SendTorques
    BY <1>1, <1>5, <2>3
    DEF CmcNext, Tick, CheckLimits, Abort, CheckModes, MotionDone, Finish,
        RestoreSpeeds, Iterate
  <2>4. QED
    BY <2>1, <2>2, <2>3
<1>6. ASSUME StreamNext
      PROVE  DrivenManaged'
  <2>1. CASE StreamMove
    BY <2>1, DriveManaged, SomeDriven, ModeOfControls DEF StreamMove, ControlModes
  <2>2. CASE StreamCall \/ StreamCommand \/ StreamModes
    BY <1>1, <2>2 DEF StreamCall, StreamCommand, StreamModes
  <2>3. QED
    BY <1>6, <2>1, <2>2 DEF StreamNext
<1>7. ASSUME Environment
      PROVE  DrivenManaged'
  BY <1>7 DEF Environment, Elapse, Arrive, ModeLost, DrivenManaged, RobotType
<1>8. CASE UNCHANGED vars
  BY <1>1, <1>8 DEF vars
<1>9. QED
  BY <1>2, <1>3, <1>4, <1>5, <1>6, <1>7, <1>8 DEF Next

\* A step of another thread that neither sets a state nor moves a joint at rest
\* does not undo what a stop has achieved.
LEMMA ElsewhereProgress ==
  ASSUME ThreadType, NEW b \in Clients, Progress(b),
         \A d \in Clients : pc'[d] = pc[d],
         stale'[b] = stale[b],
         UNCHANGED control \/ (currentState' = NC /\ streamingCommand' = "NOT_SET"),
         \A j \in Joints : AtRest(j) => AtRest(j)',
         (\A j \in Joints : AtRest(j)) /\ driven = {} => driven' = {}
  PROVE  Progress(b)'
<1>1. StopPosition(b)'
  BY DEF Progress, StopPosition, Alone
<1>2. StateReleased(b)'
  BY DEF Progress, StateReleased
<1>3. ModesRestored(b)'
  BY DEF Progress, ModesRestored
<1>4. MotionCeased(b)'
  <2>1. SUFFICES ASSUME pc[b] \notin StopSteps \ {"stopClear"}
                 PROVE  driven' = {}
    BY DEF MotionCeased
  <2>2. QED
    BY <2>1 DEF Progress, MotionCeased, ModesRestored, StopSteps
<1>5. QED
  BY <1>1, <1>2, <1>3, <1>4 DEF Progress

\* No set-point reaches joints at rest, save those of position mode.
LEMMA DriveAtRest ==
  ASSUME RobotType, NEW m \in ControlModes, NEW moves \in BOOLEAN,
         NEW J \in SUBSET Within(m), Drive(J, moves),
         m = "POSITION" => ~moves, \A j \in Joints : AtRest(j), driven = {}
  PROVE  driven' = {}
BY DEF RobotType, Drive, Within, AtRest, ControlModes, Unmanaged

\* run() and its handlers, whatever snapshot of the state they work on.
LEMMA CmcProgress ==
  ASSUME TypeInv, NEW b \in Clients, Progress(b), CmcNext
  PROVE  Progress(b)'
<1> USE DEF TypeInv, TypeOK
<1>1. (\A d \in Clients : pc'[d] = pc[d]) /\ stale'[b] = stale[b] /\ UNCHANGED mode
  BY ClientsAssumption
  DEF CmcNext, Tick, CheckLimits, Abort, CheckModes, MotionDone, Finish, RestoreSpeeds,
      Iterate, SendVelocities, SendTorques, Then, EndTick, ThreadType, Cmc, Actors, Stream
<1>2. UNCHANGED control \/ (currentState' = NC /\ streamingCommand' = "NOT_SET")
  BY DEF CmcNext, Tick, CheckLimits, Abort, CheckModes, MotionDone, Finish, RestoreSpeeds,
         Iterate, SendVelocities, SendTorques
<1>3. \A j \in Joints : AtRest(j) => AtRest(j)'
  BY <1>1 DEF AtRest
<1>4. (\A j \in Joints : AtRest(j)) /\ driven = {} => driven' = {}
  <2>1. CASE SendVelocities
    BY <2>1, DriveAtRest, SomeDriven DEF ControlModes
  <2>2. CASE SendTorques
    BY <2>2, DriveAtRest, SomeDriven DEF ControlModes
  <2>3. CASE ~SendVelocities /\ ~SendTorques
    BY <2>3
    DEF CmcNext, Tick, CheckLimits, Abort, CheckModes, MotionDone, Finish,
        RestoreSpeeds, Iterate
  <2>4. QED
    BY <2>1, <2>2, <2>3
<1>5. QED
  BY <1>1, <1>2, <1>3, <1>4, ElsewhereProgress

\* A streaming command that was accepted before the stop and acts after it.
LEMMA StreamProgress ==
  ASSUME TypeInv, NEW b \in Clients, Progress(b), StreamNext
  PROVE  Progress(b)'
<1> USE DEF TypeInv, TypeOK
<1>1. (\A d \in Clients : pc'[d] = pc[d]) /\ stale'[b] = stale[b] /\ UNCHANGED <<mode, control>>
  BY ClientsAssumption
  DEF StreamNext, StreamCall, StreamCommand, StreamModes, StreamMove, Passed, Dropped,
      ThreadType, Cmc, Actors, Stream
<1>2. \A j \in Joints : AtRest(j) => AtRest(j)'
  BY <1>1 DEF AtRest
<1>3. (\A j \in Joints : AtRest(j)) /\ driven = {} => driven' = {}
  <2>1. CASE StreamMove
    <3>1. streamed \in Presets => ModeOf(streamed) # "POSITION"
      BY Zenon DEF ModeOf, Presets
    <3>2. streamed \in Presets
      BY <2>1, ClientsAssumption DEF StreamMove, ThreadType
    <3>3. QED
      BY <2>1, <3>1, <3>2, DriveAtRest, SomeDriven, ModeOfControls DEF ControlModes
  <2>2. CASE StreamCall \/ StreamCommand \/ StreamModes
    BY <2>2 DEF StreamCall, StreamCommand, StreamModes
  <2>3. QED
    BY <2>1, <2>2 DEF StreamNext
<1>4. QED
  BY <1>1, <1>2, <1>3, ElsewhereProgress

\* Joints arrive or are taken over, time passes.
LEMMA EnvironmentProgress ==
  ASSUME TypeInv, NEW b \in Clients, Progress(b), Environment
  PROVE  Progress(b)'
<1> USE DEF TypeInv, TypeOK
<1>1. UNCHANGED <<pc, stale, control>>
  BY DEF Environment, Elapse, Arrive, ModeLost
<1>2. \A j \in Joints : AtRest(j) => AtRest(j)'
  BY DEF Environment, Elapse, Arrive, ModeLost, AtRest, RobotType
<1>3. driven = {} => driven' = {}
  BY DEF Environment, Elapse, Arrive, ModeLost
<1>4. QED
  BY <1>1, <1>2, <1>3, ElsewhereProgress

\* The periodic thread runs stopControl as well.
LEMMA CmcStopProgress ==
  ASSUME TypeInv, NEW b \in Clients, Progress(b), StopNext(Cmc)
  PROVE  Progress(b)'
<1> USE DEF TypeInv, TypeOK
<1>1. (\A d \in Clients : pc'[d] = pc[d]) /\ stale'[b] = stale[b]
  BY ClientsAssumption
  DEF StopNext, StopState, StopRead, StopWrite, StopMotion, StopClear, ThreadType, Cmc,
      Actors, Stream
<1>2. UNCHANGED control \/ (currentState' = NC /\ streamingCommand' = "NOT_SET")
  BY DEF StopNext, StopState, StopRead, StopWrite, StopMotion, StopClear
<1>3. \A j \in Joints : AtRest(j) => AtRest(j)'
  BY DEF StopNext, StopState, StopRead, StopWrite, StopMotion, StopClear, SwitchModes,
         AtRest, RobotType
<1>4. driven = {} => driven' = {}
  BY SomeDriven DEF StopNext, StopState, StopRead, StopWrite, StopClear, SwitchModes, Drive
<1>5. QED
  BY <1>1, <1>2, <1>3, <1>4, ElsewhereProgress

\* A stop that is over stays over while its client waits, joins or is idle.
LEMMA DoneProgress ==
  ASSUME ThreadType, NEW b \in Clients, Progress(b), pc[b] \notin StopSteps,
         pc'[b] \in {"idle", "waitCheck", "waitReturn", "join", "closed"},
         \A d \in Clients \ {b} : pc'[d] \in {"idle", "waitCheck"},
         UNCHANGED <<control, mode, driven>>
  PROVE  Progress(b)'
<1>1. pc[b] \notin {"stopState", "stopRead", "stopWrite"}
  BY DEF StopSteps
<1>2. pc'[b] \notin StopSteps /\ pc'[b] # "stopWrite"
  BY DEF StopSteps
<1>3. StopPosition(b)'
  BY <1>2 DEF StopPosition
<1>4. StateReleased(b)' /\ ModesRestored(b)' /\ MotionCeased(b)'
  BY <1>1, <1>2 DEF Progress, StateReleased, ModesRestored, MotionCeased, AtRest
<1>5. QED
  BY <1>3, <1>4 DEF Progress

\* A stop begins with no other client busy.
LEMMA FreshProgress ==
  ASSUME ThreadType, NEW c \in Clients, Alone(c), Goto(c, "stopState")
  PROVE  Progress(c)'
BY DEF Progress, StopPosition, StateReleased, ModesRestored, MotionCeased, Alone,
       ThreadType, Actors, StopSteps

\* Each step of the stop itself, unless a device call of it fails.
LEMMA OwnProgress ==
  ASSUME TypeInv, DrivenManaged, NEW b \in Clients, Progress(b), StopNext(b), ~Fails(b)
  PROVE  Progress(b)'
<1> USE DEF TypeInv, TypeOK
<1>1. \A d \in Clients \ {b} : pc[d] = "idle" /\ pc'[d] = "idle"
  <2>1. pc[b] \in StopSteps
    BY DEF StopNext, StopState, StopRead, StopWrite, StopMotion, StopClear, StopSteps
  <2>2. \A d \in Clients \ {b} : pc'[d] = pc[d]
    BY ClientsAssumption
    DEF StopNext, StopState, StopRead, StopWrite, StopMotion, StopClear, ThreadType, Actors, Cmc
  <2>3. QED
    BY <2>1, <2>2 DEF Progress, StopPosition, Alone
<1>2. ASSUME NEW step \in StopSteps, pc'[b] = step
      PROVE  StopPosition(b)'
  BY <1>1, <1>2 DEF StopPosition, Alone
<1>3. b # Cmc /\ b \in Actors
  BY ClientsAssumption DEF Cmc, Actors
<1>4. CASE StopState(b)
  <2>1. pc'[b] = "stopRead" /\ currentState' = NC /\ streamingCommand' = "NOT_SET"
    BY <1>3, <1>4 DEF StopState, ThreadType
  <2>2. QED
    BY <1>2, <2>1 DEF Progress, StateReleased, ModesRestored, MotionCeased, StopSteps
<1>5. CASE StopRead(b)
  <2>1. pc[b] = "stopRead" /\ pc'[b] = "stopWrite" /\ stale'[b] = Others("POSITION")
        /\ UNCHANGED <<control, mode>>
    BY <1>3, <1>5 DEF StopRead, ThreadType
  <2>2. \A j \in Joints \ stale'[b] : AtRest(j)'
    BY <2>1 DEF Others, Within, AtRest
  <2>3. QED
    BY <1>2, <2>1, <2>2 DEF Progress, StateReleased, ModesRestored, MotionCeased, StopSteps
<1>6. CASE StopWrite(b)
  <2>1. pc[b] = "stopWrite" /\ pc'[b] = "stopMotion" /\ UNCHANGED control
        /\ SwitchModes(stale[b], "POSITION")
    BY <1>3, <1>6 DEF StopWrite, ThreadType
  <2>2. \A j \in Joints : AtRest(j)'
    BY <2>1 DEF Progress, ModesRestored, SwitchModes, AtRest
  <2>3. QED
    BY <1>2, <2>1, <2>2 DEF Progress, StateReleased, ModesRestored, MotionCeased, StopSteps
<1>7. CASE StopMotion(b)
  <2>1. pc[b] = "stopMotion" /\ pc'[b] = "stopClear" /\ UNCHANGED <<control, mode>>
        /\ Drive(Within("POSITION"), FALSE)
    BY <1>3, <1>7 DEF StopMotion, ThreadType
  <2>2. \A j \in Joints : AtRest(j)
    BY <2>1 DEF Progress, ModesRestored
  <2>3. \A j \in Joints : AtRest(j)'
    BY <2>1, <2>2 DEF AtRest
  <2>4. driven' = {}
    BY <2>1, <2>2 DEF Drive, Within, AtRest, DrivenManaged, RobotType
  <2>5. QED
    BY <1>2, <2>1, <2>3, <2>4
    DEF Progress, StateReleased, ModesRestored, MotionCeased, StopSteps
<1>8. CASE StopClear(b)
  <2>1. pc[b] = "stopClear" /\ pc'[b] \in {"idle", "waitReturn", "join"}
        /\ UNCHANGED <<control, mode, driven>>
    BY <1>3, <1>8 DEF StopClear, ThreadType
  <2>2. (\A j \in Joints : AtRest(j)) /\ driven = {} /\ currentState = NC
        /\ streamingCommand = "NOT_SET"
    BY <2>1 DEF Progress, StateReleased, ModesRestored, MotionCeased, StopSteps
  <2>3. \A j \in Joints : AtRest(j)'
    BY <2>1, <2>2 DEF AtRest
  <2>4. StopPosition(b)'
    BY <1>1, <2>1 DEF StopPosition, StopSteps
  <2>5. QED
    BY <2>1, <2>2, <2>3, <2>4
    DEF Progress, StateReleased, ModesRestored, MotionCeased, StopSteps
<1>9. QED
  BY <1>4, <1>5, <1>6, <1>7, <1>8 DEF StopNext

\* The steps that clients take outside stopControl while a stop lasts.
LEMMA ClientProgress ==
  ASSUME TypeInv, NEW b \in Clients, Progress(b), NEW c \in Clients, ClientNext(c)
  PROVE  Progress(b)'
<1> USE DEF TypeInv, TypeOK
<1>1. pc[c] \in {"waitCheck", "waitReturn", "join"} /\ (c # b => pc[c] = "waitCheck")
  BY DEF Progress, StopPosition, ClientNext, GetRefSpeeds, SetRefSpeeds, ReadModes,
         WriteModes, PositionMove, ClearTrajectories, BuildTrajectories, Arm, Engage,
         SetFrame, Preset, Enable, WaitCheck, Poll, WaitReturn, Join, StopSteps
<1>2. pc[b] \notin StopSteps
  BY <1>1 DEF Progress, StopPosition, Alone, StopSteps
<1>3. currentState \notin {"movj", "movl"}
  BY <1>2 DEF Progress, StateReleased, StopSteps, NC
<1>4. WaitCheck(c) \/ WaitReturn(c) \/ Join(c)
  BY <1>1
  DEF ClientNext, GetRefSpeeds, SetRefSpeeds, ReadModes,
      WriteModes, PositionMove, ClearTrajectories, BuildTrajectories, Arm, Engage,
      SetFrame, Preset, Enable, Poll
<1>5. /\ pc'[c] \in {"idle", "closed"}
      /\ c # b => pc'[c] = "idle"
      /\ \A d \in Clients \ {c} : pc'[d] = pc[d]
      /\ UNCHANGED <<control, mode, driven>>
  BY <1>1, <1>3, <1>4, ClientsAssumption
  DEF WaitCheck, WaitReturn, Join, ThreadType, Actors, Cmc
<1>6. pc'[b] \in {"idle", "waitCheck", "waitReturn", "join", "closed"}
      /\ \A d \in Clients \ {b} : pc'[d] \in {"idle", "waitCheck"}
  BY <1>2, <1>5 DEF Progress, StopPosition
<1>7. QED
  BY <1>2, <1>5, <1>6, DoneProgress

\* A wait that is called by a client alone.
LEMMA WaitProgress ==
  ASSUME TypeInv, NEW b \in Clients, Progress(b), NEW c \in Clients,
         NEW o, Call(c, o, "waitCheck"), Alone(c)
  PROVE  Progress(b)'
<1> USE DEF TypeInv, TypeOK
<1>1. pc[b] = "idle"
  BY DEF Call, Alone
<1>2. pc'[b] \in {"idle", "waitCheck"} /\ (\A d \in Clients \ {b} : pc'[d] \in {"idle", "waitCheck"})
      /\ UNCHANGED <<control, mode, driven>>
  BY <1>1 DEF Call, Progress, StopPosition, ThreadType
<1>3. QED
  BY <1>1, <1>2, DoneProgress DEF StopSteps

\* Steps that do not touch the history.
LEMMA StoppedSame ==
  ASSUME latest' = latest
  PROVE  Stopped' => Stopped
BY Zenon DEF Stopped

\* A device failure ends a stop only if it is one of its own.
LEMMA StoppedFails ==
  ASSUME HistoryType, NEW t, Fails(t), Stopped'
  PROVE  Stopped /\ latest'.by = latest.by /\ t # latest.by
<1>1. t # latest.by
  <2>1. SUFFICES ASSUME t = latest.by PROVE FALSE
    OBVIOUS
  <2>2. latest'.failed
    BY <2>1, Zenon DEF Fails, HistoryType
  <2>3. QED
    BY <2>2, Zenon DEF Stopped
<1>2. latest' = latest
  BY <1>1, Zenon DEF Fails
<1>3. QED
  BY <1>1, <1>2, StoppedSame

\* A call that is recorded begins a stop only if it is one, and alone.
LEMMA StoppedRecorded ==
  ASSUME NEW c, NEW o, Recorded(c, o)
  PROVE  latest'.by = c /\ (Stopped' => o \in {"stop", "close"} /\ Alone(c))
BY Zenon DEF Recorded, Stopped

\* StopProgress is preserved by every step.
LEMMA StopProgressStep == StopInv /\ [Next]_vars => StopProgress'
<1> SUFFICES ASSUME StopInv, [Next]_vars, Stopped'
             PROVE  latest'.by \in Clients /\ Progress(latest.by)'
  BY DEF StopProgress
<1> USE DEF StopInv, TypeInv, TypeOK
<1>1. ASSUME Stopped, latest'.by = latest.by,
             \A b \in Clients : Progress(b) /\ b = latest.by => Progress(b)'
      PROVE  latest'.by \in Clients /\ Progress(latest.by)'
  <2>1. latest.by \in Clients /\ Progress(latest.by)
    BY <1>1 DEF StopProgress
  <2>2. PICK b \in Clients : b = latest.by /\ Progress(b)
    BY <2>1
  <2>3. Progress(b)'
    BY <1>1, <2>2
  <2>4. b = latest'.by
    BY <1>1, <2>2
  <2>5. QED
    BY <2>3, <2>4
<1>2. ASSUME NEW c \in Clients, NEW o, Recorded(c, o), Goto(c, "stopState")
      PROVE  latest'.by \in Clients /\ Progress(latest.by)'
  <2>1. latest'.by = c /\ Alone(c)
    BY <1>2, StoppedRecorded
  <2>2. Progress(c)'
    BY <1>2, <2>1, FreshProgress
  <2>3. QED
    BY <2>1, <2>2
<1>3. ASSUME NEW c \in Clients, Calls(c)
      PROVE  latest'.by \in Clients /\ Progress(latest.by)'
  <2>1. CASE CallStop(c) \/ CallClose(c)
    BY <1>2, <2>1 DEF CallStop, CallClose, Call
  <2>2. ASSUME NEW o \in {"wait", "waitTimeout"}, CallWait(c, o)
        PROVE  latest'.by \in Clients /\ Progress(latest.by)'
    <3>1. Alone(c)
      BY <2>2, Zenon DEF CallWait, Stopped, HistoryType
    <3>2. Stopped /\ latest'.by = latest.by
      BY <2>2, <3>1, StoppedSame, Zenon DEF CallWait
    <3>3. QED
      BY <1>1, <2>2, <3>1, <3>2, WaitProgress DEF CallWait
  <2>3. ASSUME NEW o \in Movements \union Presets \union {"frame", "unsupported"}, Recorded(c, o)
        PROVE  FALSE
    BY <2>3, StoppedRecorded DEF Movements, Presets
  <2>4. QED
    BY <1>3, <2>1, <2>2, <2>3
    DEF Calls, CallMovj, CallTrajectory, CallTorque, CallSetParameter, Movements
<1>4. ASSUME NEW c \in Clients, ClientNext(c)
      PROVE  latest'.by \in Clients /\ Progress(latest.by)'
  <2>1. CASE Recorded(c, "stop") /\ Goto(c, "stopState")
    BY <1>2, <2>1
  <2>2. CASE latest' = latest \/ Fails(c)
    BY <1>1, <1>4, <2>2, StoppedSame, StoppedFails, ClientProgress
  <2>3. QED
    BY <1>4, <2>1, <2>2
    DEF ClientNext, GetRefSpeeds, SetRefSpeeds, ReadModes, WriteModes, PositionMove,
        ClearTrajectories, BuildTrajectories, Arm, Engage, SetFrame, Preset, Enable,
        WaitCheck, Poll, WaitReturn, Join
<1>5. ASSUME NEW t \in Actors, StopNext(t)
      PROVE  latest'.by \in Clients /\ Progress(latest.by)'
  <2>1. latest' = latest \/ Fails(t)
    BY <1>5 DEF StopNext, StopState, StopRead, StopWrite, StopMotion, StopClear
  <2>2. Stopped /\ latest'.by = latest.by /\ (Fails(t) => t # latest.by)
    BY <2>1, StoppedSame, StoppedFails
  <2>3. ASSUME NEW b \in Clients, Progress(b), b = latest.by
        PROVE  Progress(b)'
    <3>1. CASE t = Cmc
      BY <1>5, <2>3, <3>1, CmcStopProgress
    <3>2. CASE t = b
      BY <1>5, <2>2, <2>3, <3>2, OwnProgress
    <3>3. CASE t \in Clients \ {b}
      BY <1>5, <2>3, <3>3
      DEF Progress, StopPosition, StopNext, StopState, StopRead, StopWrite, StopMotion, StopClear
    <3>4. QED
      BY <3>1, <3>2, <3>3 DEF Actors
  <2>4. QED
    BY <1>1, <2>2, <2>3
<1>6. ASSUME CmcNext
      PROVE  latest'.by \in Clients /\ Progress(latest.by)'
  <2>1. latest' = latest \/ Fails(Cmc)
    BY <1>6
    DEF CmcNext, Tick, CheckLimits, Abort, CheckModes, MotionDone, Finish, RestoreSpeeds,
        Iterate, SendVelocities, SendTorques
  <2>2. QED
    BY <1>1, <1>6, <2>1, StoppedSame, StoppedFails, CmcProgress
<1>7. ASSUME StreamNext
      PROVE  latest'.by \in Clients /\ Progress(latest.by)'
  <2>1. latest' = latest \/ Fails(Stream)
    BY <1>7 DEF StreamNext, StreamCall, StreamCommand, StreamModes, StreamMove
  <2>2. QED
    BY <1>1, <1>7, <2>1, StoppedSame, StoppedFails, StreamProgress
<1>8. ASSUME Environment
      PROVE  latest'.by \in Clients /\ Progress(latest.by)'
  <2>1. latest' = latest
    BY <1>8 DEF Environment, Elapse, Arrive, ModeLost
  <2>2. QED
    BY <1>1, <1>8, <2>1, StoppedSame, EnvironmentProgress
<1>9. CASE UNCHANGED vars
  BY <1>9 DEF vars, StopProgress, Stopped, Progress, StopPosition, StateReleased,
              ModesRestored, MotionCeased, AtRest, Alone
<1>10. QED
  BY <1>3, <1>4, <1>5, <1>6, <1>7, <1>8, <1>9 DEF Next

\* Nothing has been stopped at first.
LEMMA StopInit == Init => StopInv
<1>1. Init => DrivenManaged
  BY DEF Init, DrivenManaged
<1>2. ASSUME Init
      PROVE  ~latest.alone
  <2>1. latest = [by |-> "none", op |-> "none", alone |-> FALSE, free |-> FALSE,
                  clean |-> FALSE, failed |-> FALSE, speeds |-> "user"]
    BY <1>2, Zenon DEF Init
  <2>2. QED
    BY <2>1, Zenon
<1>3. QED
  BY <1>1, <1>2, TypeInit DEF StopInv, StopProgress, Stopped

\* StopInv is inductive.
LEMMA StopStep == StopInv /\ [Next]_vars => StopInv'
BY TypeStep, ManagedStep, StopProgressStep DEF StopInv

\* stopControl halts the robot, for any number of clients and joints: after a
\* stop during which no other client was busy and no device call of its own
\* failed, nothing is in control, no streaming command is accepted, no joint is
\* driven and none is left in a mode it could be driven in, whatever the
\* periodic thread and the command port were doing and do next.
THEOREM StopIsSafe == Spec => []SafeStop
<1>1. StopInv => SafeStop
  <2>1. SUFFICES ASSUME StopInv, Stopped, pc[latest.by] \notin StopSteps
                 PROVE  /\ currentState = NC
                        /\ streamingCommand = "NOT_SET"
                        /\ driven = {}
                        /\ \A j \in Joints : mode[j] \in {"POSITION", Unmanaged}
    BY Zenon DEF SafeStop, Stopped
  <2>2. Progress(latest.by)
    BY <2>1 DEF StopInv, StopProgress
  <2>3. QED
    BY <2>1, <2>2 DEF Progress, StateReleased, ModesRestored, MotionCeased, AtRest, StopSteps
<1>2. QED
  BY <1>1, StopInit, StopStep, PTL DEF Spec

-----------------------------------------------------------------------------
(* Calls that never overlap: the inductive invariant behind                *)
(* StreamingNeedsIdle and the parameters of the contract.                  *)

\* Client c is between the state check of setParameter and its return.
Setting(c) ==
  \/ pc[c] \in {"setFrame", "preset", "enable"}
  \/ pc[c] \in {"readModes", "writeModes"} /\ op[c] \in Presets

Serial ==
  ~overlapped =>
    /\ \A c \in Clients : pc[c] # "idle" => Alone(c)
    /\ streamingCommand # "NOT_SET" => currentState = NC
    /\ \A c \in Clients : Setting(c) => currentState = NC

SerialInv == TypeInv /\ Serial

\* The periodic thread and the command port only ever release the state.
LEMMA ReleaseSerial ==
  ASSUME Serial, UNCHANGED overlapped, \A d \in Clients : pc'[d] = pc[d] /\ op'[d] = op[d],
         UNCHANGED control \/ (currentState' = NC /\ streamingCommand' = "NOT_SET")
  PROVE  Serial'
<1> SUFFICES ASSUME ~overlapped'
             PROVE  /\ \A c \in Clients : pc'[c] # "idle" => Alone(c)'
                    /\ streamingCommand' # "NOT_SET" => currentState' = NC
                    /\ \A c \in Clients : Setting(c)' => currentState' = NC
  BY DEF Serial
<1>1. ~overlapped
  OBVIOUS
<1>2. QED
  BY <1>1 DEF Serial, Setting, Alone

\* A step of the only busy client.
LEMMA OwnSerial ==
  ASSUME Serial, NEW c \in Clients, UNCHANGED overlapped, pc[c] # "idle",
         \A d \in Clients \ {c} : pc'[d] = pc[d],
         Alone(c) /\ (streamingCommand # "NOT_SET" => currentState = NC)
           /\ (Setting(c) => currentState = NC)
         => /\ streamingCommand' # "NOT_SET" => currentState' = NC
            /\ Setting(c)' => currentState' = NC
  PROVE  Serial'
<1> SUFFICES ASSUME ~overlapped'
             PROVE  /\ \A d \in Clients : pc'[d] # "idle" => Alone(d)'
                    /\ streamingCommand' # "NOT_SET" => currentState' = NC
                    /\ \A d \in Clients : Setting(d)' => currentState' = NC
  BY DEF Serial
<1>1. ~overlapped
  OBVIOUS
<1>2. Alone(c) /\ (streamingCommand # "NOT_SET" => currentState = NC)
        /\ (Setting(c) => currentState = NC)
  BY <1>1 DEF Serial
<1>3. \A d \in Clients \ {c} : pc'[d] = "idle"
  BY <1>2 DEF Alone
<1>4. \A d \in Clients : pc'[d] # "idle" => Alone(d)'
  BY <1>3 DEF Alone
<1>5. \A d \in Clients \ {c} : ~Setting(d)'
  BY <1>3 DEF Setting
<1>6. QED
  BY <1>2, <1>4, <1>5

\* A call that begins, or a wait that times out.
LEMMA FreshSerial ==
  ASSUME ThreadType, Serial, NEW c \in Clients, NEW step \in Steps, Goto(c, step),
         overlapped' = (overlapped \/ ~Alone(c)),
         step \in {"setFrame", "preset"} => currentState = NC,
         step \notin {"enable", "writeModes"},
         step = "readModes" => op'[c] \notin Presets,
         UNCHANGED control
  PROVE  Serial'
<1> SUFFICES ASSUME ~overlapped'
             PROVE  /\ \A d \in Clients : pc'[d] # "idle" => Alone(d)'
                    /\ streamingCommand' # "NOT_SET" => currentState' = NC
                    /\ \A d \in Clients : Setting(d)' => currentState' = NC
  BY DEF Serial
<1>1. ~overlapped /\ Alone(c)
  BY Zenon
<1>2. pc'[c] = step /\ \A d \in Clients \ {c} : pc'[d] = "idle"
  BY <1>1 DEF Alone, ThreadType, Actors
<1>3. \A d \in Clients : pc'[d] # "idle" => Alone(d)'
  BY <1>2 DEF Alone
<1>4. \A d \in Clients : Setting(d)' => currentState = NC
  BY <1>2 DEF Setting
<1>5. QED
  BY <1>1, <1>3, <1>4 DEF Serial

\* Every step of a call in progress, stopControl excepted.
LEMMA ClientSerial ==
  ASSUME TypeInv, Serial, NEW c \in Clients, ClientNext(c)
  PROVE  Serial'
<1> USE DEF TypeInv, TypeOK
<1>1. CASE Poll(c) /\ Recorded(c, "stop") /\ Goto(c, "stopState")
  BY <1>1, FreshSerial DEF Poll, Recorded, Steps, StopSteps
<1>2. CASE UNCHANGED history \/ Fails(c)
  <2>1. UNCHANGED overlapped
    BY <1>2 DEF Fails
  <2>2. pc[c] # "idle" /\ \A d \in Clients \ {c} : pc'[d] = pc[d]
    BY ClientsAssumption
    DEF ClientNext, GetRefSpeeds, SetRefSpeeds, ReadModes, WriteModes, PositionMove,
        ClearTrajectories, BuildTrajectories, Arm, Engage, SetFrame, Preset, Enable,
        WaitCheck, Poll, WaitReturn, Join, ThreadType, Actors, Cmc
  <2>3. ASSUME streamingCommand # "NOT_SET" => currentState = NC,
               Setting(c) => currentState = NC
        PROVE  /\ streamingCommand' # "NOT_SET" => currentState' = NC
               /\ Setting(c)' => currentState' = NC
    <3>1. CASE pc'[c] \in {"idle", "setRefSpeeds", "positionMove", "build", "arm", "engage",
                         "poll", "waitReturn", "stopState", "closed"}
               /\ UNCHANGED control
      BY <2>3, <3>1 DEF Setting
    <3>2. CASE GetRefSpeeds(c) \/ WaitCheck(c) \/ Poll(c) \/ WaitReturn(c) \/ Join(c)
      BY <3>1, <3>2, ClientsAssumption
      DEF GetRefSpeeds, WaitCheck, Poll, WaitReturn, Join, ThreadType, Actors, Cmc
    <3>3. CASE PositionMove(c) \/ ClearTrajectories(c) \/ Arm(c) \/ SetFrame(c)
      BY <3>1, <3>3
      DEF PositionMove, ClearTrajectories, Arm, SetFrame, ThreadType, Actors
    <3>4. CASE SetRefSpeeds(c) \/ BuildTrajectories(c)
      <4>1. op[c] \notin Presets
        BY <3>4 DEF SetRefSpeeds, BuildTrajectories, OpOK, Fits, Presets
      <4>2. UNCHANGED control /\ pc'[c] \in {"idle", "readModes"}
            /\ (op'[c] = op[c] \/ pc'[c] = "idle")
        BY <3>4 DEF SetRefSpeeds, BuildTrajectories, ThreadType, Actors
      <4>3. QED
        BY <2>3, <4>1, <4>2 DEF Setting
    <3>5. CASE ReadModes(c)
      <4>1. UNCHANGED control /\ pc[c] = "readModes" /\ pc'[c] \in {"idle", "writeModes"}
            /\ (op'[c] = op[c] \/ pc'[c] = "idle")
        BY <3>5 DEF ReadModes, ThreadType, Actors
      <4>2. QED
        BY <2>3, <4>1 DEF Setting
    <3>6. CASE WriteModes(c)
      <4>1. UNCHANGED control /\ pc[c] = "writeModes" /\ op[c] \in Movements \union Presets
            /\ pc'[c] \in {"idle", AfterModes(op[c])}
        BY <3>6 DEF WriteModes, ThreadType, Actors, OpOK, Fits
      <4>2. op[c] \in Movements => AfterModes(op[c]) \in {"positionMove", "arm", "engage"}
        BY AfterModesSteps DEF Movements
      <4>3. op[c] \in Presets => currentState = NC
        BY <2>3, <4>1 DEF Setting
      <4>4. QED
        BY <2>3, <3>1, <4>1, <4>2, <4>3
    <3>7. CASE Engage(c) \/ Preset(c)
      BY <3>7 DEF Engage, Preset, Setting, ThreadType, Actors
    <3>8. CASE Enable(c)
      BY <2>3, <3>8 DEF Enable, Setting, ThreadType, Actors
    <3>9. QED
      BY <3>2, <3>3, <3>4, <3>5, <3>6, <3>7, <3>8 DEF ClientNext
  <2>4. QED
    BY <2>1, <2>2, <2>3, OwnSerial
<1>3. QED
  BY <1>1, <1>2
  DEF ClientNext, GetRefSpeeds, SetRefSpeeds, ReadModes, WriteModes, PositionMove,
      ClearTrajectories, BuildTrajectories, Arm, Engage, SetFrame, Preset, Enable,
      WaitCheck, Poll, WaitReturn, Join, Works

\* Every call that a client can issue.
LEMMA CallsSerial ==
  ASSUME TypeInv, Serial, NEW c \in Clients, Calls(c)
  PROVE  Serial'
<1> USE DEF TypeInv, TypeOK
<1>1. ASSUME NEW o, NEW step \in {"getRefSpeeds", "clear", "readModes", "stopState", "waitCheck",
                                "setFrame", "preset"},
             Call(c, o, step), overlapped' = (overlapped \/ ~Alone(c)),
             step \in {"setFrame", "preset"} => currentState = NC,
             step = "readModes" => o \notin Presets
      PROVE  Serial'
  BY <1>1, FreshSerial DEF Call, ThreadType, Steps, StopSteps
<1>2. CASE CallMovj(c) \/ CallStop(c) \/ CallClose(c)
  BY <1>1, <1>2 DEF CallMovj, CallStop, CallClose, Recorded
<1>3. ASSUME NEW o \in {"movl", "movv"}, CallTrajectory(c, o)
      PROVE  Serial'
  BY <1>1, <1>3 DEF CallTrajectory, Recorded
<1>4. ASSUME NEW o \in {"gcmp", "forc"}, CallTorque(c, o)
      PROVE  Serial'
  BY <1>1, <1>4 DEF CallTorque, Recorded, Presets
<1>5. ASSUME NEW o \in {"wait", "waitTimeout"}, CallWait(c, o)
      PROVE  Serial'
  <2>1. overlapped' = (overlapped \/ ~Alone(c)) /\ Call(c, o, "waitCheck")
    BY <1>5, Zenon DEF CallWait
  <2>2. QED
    BY <1>1, <2>1
<1>6. ASSUME NEW o \in Presets \union {"frame", "unsupported"}, CallSetParameter(c, o)
      PROVE  Serial'
  BY <1>1, <1>6 DEF CallSetParameter, Recorded
<1>7. QED
  BY <1>2, <1>3, <1>4, <1>5, <1>6 DEF Calls

\* stopControl, wherever it is called from.
LEMMA StopSerial ==
  ASSUME TypeInv, Serial, NEW t \in Actors, StopNext(t)
  PROVE  Serial'
<1> USE DEF TypeInv, TypeOK
<1>1. UNCHANGED overlapped
  BY DEF StopNext, StopState, StopRead, StopWrite, StopMotion, StopClear, Fails
<1>2. UNCHANGED control \/ (currentState' = NC /\ streamingCommand' = "NOT_SET")
  BY DEF StopNext, StopState, StopRead, StopWrite, StopMotion, StopClear
<1>3. CASE t = Cmc
  <2>1. \A d \in Clients : pc'[d] = pc[d] /\ op'[d] = op[d]
    BY <1>3, ClientsAssumption
    DEF StopNext, StopState, StopRead, StopWrite, StopMotion, StopClear, ThreadType,
        Actors, Cmc
  <2>2. QED
    BY <1>1, <1>2, <2>1, ReleaseSerial
<1>4. CASE t \in Clients
  <2>1. pc[t] # "idle" /\ pc'[t] \in StopSteps \union {"idle", "waitReturn", "join"}
        /\ \A d \in Clients \ {t} : pc'[d] = pc[d]
    BY <1>4, ClientsAssumption
    DEF StopNext, StopState, StopRead, StopWrite, StopMotion, StopClear, ThreadType,
        Actors, Cmc, StopSteps
  <2>2. ~Setting(t)'
    BY <2>1 DEF Setting, StopSteps
  <2>3. QED
    BY <1>1, <1>2, <1>4, <2>1, <2>2, OwnSerial
<1>5. QED
  BY <1>3, <1>4 DEF Actors

\* No client is busy at first.
LEMMA SerialInit == Init => SerialInv
<1>1. Init => Serial
  BY DEF Init, Serial, Setting, Actors
<1>2. QED
  BY <1>1, TypeInit DEF SerialInv

\* SerialInv is inductive.
LEMMA SerialStep == SerialInv /\ [Next]_vars => SerialInv'
<1> SUFFICES ASSUME SerialInv, [Next]_vars
             PROVE  Serial'
  BY TypeStep DEF SerialInv
<1> USE DEF SerialInv, TypeInv, TypeOK
<1>1. CASE CmcNext
  <2>1. UNCHANGED overlapped
    BY <1>1
    DEF CmcNext, Tick, CheckLimits, Abort, CheckModes, MotionDone, Finish, RestoreSpeeds,
        Iterate, SendVelocities, SendTorques, Fails
  <2>2. \A d \in Clients : pc'[d] = pc[d] /\ op'[d] = op[d]
    BY <1>1, ClientsAssumption
    DEF CmcNext, Tick, CheckLimits, Abort, CheckModes, MotionDone, Finish, RestoreSpeeds,
        Iterate, SendVelocities, SendTorques, Then, EndTick, ThreadType, Actors, Cmc
  <2>3. UNCHANGED control \/ (currentState' = NC /\ streamingCommand' = "NOT_SET")
    BY <1>1
    DEF CmcNext, Tick, CheckLimits, Abort, CheckModes, MotionDone, Finish, RestoreSpeeds,
        Iterate, SendVelocities, SendTorques
  <2>4. QED
    BY <2>1, <2>2, <2>3, ReleaseSerial
<1>2. CASE StreamNext
  <2>1. UNCHANGED <<overlapped, control>>
    BY <1>2 DEF StreamNext, StreamCall, StreamCommand, StreamModes, StreamMove, Fails
  <2>2. \A d \in Clients : pc'[d] = pc[d] /\ op'[d] = op[d]
    BY <1>2, ClientsAssumption
    DEF StreamNext, StreamCall, StreamCommand, StreamModes, StreamMove, Passed, Dropped,
        ThreadType, Actors, Stream
  <2>3. QED
    BY <2>1, <2>2, ReleaseSerial
<1>3. CASE Environment \/ UNCHANGED vars
  BY <1>3, ReleaseSerial DEF Environment, Elapse, Arrive, ModeLost, vars
<1>4. QED
  BY <1>1, <1>2, <1>3, CallsSerial, ClientSerial, StopSerial DEF Next

\* As long as calls of two clients never overlap, twist, pose and movi are only
\* ever accepted with nothing in control: presetting a streaming command and
\* engaging a movement exclude each other, although streamingCommand is written
\* without the mutex, and although the periodic thread runs in between.
THEOREM StreamingIsExclusive == Spec => []StreamingNeedsIdle
<1>1. SerialInv => StreamingNeedsIdle
  BY DEF SerialInv, Serial, StreamingNeedsIdle
<1>2. QED
  BY <1>1, SerialInit, SerialStep, PTL DEF Spec

-----------------------------------------------------------------------------
(* What comes of a call that begins cleanly, with no other client busy,    *)
(* nothing in control and the periodic thread at rest, whatever the        *)
(* operations; and that the Cartesian controller implements the contract   *)
(* of its interface, as long as no streaming command is preset: a client   *)
(* that stops next to somebody who streams is promised nothing.            *)

(* Which operation is in which step, and what the periodic thread works on. *)

OpFits(o, step) ==
  /\ step = "idle" <=> o = "none"
  /\ step \in StopSteps => o \in {"stop", "waitTimeout", "close"}
  /\ step \in {"waitCheck", "poll", "waitReturn"} => o \in {"wait", "waitTimeout"}
  /\ step = "setFrame" => o = "frame"
  /\ step = "preset" => o \in Presets \union {"unsupported"}
  /\ step \in {"join", "closed"} => o = "close"

SnapFits(s, step) ==
  /\ step \in {"iterate", "velocityMove"} => s \in {"movl", "movv"}
  /\ step \in {"motionDone", "finish"} => s = "movj"
  /\ step = "torque" => s \in {"gcmp", "forc"}
  /\ step \in {"limits", "checkModes"} => s \in Movements

Places == (\A c \in Clients : OpFits(op[c], pc[c])) /\ SnapFits(snap, pc[Cmc])

LEMMA HandlerSteps ==
  /\ Handler("movj") = "motionDone"
  /\ \A s \in {"movl", "movv"} : Handler(s) = "iterate"
  /\ \A s \in {"gcmp", "forc"} : Handler(s) = "torque"
<1>1. Handler("movj") = "motionDone"
  BY Zenon DEF Handler
<1>2. \A s \in {"movl", "movv"} : Handler(s) = "iterate"
  BY Zenon DEF Handler
<1>3. \A s \in {"gcmp", "forc"} : Handler(s) = "torque"
  BY Zenon DEF Handler
<1>4. QED
  BY <1>1, <1>2, <1>3

LEMMA PlacesInit == Init => Places
BY DEF Init, Places, OpFits, SnapFits, StopSteps, Actors

\* A step of client c that leaves the periodic thread alone.
LEMMA OnePlace ==
  ASSUME ThreadType, Places, NEW c \in Clients,
         \A d \in Clients \ {c} : pc'[d] = pc[d] /\ op'[d] = op[d],
         pc'[Cmc] = pc[Cmc] \/ pc'[Cmc] = "closed",
         snap' = snap, OpFits(op'[c], pc'[c])
  PROVE  Places'
BY DEF Places, SnapFits

LEMMA CallPlaces ==
  ASSUME ThreadType, Places, NEW c \in Clients, NEW o \in Operations, NEW step, Call(c, o, step),
         step # "idle", OpFits(o, step)
  PROVE  Places'
<1>1. pc'[c] = step /\ op'[c] = o /\ pc'[Cmc] = pc[Cmc] /\ snap' = snap
  BY ClientsAssumption DEF Call, ThreadType, Actors, Cmc
<1>2. \A d \in Clients \ {c} : pc'[d] = pc[d] /\ op'[d] = op[d]
  BY DEF Call, ThreadType, Actors
<1>3. QED
  BY <1>1, <1>2, OnePlace

LEMMA CallsPlaces == ASSUME TypeInv, Places, NEW c \in Clients, Calls(c) PROVE Places'
<1> USE OpsAssumption DEF TypeInv, TypeOK, OpFits, StopSteps, Operations, Movements, Presets
<1>1. CASE CallMovj(c)
  BY <1>1, CallPlaces DEF CallMovj
<1>2. ASSUME NEW o \in {"movl", "movv"}, CallTrajectory(c, o) PROVE Places'
  BY <1>2, CallPlaces DEF CallTrajectory
<1>3. ASSUME NEW o \in {"gcmp", "forc"}, CallTorque(c, o) PROVE Places'
  BY <1>3, CallPlaces DEF CallTorque
<1>4. CASE CallStop(c)
  BY <1>4, CallPlaces DEF CallStop
<1>5. ASSUME NEW o \in {"wait", "waitTimeout"}, CallWait(c, o) PROVE Places'
  BY <1>5, CallPlaces DEF CallWait
<1>6. ASSUME NEW o \in Presets \union {"frame", "unsupported"}, CallSetParameter(c, o) PROVE Places'
  BY <1>6, CallPlaces DEF CallSetParameter
<1>7. CASE CallClose(c)
  BY <1>7, CallPlaces DEF CallClose
<1>8. QED
  BY <1>1, <1>2, <1>3, <1>4, <1>5, <1>6, <1>7 DEF Calls

LEMMA GotoPlaces ==
  ASSUME ThreadType, Places, NEW c \in Clients, NEW step, Goto(c, step), UNCHANGED locals, OpFits(op[c], step)
  PROVE  Places'
<1>1. pc'[c] = step /\ pc'[Cmc] = pc[Cmc] /\ \A d \in Clients \ {c} : pc'[d] = pc[d]
  BY ClientsAssumption DEF ThreadType, Actors, Cmc
<1>2. QED
  BY <1>1, OnePlace

LEMMA ReturnPlaces ==
  ASSUME ThreadType, Places, NEW c \in Clients, NEW r, Return(c, r)
  PROVE  Places'
<1>1. /\ pc'[c] = "idle" /\ op'[c] = "none" /\ pc'[Cmc] = pc[Cmc] /\ snap' = snap
      /\ \A d \in Clients \ {c} : pc'[d] = pc[d] /\ op'[d] = op[d]
  BY ClientsAssumption DEF ThreadType, Actors, Cmc
<1>2. OpFits("none", "idle")
  BY DEF OpFits, StopSteps
<1>3. QED
  BY <1>1, <1>2, OnePlace

\* The operations of steps that lead to no call of stopControl and to no wait.
LEMMA MovingSteps ==
  \A step \in {"setRefSpeeds", "readModes", "writeModes", "positionMove", "build", "arm", "engage", "enable"} :
    \A o : o # "none" => OpFits(o, step)
BY DEF OpFits, StopSteps

LEMMA ClientPlaces == ASSUME TypeInv, Places, NEW c \in Clients, ClientNext(c) PROVE Places'
<1> USE DEF TypeInv, TypeOK
<1>1. OpFits(op[c], pc[c])
  BY DEF Places
<1>2. op[c] # "none"
  <2>1. pc[c] # "idle"
    BY DEF ClientNext, GetRefSpeeds, SetRefSpeeds, ReadModes, WriteModes, PositionMove, ClearTrajectories,
       BuildTrajectories, Arm, Engage, SetFrame, Preset, Enable, WaitCheck, Poll, WaitReturn, Join
  <2>2. QED
    BY <1>1, <2>1 DEF OpFits
<1>3. CASE GetRefSpeeds(c) \/ SetRefSpeeds(c) \/ ReadModes(c) \/ PositionMove(c) \/ ClearTrajectories(c)
           \/ BuildTrajectories(c) \/ Arm(c) \/ Engage(c) \/ SetFrame(c) \/ Preset(c) \/ Enable(c)
  <2>1. (\E r : Return(c, r)) \/ \E step \in {"setRefSpeeds", "readModes", "writeModes", "arm", "build", "engage"} :
          Goto(c, step) /\ UNCHANGED locals
    BY <1>3 DEF GetRefSpeeds, SetRefSpeeds, ReadModes, PositionMove, ClearTrajectories,
       BuildTrajectories, Arm, Engage, SetFrame, Preset, Enable
  <2>2. QED
    BY <1>2, <2>1, MovingSteps, GotoPlaces, ReturnPlaces
<1>4. CASE WriteModes(c)
  <2>1. (\E r : Return(c, r)) \/ (Goto(c, AfterModes(op[c])) /\ UNCHANGED locals)
    BY <1>4 DEF WriteModes
  <2>2. op[c] \in Movements \union Presets
    BY <1>4 DEF WriteModes, OpOK, Fits
  <2>3. AfterModes(op[c]) \in {"positionMove", "arm", "engage", "enable"}
    BY <2>2, AfterModesSteps DEF Movements
  <2>4. OpFits(op[c], AfterModes(op[c]))
    BY <1>2, <2>3, MovingSteps
  <2>5. QED
    BY <2>1, <2>4, GotoPlaces, ReturnPlaces
<1>5. CASE WaitCheck(c)
  <2>1. OpFits(op[c], "poll")
    BY <1>1, <1>5 DEF WaitCheck, OpFits, StopSteps
  <2>2. (\E r : Return(c, r)) \/ (Goto(c, "poll") /\ UNCHANGED locals)
    BY <1>5 DEF WaitCheck
  <2>3. QED
    BY <2>1, <2>2, GotoPlaces, ReturnPlaces
<1>6. CASE Poll(c)
  <2>1. \/ op[c] = "waitTimeout" /\ Goto(c, "stopState") /\ UNCHANGED locals
        \/ Goto(c, "waitReturn") /\ UNCHANGED locals
    BY <1>6 DEF Poll
  <2>2. OpFits(op[c], "waitReturn")
    BY <1>1, <1>6 DEF Poll, OpFits, StopSteps
  <2>3. op[c] = "waitTimeout" => OpFits(op[c], "stopState")
    BY DEF OpFits, StopSteps
  <2>4. QED
    BY <2>1, <2>2, <2>3, GotoPlaces
<1>7. CASE WaitReturn(c)
  BY <1>7, ReturnPlaces DEF WaitReturn
<1>8. CASE Join(c)
  <2>1. op[c] = "close"
    BY <1>1, <1>8 DEF Join, OpFits
  <2>2. OpFits("close", "closed")
    BY DEF OpFits, StopSteps
  <2>3. /\ pc'[c] = "closed" /\ pc'[Cmc] = "closed" /\ UNCHANGED <<op, snap>>
        /\ \A d \in Clients \ {c} : pc'[d] = pc[d]
    BY <1>8, ClientsAssumption DEF Join, ThreadType, Actors, Cmc
  <2>4. QED
    BY <2>1, <2>2, <2>3, OnePlace
<1>9. QED
  BY <1>3, <1>4, <1>5, <1>6, <1>7, <1>8 DEF ClientNext

LEMMA StopPlaces == ASSUME TypeInv, Places, NEW t \in Actors, StopNext(t) PROVE Places'
<1> USE DEF TypeInv, TypeOK
<1>1. CASE t = Cmc
  <2>1. /\ pc'[Cmc] \in StopSteps \union {"idle"}
        /\ op' = op /\ \A d \in Clients : pc'[d] = pc[d]
    BY <1>1, ClientsAssumption
    DEF StopNext, StopState, StopRead, StopWrite, StopMotion, StopClear, StopSteps, ThreadType, Actors, Cmc
  <2>2. SnapFits(snap', pc'[Cmc])
    BY <2>1 DEF SnapFits, StopSteps
  <2>3. QED
    BY <2>1, <2>2 DEF Places
<1>2. CASE t \in Clients
  <2>1. OpFits(op[t], pc[t])
    BY <1>2 DEF Places
  <2>2. CASE StopClear(t)
    <3>1. t # Cmc
      BY <1>2, ClientsAssumption DEF Cmc
    <3>2. \/ Return(t, TRUE)
          \/ op[t] = "waitTimeout" /\ Goto(t, "waitReturn") /\ UNCHANGED locals
          \/ op[t] = "close" /\ Goto(t, "join") /\ UNCHANGED locals
      BY <2>2, <3>1 DEF StopClear
    <3>3. OpFits("waitTimeout", "waitReturn") /\ OpFits("close", "join")
      BY DEF OpFits, StopSteps
    <3>4. QED
      BY <1>2, <3>2, <3>3, GotoPlaces, ReturnPlaces
  <2>3. CASE StopState(t) \/ StopRead(t) \/ StopWrite(t) \/ StopMotion(t)
    <3>1. pc[t] \in StopSteps /\ UNCHANGED locals
          /\ \E step \in {"stopRead", "stopWrite", "stopMotion", "stopClear"} : Goto(t, step)
      BY <2>3 DEF StopState, StopRead, StopWrite, StopMotion, StopSteps
    <3>2. \A step \in StopSteps : OpFits(op[t], step)
      BY <2>1, <3>1 DEF OpFits, StopSteps
    <3>3. QED
      BY <1>2, <3>1, <3>2, GotoPlaces DEF StopSteps
  <2>4. QED
    BY <2>2, <2>3 DEF StopNext
<1>3. QED
  BY <1>1, <1>2 DEF Actors

LEMMA CmcPlaces == ASSUME TypeInv, Places, CmcNext PROVE Places'
<1> USE DEF TypeInv, TypeOK
<1>1. op' = op /\ \A d \in Clients : pc'[d] = pc[d]
  BY ClientsAssumption
  DEF CmcNext, Tick, CheckLimits, Abort, CheckModes, MotionDone, Finish, RestoreSpeeds, Iterate,
      SendVelocities, SendTorques, Then, EndTick, ThreadType, Cmc, Actors
<1>2. SnapFits(snap, pc[Cmc])
  BY DEF Places
<1>3. SnapFits(snap', pc'[Cmc])
  <2>1. CASE Tick
    BY <2>1 DEF Tick, SnapFits, ThreadType, ControllerType, States, Actors, Cmc
  <2>2. CASE CheckModes
    <3>1. snap' = snap /\ snap \in Movements
      BY <1>2, <2>2 DEF CheckModes, Then, SnapFits
    <3>2. pc'[Cmc] \in {Handler(snap), "stopState", "abort"}
      BY <2>2 DEF CheckModes, Then, ThreadType, Actors
    <3>3. QED
      BY <3>1, <3>2, HandlerSteps DEF SnapFits, Movements
  <2>3. CASE CheckLimits \/ Abort \/ MotionDone \/ Finish \/ RestoreSpeeds \/ Iterate \/ SendVelocities \/ SendTorques
    BY <1>2, <2>3
    DEF CheckLimits, Abort, MotionDone, Finish, RestoreSpeeds, Iterate, SendVelocities, SendTorques, Then,
        EndTick, ThreadType, Cmc, Actors, SnapFits
  <2>4. QED
    BY <2>1, <2>2, <2>3 DEF CmcNext
<1>4. QED
  BY <1>1, <1>3 DEF Places

LEMMA PlacesStep == TypeInv /\ Places /\ [Next]_vars => Places'
<1> SUFFICES ASSUME TypeInv, Places, [Next]_vars PROVE Places'
  OBVIOUS
<1> USE DEF TypeInv, TypeOK
<1>1. CASE StreamNext
  <2>1. /\ UNCHANGED <<op, snap>> /\ pc'[Cmc] = pc[Cmc]
        /\ \A d \in Clients : pc'[d] = pc[d]
    BY <1>1, ClientsAssumption
    DEF StreamNext, StreamCall, StreamCommand, StreamModes, StreamMove, Passed, Dropped, ThreadType, Cmc,
        Actors, Stream
  <2>2. QED
    BY <2>1 DEF Places
<1>2. CASE Environment \/ UNCHANGED vars
  BY <1>2 DEF Environment, Elapse, Arrive, ModeLost, vars, Places
<1>3. QED
  BY <1>1, <1>2, CallsPlaces, ClientPlaces, StopPlaces, CmcPlaces DEF Next

-----------------------------------------------------------------------------
(* The course of a call that began cleanly, until the next one is recorded. *)

\* Where clients are that change nothing.
WaitSteps == {"idle", "waitCheck", "poll", "waitReturn"}

\* Where run() is before it has released the state, and after.
Before == {"limits", "checkModes", "motionDone", "iterate", "velocityMove", "torque", "abort", "finish"}
After  == {"restore"} \union (StopSteps \ {"stopState"})

Underway(b)   == pc[b] \notin WaitSteps
Control(b, o) == ~Underway(b) /\ currentState = o

\* While client b is at it, nothing else is; then the periodic thread works on
\* the state that b engaged, or has released it, and the other clients wait.
Turn(b, o) ==
  /\ \A d \in Clients \ {b} : pc[d] \in WaitSteps
  /\ Underway(b) =>
       /\ Alone(b)
       /\ pc[Cmc] \in {"idle", "closed"}
       /\ currentState = NC
       /\ op[b] = o \/ (op[b] = "waitTimeout" /\ o = "stop")
  /\ ~Underway(b) =>
       /\ currentState \in {NC, o}
       /\ pc[Cmc] \in Before => currentState = o /\ snap = o
       /\ pc[Cmc] \in After => currentState = NC
       /\ \A d \in Clients : pc[d] = "waitReturn" => currentState = NC

\* The trajectories exist from their construction to the release of the state.
Made(b, o) ==
  (o \in {"movl", "movv"} /\ (pc[b] \in {"readModes", "writeModes", "arm", "engage"} \/ Control(b, o)))
  => trajectories = o

\* The joints are in the mode of the movement once they were switched.
InMode(b, o) ==
  o \in Movements =>
    /\ pc[b] = "writeModes" => Others(ModeOf(o)) \subseteq stale[b]
    /\ (pc[b] \in {"positionMove", "arm", "engage"} \/ Control(b, o)) => Others(ModeOf(o)) = {}

\* The reference speeds are stored, or restored.
Kept(b, o, v) ==
  o = "movj" =>
    /\ pc[b] = "getRefSpeeds" => refSpeeds = v
    /\ pc[b] # "getRefSpeeds" => vmoStored = v
    /\ (~Underway(b) /\ currentState = NC /\ cmcSuccess) => pc[Cmc] = "restore" \/ refSpeeds = v
    /\ (~Underway(b) /\ cmcSuccess) => pc[Cmc] \notin StopSteps

\* A movement is still on its way or at its end.
Completed(b, o) ==
  /\ o = "movl" =>
       ((~Underway(b) /\ cmcSuccess /\ (currentState = NC \/ pc[Cmc] = "stopState")) => elapsed)
  /\ (o = "movj" /\ Joints # {}) =>
       /\ (pc[b] \in {"arm", "engage"} \/ Control(b, o)) => atTarget \/ driven # {}
       /\ (~Underway(b) /\ pc[Cmc] = "finish") => atTarget
       /\ (~Underway(b) /\ cmcSuccess /\ currentState = NC) => atTarget

Well(b, o, v)   == InMode(b, o) /\ Kept(b, o, v) /\ Completed(b, o)
Course(b, o, v) == ~crashed /\ Turn(b, o) /\ Made(b, o) /\ (faults = MaxFaults => Well(b, o, v))

CleanInv == latest.clean => latest.by \in Clients /\ Course(latest.by, latest.op, latest.speeds)

\* After a failure only Turn and Made are claimed.
LEMMA FailedCourse ==
  ASSUME HistoryType, NEW t, Fails(t)
  PROVE  faults' # MaxFaults
BY FaultsAssumption DEF HistoryType, Fails

\* Stopping, closing and setting parameters leave nothing to be claimed but Turn.
LEMMA NoMovement ==
  ASSUME NEW b \in Clients, NEW o, NEW v, o \notin Movements
  PROVE  Made(b, o) /\ Well(b, o, v)
BY DEF Made, Well, InMode, Kept, Completed, Movements

\* Waiting neither disturbs the call nor is disturbed by it.
LEMMA WaitCourse ==
  ASSUME ThreadType, NEW b \in Clients, NEW o, NEW v, Course(b, o, v), NEW d \in Clients,
         ~Underway(b), pc[d] \in WaitSteps, pc'[d] \in WaitSteps,
         pc'[d] = "waitReturn" => currentState = NC \/ pc[d] = "waitReturn",
         \A e \in (Actors \union {Stream}) \ {d} : pc'[e] = pc[e],
         UNCHANGED <<control, cmcSuccess, motion, config, robot, snap, stale, crashed, faults>>
  PROVE  Course(b, o, v)'
<1>1. /\ pc'[Cmc] = pc[Cmc] /\ ~Underway(b)' /\ pc[b] \in WaitSteps /\ pc'[b] \in WaitSteps
      /\ \A e \in Clients \ {b} : pc'[e] = pc[e] \/ pc'[e] \in WaitSteps
  BY ClientsAssumption DEF Actors, Cmc, Underway
<1>2. Turn(b, o)'
  BY <1>1 DEF Course, Turn, Actors
<1>3. Made(b, o)'
  BY <1>1 DEF Course, Made, Control, WaitSteps
<1>4. Well(b, o, v) => Well(b, o, v)'
  <2>1. InMode(b, o) => InMode(b, o)'
    BY <1>1 DEF InMode, Control, WaitSteps, Others, Within
  <2>2. Kept(b, o, v) => Kept(b, o, v)'
    BY <1>1 DEF Kept, WaitSteps
  <2>3. Completed(b, o) => Completed(b, o)'
    BY <1>1 DEF Completed, Control, WaitSteps
  <2>4. QED
    BY <2>1, <2>2, <2>3 DEF Well
<1>5. QED
  BY <1>2, <1>3, <1>4 DEF Course

\* The client at work takes a step of its own.
LEMMA OwnTurn ==
  ASSUME ThreadType, NEW b \in Clients, NEW o, Turn(b, o), Underway(b),
         \A e \in Clients \ {b} : pc'[e] = pc[e],
         pc'[Cmc] \in {pc[Cmc], "closed"},
         currentState' = NC \/ (currentState' = o /\ pc'[b] = "idle"),
         pc'[b] \in WaitSteps \/ op'[b] = op[b]
  PROVE  Turn(b, o)'
<1>1. /\ pc'[Cmc] \in {"idle", "closed"} /\ \A e \in Clients \ {b} : pc'[e] = "idle"
      /\ op[b] = o \/ (op[b] = "waitTimeout" /\ o = "stop")
  BY DEF Turn, Alone
<1>2. QED
  BY <1>1 DEF Turn, Alone, Underway, Before, After, WaitSteps, StopSteps

LEMMA MovjMode == ModeOf("movj") = "POSITION"
BY Zenon DEF ModeOf

LEMMA OwnCourse ==
  ASSUME TypeInv, Places, NEW b \in Clients, NEW o, NEW v, Course(b, o, v), Underway(b), ClientNext(b)
  PROVE  Course(b, o, v)'
<1> USE DEF TypeInv, TypeOK
<1>1. /\ Turn(b, o) /\ Alone(b) /\ currentState = NC /\ ~crashed
      /\ op[b] = o \/ (op[b] = "waitTimeout" /\ o = "stop")
      /\ Made(b, o) /\ (faults = MaxFaults => Well(b, o, v))
      /\ pc[b] \notin WaitSteps
  BY DEF Course, Turn, Underway
<1>2. Fits(op[b], pc[b]) /\ OpFits(op[b], pc[b])
  BY DEF OpOK, Places
<1>3. /\ \A e \in Clients \ {b} : pc'[e] = pc[e]
      /\ pc'[Cmc] \in {pc[Cmc], "closed"}
      /\ UNCHANGED crashed
  BY ClientsAssumption DEF ClientNext, GetRefSpeeds, SetRefSpeeds, ReadModes, WriteModes, PositionMove,
     ClearTrajectories, BuildTrajectories, Arm, Engage, SetFrame, Preset, Enable, WaitCheck, Poll,
     WaitReturn, Join, ThreadType, Actors, Cmc
<1>4. CASE GetRefSpeeds(b)
  <2>1. o = "movj" /\ currentState' = currentState
    BY <1>1, <1>2, <1>4 DEF GetRefSpeeds, Fits
  <2>2. Turn(b, o)'
    BY <1>1, <1>3, <1>4, <2>1, OwnTurn DEF GetRefSpeeds, ThreadType, WaitSteps, Actors
  <2>3. Made(b, o)'
    BY <2>1 DEF Made
  <2>4. CASE Works /\ vmoStored' = refSpeeds /\ Goto(b, "setRefSpeeds")
    <3>1. pc'[b] = "setRefSpeeds" /\ faults' = faults
      BY <2>4 DEF ThreadType, Actors
    <3>2. Well(b, o, v) => Well(b, o, v)'
      BY <1>4, <2>1, <2>4, <3>1
      DEF GetRefSpeeds, Well, InMode, Kept, Completed, Control, Underway, WaitSteps
    <3>3. QED
      BY <1>1, <1>3, <2>2, <2>3, <3>1, <3>2 DEF Course
  <2>5. CASE Fails(b)
    BY <1>1, <1>3, <2>2, <2>3, <2>5, FailedCourse DEF Course
  <2>6. QED
    BY <1>4, <2>4, <2>5 DEF GetRefSpeeds
<1>5. CASE SetRefSpeeds(b)
  <2>1. o = "movj" /\ currentState' = currentState
    BY <1>1, <1>2, <1>5 DEF SetRefSpeeds, Fits
  <2>2. Turn(b, o)'
    BY <1>1, <1>3, <1>5, <2>1, OwnTurn DEF SetRefSpeeds, ThreadType, WaitSteps, Actors
  <2>3. Made(b, o)'
    BY <2>1 DEF Made
  <2>4. CASE Works /\ Goto(b, "readModes")
    <3>1. pc'[b] = "readModes" /\ faults' = faults /\ vmoStored' = vmoStored
      BY <1>5, <2>4 DEF SetRefSpeeds, ThreadType, Actors
    <3>2. Well(b, o, v) => Well(b, o, v)'
      BY <1>5, <2>1, <3>1
      DEF SetRefSpeeds, Well, InMode, Kept, Completed, Control, Underway, WaitSteps
    <3>3. QED
      BY <1>1, <1>3, <2>2, <2>3, <3>1, <3>2 DEF Course
  <2>5. CASE Fails(b)
    BY <1>1, <1>3, <2>2, <2>3, <2>5, FailedCourse DEF Course
  <2>6. QED
    BY <1>5, <2>4, <2>5 DEF SetRefSpeeds
<1>6. CASE ReadModes(b)
  <2>1. o = op[b] /\ currentState' = currentState
    BY <1>1, <1>2, <1>6 DEF ReadModes, Fits, Movements, Presets
  <2>2. Turn(b, o)'
    BY <1>1, <1>3, <1>6, <2>1, OwnTurn DEF ReadModes, ThreadType, WaitSteps, Actors
  <2>3. Made(b, o)'
    BY <1>1, <1>6, <2>1 DEF ReadModes, ThreadType, Actors, Made, Control, Underway, WaitSteps, NC
  <2>4. CASE Works /\ Goto(b, "writeModes") /\ stale' = [stale EXCEPT ![b] = Others(ModeOf(op[b]))]
    <3>1. /\ pc'[b] = "writeModes" /\ faults' = faults /\ Others(ModeOf(o))' \subseteq stale'[b]
          /\ vmoStored' = vmoStored
      <4>1. stale'[b] = Others(ModeOf(o))
        BY <2>1, <2>4 DEF ThreadType, Actors
      <4>2. Others(ModeOf(o))' = Others(ModeOf(o))
        BY <1>6 DEF ReadModes, Others, Within
      <4>3. QED
        BY <1>6, <2>4, <4>1, <4>2 DEF ReadModes, ThreadType, Actors
    <3>2. Well(b, o, v) => Well(b, o, v)'
      BY <1>6, <3>1
      DEF ReadModes, Well, InMode, Kept, Completed, Control, Underway, WaitSteps
    <3>3. QED
      BY <1>1, <1>3, <2>2, <2>3, <3>1, <3>2 DEF Course
  <2>5. CASE Fails(b)
    BY <1>1, <1>3, <2>2, <2>3, <2>5, FailedCourse DEF Course
  <2>6. QED
    BY <1>6, <2>4, <2>5 DEF ReadModes
<1>7. CASE WriteModes(b)
  <2>1. o = op[b] /\ currentState' = currentState /\ op[b] \in Movements \union Presets
    BY <1>1, <1>2, <1>7 DEF WriteModes, Fits, Movements, Presets
  <2>2. Turn(b, o)'
    <3>1. \/ pc'[b] = "idle"
          \/ op'[b] = op[b]
      BY <1>7 DEF WriteModes, ThreadType, Actors
    <3>2. QED
      BY <1>1, <1>3, <2>1, <3>1, OwnTurn DEF WaitSteps
  <2>3. CASE Works /\ Goto(b, AfterModes(op[b])) /\ UNCHANGED locals /\ SwitchModes(stale[b], ModeOf(op[b]))
    <3>1. /\ o = "movj" => pc'[b] = "positionMove"
          /\ o \in {"movl", "movv"} => pc'[b] = "arm"
          /\ o \in {"gcmp", "forc"} => pc'[b] = "engage"
          /\ o \in Presets => pc'[b] = "enable"
      BY <2>1, <2>3, AfterModesSteps DEF ThreadType, Actors
    <3>2. Underway(b)'
      BY <2>1, <3>1 DEF Underway, WaitSteps, Movements
    <3>3. Made(b, o)'
      BY <1>1, <1>7, <3>2 DEF WriteModes, Made, Control
    <3>4. faults = MaxFaults /\ o \in Movements => Others(ModeOf(o))' = {}
      BY <1>1, <1>7, <2>1, <2>3 DEF WriteModes, Well, InMode, SwitchModes, Others, Within, RobotType
    <3>5. faults = MaxFaults => Well(b, o, v)'
      <4>1. SUFFICES ASSUME faults = MaxFaults PROVE Well(b, o, v)'
        OBVIOUS
      <4>2. InMode(b, o)'
        BY <3>1, <3>2, <3>4, <4>1 DEF InMode, Control, Movements
      <4>3. Kept(b, o, v)'
        BY <1>1, <1>7, <3>1, <3>2, <4>1 DEF WriteModes, Well, Kept
      <4>4. Completed(b, o)'
        BY <3>1, <3>2 DEF Completed, Control
      <4>5. QED
        BY <4>2, <4>3, <4>4 DEF Well
    <3>6. QED
      BY <1>1, <1>3, <2>2, <2>3, <3>3, <3>5 DEF Course
  <2>4. CASE Fails(b) /\ Return(b, FALSE)
    <3>1. Made(b, o)'
      BY <1>1, <2>1, <2>4 DEF Made, Control, ThreadType, Actors, NC, Movements
    <3>2. QED
      BY <1>1, <1>3, <2>2, <2>4, <3>1, FailedCourse DEF Course
  <2>5. QED
    BY <1>7, <2>3, <2>4 DEF WriteModes
<1>8. CASE PositionMove(b)
  <2>1. o = "movj" /\ currentState' = currentState
    BY <1>1, <1>2, <1>8 DEF PositionMove, Fits
  <2>2. Turn(b, o)'
    BY <1>1, <1>3, <1>8, <2>1, OwnTurn DEF PositionMove, ThreadType, WaitSteps, Actors
  <2>3. Made(b, o)'
    BY <2>1 DEF Made
  <2>4. CASE Works /\ Others("POSITION") = {} /\ driven' = driven \union Joints /\ Goto(b, "arm")
    <3>1. pc'[b] = "arm" /\ faults' = faults /\ vmoStored' = vmoStored
      BY <1>8, <2>4 DEF PositionMove, ThreadType, Actors
    <3>2. Others(ModeOf(o))' = {}
      BY <1>8, <2>1, <2>4, MovjMode DEF PositionMove, Others, Within
    <3>3. Joints # {} => driven' # {}
      BY <2>4
    <3>4. Well(b, o, v) => Well(b, o, v)'
      <4>1. InMode(b, o)'
        BY <3>1, <3>2 DEF InMode
      <4>2. Kept(b, o, v) => Kept(b, o, v)'
        BY <1>8, <3>1 DEF PositionMove, Kept, Underway, WaitSteps
      <4>3. Completed(b, o)'
        BY <2>1, <3>1, <3>3 DEF Completed, Control, Underway, WaitSteps
      <4>4. QED
        BY <4>1, <4>2, <4>3 DEF Well
    <3>5. QED
      BY <1>1, <1>3, <2>2, <2>3, <3>1, <3>4 DEF Course
  <2>5. CASE Fails(b)
    BY <1>1, <1>3, <2>2, <2>3, <2>5, FailedCourse DEF Course
  <2>6. CASE Works /\ Others("POSITION") # {}
    <3>1. faults' = faults /\ faults # MaxFaults
      BY <1>1, <1>8, <2>1, <2>6, MovjMode DEF PositionMove, Well, InMode, Movements
    <3>2. QED
      BY <1>1, <1>3, <2>2, <2>3, <3>1 DEF Course
  <2>7. QED
    BY <1>8, <2>4, <2>5, <2>6 DEF PositionMove
<1>9. CASE ClearTrajectories(b) \/ BuildTrajectories(b)
  <2>1. o = op[b] /\ currentState' = currentState /\ o \in {"movl", "movv"}
    BY <1>1, <1>2, <1>9 DEF ClearTrajectories, BuildTrajectories, Fits
  <2>2. pc'[b] \in {"build", "readModes"} /\ (pc'[b] = "readModes" => trajectories' = o)
    BY <1>9, <2>1 DEF ClearTrajectories, BuildTrajectories, ThreadType, Actors
  <2>3. Turn(b, o)'
    BY <1>1, <1>3, <1>9, <2>1, OwnTurn DEF ClearTrajectories, BuildTrajectories
  <2>4. Made(b, o)'
    BY <2>2 DEF Made, Control, Underway, WaitSteps
  <2>5. Well(b, o, v)'
    BY <2>1, <2>2 DEF Well, InMode, Kept, Completed, Control, Underway, WaitSteps
  <2>6. QED
    BY <1>1, <1>3, <2>3, <2>4, <2>5 DEF Course
<1>10. CASE Arm(b)
  <2>1. o = op[b] /\ currentState' = currentState /\ o \in {"movj", "movl", "movv"}
    BY <1>1, <1>2, <1>10 DEF Arm, Fits
  <2>2. pc'[b] = "engage" /\ UNCHANGED <<mode, driven, atTarget, trajectories, vmoStored, faults>>
    BY <1>10 DEF Arm, ThreadType, Actors
  <2>3. Turn(b, o)'
    BY <1>1, <1>3, <1>10, <2>1, OwnTurn DEF Arm
  <2>4. Made(b, o)'
    BY <1>1, <1>10, <2>2 DEF Arm, Made, Control, Underway, WaitSteps
  <2>5. Well(b, o, v) => Well(b, o, v)'
    BY <1>10, <2>2 DEF Arm, Well, InMode, Kept, Completed, Control, Underway, WaitSteps, Others, Within
  <2>6. QED
    BY <1>1, <1>3, <2>2, <2>3, <2>4, <2>5 DEF Course
<1>11. CASE Engage(b)
  <2>1. o = op[b] /\ currentState' = o /\ o \in Movements
    BY <1>1, <1>2, <1>11 DEF Engage, Fits, Movements
  <2>2. pc'[b] = "idle" /\ UNCHANGED <<mode, driven, atTarget, trajectories, vmoStored, faults>>
    BY <1>11 DEF Engage, ThreadType, Actors
  <2>3. pc'[Cmc] \in {"idle", "closed"}
    BY <1>1, <1>3 DEF Turn, Underway
  <2>4. Turn(b, o)'
    BY <1>1, <1>3, <2>1, <2>2, OwnTurn DEF WaitSteps
  <2>5. Made(b, o)'
    BY <1>1, <1>11, <2>2 DEF Engage, Made, Control, Underway, WaitSteps
  <2>6. Well(b, o, v) => Well(b, o, v)'
    <3>1. InMode(b, o) => InMode(b, o)'
      BY <1>11, <2>1, <2>2 DEF Engage, InMode, Others, Within
    <3>2. Kept(b, o, v) => Kept(b, o, v)'
      BY <1>11, <2>1, <2>2, <2>3 DEF Engage, Kept, NC, Movements, StopSteps
    <3>3. Completed(b, o) => Completed(b, o)'
      BY <1>11, <2>1, <2>2, <2>3 DEF Engage, Completed, NC, Movements
    <3>4. QED
      BY <3>1, <3>2, <3>3 DEF Well
  <2>7. QED
    BY <1>1, <1>3, <2>2, <2>4, <2>5, <2>6 DEF Course
<1>12. CASE SetFrame(b) \/ Preset(b) \/ Enable(b) \/ Join(b)
  <2>1. currentState' = NC /\ o \notin Movements
    BY <1>1, <1>2, <1>12 DEF SetFrame, Preset, Enable, Join, Fits, OpFits, Movements, Presets
  <2>2. pc'[b] \in WaitSteps \/ op'[b] = op[b]
    BY <1>12 DEF SetFrame, Preset, Enable, Join, ThreadType, Actors, WaitSteps
  <2>3. Turn(b, o)'
    BY <1>1, <1>3, <2>1, <2>2, OwnTurn
  <2>4. Made(b, o)' /\ Well(b, o, v)'
    BY <2>1, NoMovement DEF Made, Well, InMode, Kept, Completed, Movements
  <2>5. QED
    BY <1>1, <1>3, <2>3, <2>4 DEF Course
<1>13. QED
  BY <1>1, <1>4, <1>5, <1>6, <1>7, <1>8, <1>9, <1>10, <1>11, <1>12
  DEF ClientNext, WaitSteps, WaitCheck, Poll, WaitReturn

LEMMA StopCourse ==
  ASSUME TypeInv, Places, NEW b \in Clients, NEW o, NEW v, Course(b, o, v), NEW t \in Clients, StopNext(t)
  PROVE  Course(b, o, v)'
<1> USE DEF TypeInv, TypeOK
<1>1. pc[t] \in StopSteps
  BY DEF StopNext, StopState, StopRead, StopWrite, StopMotion, StopClear, StopSteps
<1>2. t = b /\ Underway(b) /\ Turn(b, o) /\ ~crashed
  BY <1>1 DEF Course, Turn, Underway, WaitSteps, StopSteps
<1>3. t # Cmc
  BY ClientsAssumption DEF Cmc
<1>4. /\ \A e \in Clients \ {b} : pc'[e] = pc[e]
      /\ pc'[Cmc] = pc[Cmc] /\ UNCHANGED crashed
  BY <1>2, <1>3
  DEF StopNext, StopState, StopRead, StopWrite, StopMotion, StopClear, ThreadType, Actors, Cmc
<1>5. currentState' = NC
  BY <1>2 DEF Turn, StopNext, StopState, StopRead, StopWrite, StopMotion, StopClear
<1>6. pc'[b] \in WaitSteps \/ op'[b] = op[b]
  BY <1>2, <1>3 DEF StopNext, StopState, StopRead, StopWrite, StopMotion, StopClear, ThreadType, Actors, WaitSteps
<1>7. Turn(b, o)'
  BY <1>2, <1>4, <1>5, <1>6, OwnTurn
<1>8. o \notin Movements
  BY <1>1, <1>2 DEF Turn, Places, OpFits, Movements
<1>9. Made(b, o)' /\ Well(b, o, v)'
  BY <1>8 DEF Made, Well, InMode, Kept, Completed, Movements
<1>10. QED
  BY <1>2, <1>4, <1>7, <1>9 DEF Course

\* A step of the periodic thread: the clients only wait.
LEMMA CmcTurn ==
  ASSUME TypeInv, NEW b \in Clients, NEW o, Turn(b, o), ~Underway(b),
         \A d \in Clients : pc'[d] = pc[d],
         currentState' \in {currentState, NC},
         pc'[Cmc] \in Before => currentState' = o /\ snap' = o,
         pc'[Cmc] \in After => currentState' = NC
  PROVE  Turn(b, o)'
BY DEF Turn, Underway

\* A step of the periodic thread that only takes it further.
LEMMA CmcWell ==
  ASSUME NEW b \in Clients, NEW o, NEW v, Well(b, o, v), ~Underway(b), currentState = o,
         pc'[b] = pc[b], pc'[Cmc] \in {"idle", "limits", "checkModes", "abort"},
         UNCHANGED <<control, cmcSuccess, motion, config, robot>>
  PROVE  Well(b, o, v)'
<1>1. ~Underway(b)' /\ pc[b] \in WaitSteps
  BY DEF Underway
<1>2. InMode(b, o)'
  BY <1>1 DEF Well, InMode, Control, Others, Within, WaitSteps
<1>3. Kept(b, o, v)'
  BY <1>1 DEF Well, Kept, StopSteps, NC, WaitSteps
<1>4. Completed(b, o)'
  BY <1>1 DEF Well, Completed, Control, NC, WaitSteps
<1>5. QED
  BY <1>2, <1>3, <1>4 DEF Well

LEMMA CmcCourse ==
  ASSUME TypeInv, Places, NEW b \in Clients, NEW o, NEW v, Course(b, o, v), CmcNext
  PROVE  Course(b, o, v)'
<1> USE DEF TypeInv, TypeOK
<1>1. /\ Turn(b, o) /\ ~crashed /\ Made(b, o) /\ (faults = MaxFaults => Well(b, o, v))
  BY DEF Course
<1>2. ~Underway(b)
  BY <1>1 DEF Turn, CmcNext, Tick, CheckLimits, Abort, CheckModes, MotionDone, Finish, RestoreSpeeds,
     Iterate, SendVelocities, SendTorques
<1>3. \A d \in Clients : pc'[d] = pc[d]
  BY ClientsAssumption
  DEF CmcNext, Tick, CheckLimits, Abort, CheckModes, MotionDone, Finish, RestoreSpeeds, Iterate,
      SendVelocities, SendTorques, Then, EndTick, ThreadType, Cmc, Actors
<1>4. /\ ~Underway(b)' /\ pc[b] \in WaitSteps /\ pc'[b] = pc[b]
      /\ currentState \in {NC, o}
      /\ pc[Cmc] \in Before => currentState = o /\ snap = o
      /\ pc[Cmc] \in After => currentState = NC
      /\ SnapFits(snap, pc[Cmc])
  BY <1>1, <1>2, <1>3 DEF Turn, Underway, Places
<1>5. CASE Tick
  <2>1. /\ currentState = o /\ snap' = o /\ pc'[Cmc] = "limits"
        /\ UNCHANGED <<control, cmcSuccess, motion, config, robot, crashed, faults>>
    BY <1>4, <1>5 DEF Tick, ThreadType, Actors, Cmc
  <2>2. Turn(b, o)'
    BY <1>1, <1>2, <1>3, <2>1, CmcTurn DEF After, StopSteps
  <2>3. Made(b, o)'
    BY <1>1, <1>2, <1>4, <2>1 DEF Made, Control, WaitSteps
  <2>4. Well(b, o, v) => Well(b, o, v)'
    BY <1>2, <1>3, <2>1, CmcWell
  <2>5. QED
    BY <1>1, <2>1, <2>2, <2>3, <2>4 DEF Course
<1>6. CASE CheckLimits
  <2>1. /\ currentState = o /\ snap = o
        /\ UNCHANGED <<control, cmcSuccess, motion, config, robot, crashed>>
    BY <1>4, <1>6 DEF CheckLimits, Before
  <2>2. \/ pc'[Cmc] \in {"checkModes", "abort"} /\ snap' = snap /\ faults' = faults
        \/ pc'[Cmc] = "idle" /\ faults' # MaxFaults
    BY <1>6, FailedCourse DEF CheckLimits, Then, EndTick, ThreadType, Actors, Cmc
  <2>3. Turn(b, o)'
    BY <1>1, <1>2, <1>3, <2>1, <2>2, CmcTurn DEF Before, After, StopSteps
  <2>4. Made(b, o)'
    BY <1>1, <1>2, <1>4, <2>1 DEF Made, Control, WaitSteps
  <2>5. Well(b, o, v) => Well(b, o, v)'
    BY <1>2, <1>3, <2>1, <2>2, CmcWell
  <2>6. faults' = MaxFaults => faults = MaxFaults
    BY <2>2
  <2>7. QED
    BY <1>1, <2>1, <2>3, <2>4, <2>5, <2>6 DEF Course
<1>7. CASE Abort
  <2>1. /\ currentState = o /\ cmcSuccess' = FALSE /\ pc'[Cmc] = "stopState"
        /\ UNCHANGED <<control, motion, config, robot, crashed, faults>>
    BY <1>4, <1>7 DEF Abort, Before, Then, ThreadType, Actors, Cmc
  <2>2. Turn(b, o)'
    BY <1>1, <1>2, <1>3, <2>1, CmcTurn DEF Before, After, StopSteps
  <2>3. Made(b, o)'
    BY <1>1, <1>2, <1>4, <2>1 DEF Made, Control, WaitSteps
  <2>4. Well(b, o, v) => Well(b, o, v)'
    BY <1>2, <1>4, <2>1 DEF Well, InMode, Kept, Completed, Control, WaitSteps, Others, Within
  <2>5. QED
    BY <1>1, <2>1, <2>2, <2>3, <2>4 DEF Course
<1>8. CASE CheckModes
  <2>1. /\ currentState = o /\ snap = o /\ snap' = o /\ o \in Movements
        /\ UNCHANGED <<control, cmcSuccess, motion, config, robot, crashed>>
    BY <1>4, <1>8 DEF CheckModes, Before, Then, SnapFits
  <2>2. /\ o = "movj" => Handler(o) = "motionDone"
        /\ o \in {"movl", "movv"} => Handler(o) = "iterate"
        /\ o \in {"gcmp", "forc"} => Handler(o) = "torque"
    BY HandlerSteps
  <2>3. pc'[Cmc] \in {Handler(o), "stopState", "abort"}
    BY <1>8, <2>1 DEF CheckModes, Then, ThreadType, Actors, Cmc
  <2>4. pc'[Cmc] = "stopState" => o \in {"gcmp", "forc"}
    BY <1>8, <2>1, <2>2 DEF CheckModes, Then, ThreadType, Actors, Cmc, Movements
  <2>5. Turn(b, o)'
    BY <1>1, <1>2, <1>3, <2>1, <2>2, <2>3, CmcTurn DEF Before, After, StopSteps, Movements
  <2>6. Made(b, o)'
    BY <1>1, <1>2, <1>4, <2>1 DEF Made, Control, WaitSteps
  <2>7. pc'[Cmc] \in {"motionDone", "iterate", "torque", "abort"} \/ o \in {"gcmp", "forc"}
    BY <2>1, <2>2, <2>3, <2>4 DEF Movements
  <2>8. Well(b, o, v) => Well(b, o, v)'
    <3>1. InMode(b, o) => InMode(b, o)'
      BY <1>2, <1>4, <1>8, <2>1 DEF CheckModes, InMode, Control, Others, Within, WaitSteps
    <3>2. Kept(b, o, v) => Kept(b, o, v)'
      BY <1>2, <1>4, <2>1, <2>7 DEF Kept, StopSteps, NC, Movements
    <3>3. Completed(b, o) => Completed(b, o)'
      BY <1>2, <1>4, <2>1, <2>7 DEF Completed, Control, NC, Movements
    <3>4. QED
      BY <3>1, <3>2, <3>3 DEF Well
  <2>9. faults' = MaxFaults => faults = MaxFaults
    BY <1>8, FailedCourse DEF CheckModes
  <2>10. QED
    BY <1>1, <2>1, <2>5, <2>6, <2>8, <2>9 DEF Course
<1>9. CASE MotionDone
  <2>1. /\ currentState = o /\ snap = o /\ o = "movj"
        /\ UNCHANGED <<control, cmcSuccess, motion, config, robot, crashed>>
    BY <1>4, <1>9 DEF MotionDone, Before, SnapFits
  <2>2. \/ pc'[Cmc] = "finish" /\ snap' = snap /\ faults' = faults
             /\ driven \intersect Within("POSITION") = {}
        \/ pc'[Cmc] = "idle" /\ faults' = faults
        \/ pc'[Cmc] = "abort" /\ snap' = snap /\ faults' # MaxFaults
    BY <1>9, FailedCourse DEF MotionDone, Then, EndTick, ThreadType, Actors, Cmc
  <2>3. Turn(b, o)'
    BY <1>1, <1>2, <1>3, <2>1, <2>2, CmcTurn DEF Before, After, StopSteps
  <2>4. Made(b, o)'
    BY <2>1 DEF Made
  <2>5. Well(b, o, v) /\ faults' = MaxFaults => Well(b, o, v)'
    <3>1. InMode(b, o) => InMode(b, o)'
      BY <1>2, <1>4, <2>1 DEF InMode, Control, Others, Within, WaitSteps
    <3>2. Kept(b, o, v) => Kept(b, o, v)'
      BY <1>2, <1>4, <2>1, <2>2 DEF Kept, StopSteps, NC
    <3>3. ASSUME Joints # {}, InMode(b, o), Completed(b, o), pc'[Cmc] = "finish" PROVE atTarget
      <4>1. driven \intersect Within("POSITION") = {}
        BY <2>2, <3>3
      <4>2. Others("POSITION") = {}
        BY <1>2, <2>1, <3>3, MovjMode DEF InMode, Control, Movements
      <4>3. driven = {}
        BY <4>1, <4>2 DEF Others, RobotType
      <4>4. QED
        BY <1>2, <2>1, <3>3, <4>3 DEF Completed, Control
    <3>4. InMode(b, o) /\ Completed(b, o) => Completed(b, o)'
      BY <1>2, <1>4, <2>1, <3>3 DEF Completed, Control, NC, WaitSteps
    <3>5. QED
      BY <3>1, <3>2, <3>4 DEF Well
  <2>6. faults' = MaxFaults => faults = MaxFaults
    BY <2>2
  <2>7. QED
    BY <1>1, <2>1, <2>3, <2>4, <2>5, <2>6 DEF Course
<1>10. CASE Finish
  <2>1. /\ o = "movj" /\ currentState' = NC /\ pc'[Cmc] = "restore"
        /\ UNCHANGED <<cmcSuccess, motion, config, robot, crashed, faults>>
    BY <1>4, <1>10 DEF Finish, Before, SnapFits, Then, ThreadType, Actors, Cmc
  <2>2. pc[Cmc] = "finish"
    BY <1>10 DEF Finish
  <2>3. Turn(b, o)'
    BY <1>1, <1>2, <1>3, <2>1, CmcTurn DEF Before, StopSteps
  <2>4. Made(b, o)'
    BY <2>1 DEF Made
  <2>5. Well(b, o, v) => Well(b, o, v)'
    BY <1>2, <1>4, <2>1, <2>2 DEF Well, InMode, Kept, Completed, Control, WaitSteps, StopSteps, NC
  <2>6. QED
    BY <1>1, <2>1, <2>3, <2>4, <2>5 DEF Course
<1>11. CASE RestoreSpeeds
  <2>1. /\ pc[Cmc] = "restore" /\ currentState = NC /\ pc'[Cmc] = "idle"
        /\ UNCHANGED <<control, cmcSuccess, motion, config, mode, driven, atTarget, crashed>>
        /\ \/ refSpeeds' = vmoStored /\ faults' = faults
           \/ faults' # MaxFaults
    BY <1>4, <1>11, FailedCourse DEF RestoreSpeeds, After, EndTick, ThreadType, Actors, Cmc
  <2>2. Turn(b, o)'
    BY <1>1, <1>2, <1>3, <2>1, CmcTurn DEF Before, After, StopSteps
  <2>3. Made(b, o)'
    BY <1>1, <1>2, <1>4, <2>1 DEF Made, Control, WaitSteps
  <2>4. Well(b, o, v) /\ faults' = MaxFaults => Well(b, o, v)'
    BY <1>2, <1>4, <2>1 DEF Well, InMode, Kept, Completed, Control, WaitSteps, StopSteps, NC, Others, Within
  <2>5. faults' = MaxFaults => faults = MaxFaults
    BY <2>1
  <2>6. QED
    BY <1>1, <2>1, <2>2, <2>3, <2>4, <2>5 DEF Course
<1>12. CASE Iterate
  <2>1. /\ currentState = o /\ snap = o /\ o \in {"movl", "movv"}
        /\ UNCHANGED <<control, cmcSuccess, motion, config, robot, faults>>
    BY <1>4, <1>12 DEF Iterate, Before, SnapFits
  <2>2. trajectories # "none" /\ ~Rewriting
    BY <1>1, <1>2, <2>1 DEF Made, Control, Turn, Underway, WaitSteps, Rewriting
  <2>3. /\ crashed' = crashed /\ pc'[Cmc] \in {"stopState", "velocityMove", "abort", "idle"}
        /\ snap' = snap \/ pc'[Cmc] = "idle"
        /\ pc'[Cmc] = "stopState" => o = "movl" /\ elapsed
    BY <1>12, <2>1, <2>2 DEF Iterate, Then, EndTick, ThreadType, Actors, Cmc
  <2>4. Turn(b, o)'
    BY <1>1, <1>2, <1>3, <2>1, <2>3, CmcTurn DEF Before, After, StopSteps
  <2>5. Made(b, o)'
    BY <1>1, <1>2, <1>4, <2>1 DEF Made, Control, WaitSteps
  <2>6. Well(b, o, v) => Well(b, o, v)'
    <3>1. InMode(b, o) => InMode(b, o)'
      BY <1>2, <1>4, <2>1 DEF InMode, Control, Others, Within, WaitSteps
    <3>2. Kept(b, o, v)'
      BY <2>1 DEF Kept
    <3>3. Completed(b, o)'
      BY <2>1, <2>3 DEF Completed, NC
    <3>4. QED
      BY <3>1, <3>2, <3>3 DEF Well
  <2>7. QED
    BY <1>1, <2>1, <2>3, <2>4, <2>5, <2>6 DEF Course
<1>13. CASE SendVelocities \/ SendTorques
  <2>1. /\ currentState = o /\ o \in Movements \ {"movj"} /\ pc'[Cmc] = "idle"
        /\ UNCHANGED <<control, cmcSuccess, motion, config, mode, crashed>>
    BY <1>4, <1>13
    DEF SendVelocities, SendTorques, Before, SnapFits, EndTick, ThreadType, Actors, Cmc, Movements
  <2>2. Turn(b, o)'
    BY <1>1, <1>2, <1>3, <2>1, CmcTurn DEF Before, After, StopSteps
  <2>3. Made(b, o)'
    BY <1>1, <1>2, <1>4, <2>1 DEF Made, Control, WaitSteps
  <2>4. Well(b, o, v) => Well(b, o, v)'
    BY <1>2, <1>4, <2>1 DEF Well, InMode, Kept, Completed, Control, WaitSteps, StopSteps, NC, Others, Within
  <2>5. faults' = MaxFaults => faults = MaxFaults
    BY <1>13, FailedCourse DEF SendVelocities, SendTorques
  <2>6. QED
    BY <1>1, <2>1, <2>2, <2>3, <2>4, <2>5 DEF Course
<1>14. QED
  BY <1>5, <1>6, <1>7, <1>8, <1>9, <1>10, <1>11, <1>12, <1>13 DEF CmcNext

LEMMA CmcStopCourse ==
  ASSUME TypeInv, Places, NEW b \in Clients, NEW o, NEW v, Course(b, o, v), StopNext(Cmc)
  PROVE  Course(b, o, v)'
<1> USE DEF TypeInv, TypeOK
<1>1. /\ Turn(b, o) /\ ~crashed /\ Made(b, o) /\ (faults = MaxFaults => Well(b, o, v))
  BY DEF Course
<1>2. pc[Cmc] \in StopSteps /\ ~Underway(b)
  BY <1>1 DEF Turn, StopNext, StopState, StopRead, StopWrite, StopMotion, StopClear, StopSteps
<1>3. \A d \in Clients : pc'[d] = pc[d]
  BY ClientsAssumption
  DEF StopNext, StopState, StopRead, StopWrite, StopMotion, StopClear, ThreadType, Cmc, Actors
<1>4. /\ ~Underway(b)' /\ pc[b] \in WaitSteps /\ pc'[b] = pc[b]
  BY <1>2, <1>3 DEF Underway
<1>5. currentState' = NC
  <2>1. CASE pc[Cmc] = "stopState"
    BY <2>1 DEF StopNext, StopState, StopRead, StopWrite, StopMotion, StopClear
  <2>2. CASE pc[Cmc] # "stopState"
    BY <1>1, <1>2, <2>2 DEF Turn, After, StopNext, StopState, StopRead, StopWrite, StopMotion, StopClear
  <2>3. QED
    BY <2>1, <2>2
<1>6. pc'[Cmc] \in (StopSteps \ {"stopState"}) \union {"idle"}
  BY DEF StopNext, StopState, StopRead, StopWrite, StopMotion, StopClear, ThreadType, Cmc, Actors, StopSteps
<1>7. /\ UNCHANGED <<cmcSuccess, elapsed, config, refSpeeds, atTarget, crashed>>
      /\ faults' = MaxFaults => faults = MaxFaults
  BY FailedCourse DEF StopNext, StopState, StopRead, StopWrite, StopMotion, StopClear, SwitchModes
<1>8. Turn(b, o)'
  BY <1>1, <1>2, <1>3, <1>5, <1>6, CmcTurn DEF Before, StopSteps
<1>9. Made(b, o)'
  BY <1>4, <1>5 DEF Made, Control, WaitSteps, NC
<1>10. Well(b, o, v) => Well(b, o, v)'
  <2>1. InMode(b, o)'
    BY <1>4, <1>5 DEF InMode, Control, WaitSteps, NC, Movements
  <2>2. Kept(b, o, v) => Kept(b, o, v)'
    BY <1>2, <1>4, <1>7 DEF Kept
  <2>3. Kept(b, o, v) /\ Completed(b, o) => Completed(b, o)'
    <3>1. ASSUME Completed(b, o), o = "movl", cmcSuccess PROVE elapsed
      <4>1. pc[Cmc] # "stopState" => currentState = NC
        BY <1>1, <1>2 DEF Turn, After
      <4>2. QED
        BY <1>2, <3>1, <4>1 DEF Completed
    <3>2. Kept(b, o, v) /\ o = "movj" => ~cmcSuccess
      BY <1>2 DEF Kept
    <3>3. QED
      BY <1>4, <1>5, <1>6, <1>7, <3>1, <3>2 DEF Completed, Control, WaitSteps, NC, StopSteps
  <2>4. QED
    BY <2>1, <2>2, <2>3 DEF Well
<1>11. QED
  BY <1>1, <1>7, <1>8, <1>9, <1>10 DEF Course

\* What is moving moves on, or arrives.
LEMMA ElsewhereCourse ==
  ASSUME NEW b \in Clients, NEW o, NEW v, Course(b, o, v),
         \A t \in Actors : pc'[t] = pc[t],
         UNCHANGED <<control, cmcSuccess, trajectories, config, op, snap, mode, refSpeeds, stale,
                     crashed, faults>>,
         elapsed => elapsed', atTarget => atTarget',
         Joints # {} /\ Others("POSITION") = {} /\ driven # {} => atTarget' \/ driven' # {}
  PROVE  Course(b, o, v)'
<1>1. pc'[b] = pc[b] /\ pc'[Cmc] = pc[Cmc] /\ (Underway(b)' <=> Underway(b))
  BY DEF Actors, Underway
<1>2. Turn(b, o)'
  BY <1>1 DEF Course, Turn, Alone, Actors
<1>3. Made(b, o)'
  BY <1>1 DEF Course, Made, Control
<1>4. Well(b, o, v) => Well(b, o, v)'
  <2>1. InMode(b, o) => InMode(b, o)'
    BY <1>1 DEF InMode, Control, Others, Within
  <2>2. Kept(b, o, v) => Kept(b, o, v)'
    BY <1>1 DEF Kept
  <2>3. InMode(b, o) /\ Completed(b, o) => Completed(b, o)'
    BY <1>1, MovjMode DEF InMode, Completed, Control, Movements
  <2>4. QED
    BY <2>1, <2>2, <2>3 DEF Well
<1>5. QED
  BY <1>2, <1>3, <1>4 DEF Course

LEMMA StreamCourse ==
  ASSUME TypeInv, NEW b \in Clients, NEW o, NEW v, Course(b, o, v), StreamNext
  PROVE  Course(b, o, v)'
<1> USE DEF TypeInv, TypeOK
<1>1. CASE faults' # MaxFaults
  <2>1. \A t \in Actors : pc'[t] = pc[t]
    BY ClientsAssumption
    DEF StreamNext, StreamCall, StreamCommand, StreamModes, StreamMove, Passed, Dropped, ThreadType, Cmc, Actors, Stream
  <2>2. UNCHANGED <<control, cmcSuccess, trajectories, op, snap, crashed>>
    BY DEF StreamNext, StreamCall, StreamCommand, StreamModes, StreamMove, Passed, Dropped
  <2>3. Turn(b, o)' /\ Made(b, o)'
    BY <2>1, <2>2 DEF Course, Turn, Made, Alone, Actors, Underway, Control
  <2>4. QED
    BY <1>1, <2>2, <2>3 DEF Course
<1>2. CASE faults' = MaxFaults
  <2>1. \A t \in Actors : pc'[t] = pc[t]
    BY ClientsAssumption
    DEF StreamNext, StreamCall, StreamCommand, StreamModes, StreamMove, Passed, Dropped, ThreadType, Cmc, Actors, Stream
  <2>2. UNCHANGED <<control, cmcSuccess, motion, config, op, snap, mode, refSpeeds, atTarget, stale, crashed, faults>>
    BY <1>2, FailedCourse DEF StreamNext, StreamCall, StreamCommand, StreamModes, StreamMove, Passed, Dropped
  <2>3. driven' = driven \/ \E m \in ControlModes : driven' = driven \union Within(m) \/ driven' = driven \ Within("VELOCITY")
    <3>1. CASE StreamMove
      <4>1. streamed \in Presets
        BY <3>1, ClientsAssumption DEF StreamMove, ThreadType
      <4>2. streamed # "movi" => ModeOf(streamed) = "VELOCITY"
        BY <4>1, Zenon DEF ModeOf, Presets
      <4>3. ~Fails(Stream)
        BY <1>2, FailedCourse
      <4>4. ModeOf(streamed) \in ControlModes
        BY ModeOfControls
      <4>5. QED
        BY <3>1, <4>2, <4>3, <4>4 DEF StreamMove, Drive
    <3>2. CASE StreamCall \/ StreamCommand \/ StreamModes
      BY <3>2 DEF StreamCall, StreamCommand, StreamModes
    <3>3. QED
      BY <3>1, <3>2 DEF StreamNext
  <2>4. Others("POSITION") = {} => Within("VELOCITY") = {}
    BY DEF Others, Within, RobotType
  <2>5. Others("POSITION") = {} /\ driven # {} => driven' # {}
    BY <2>3, <2>4
  <2>6. QED
    BY <2>1, <2>2, <2>5, ElsewhereCourse
<1>3. QED
  BY <1>1, <1>2

LEMMA EnvironmentCourse ==
  ASSUME TypeInv, NEW b \in Clients, NEW o, NEW v, Course(b, o, v), Environment
  PROVE  Course(b, o, v)'
<1> USE DEF TypeInv, TypeOK
<1>1. CASE Elapse
  BY <1>1, ElsewhereCourse DEF Elapse
<1>2. ASSUME NEW j \in Joints, Arrive(j) PROVE Course(b, o, v)'
  <2>1. ASSUME Others("POSITION") = {} PROVE atTarget' \/ driven' # {}
    <3>1. driven \intersect Within("POSITION") = driven /\ mode[j] = "POSITION"
      BY <2>1 DEF Others, Within, RobotType
    <3>2. driven' = {} => driven = {j}
      BY <1>2 DEF Arrive
    <3>3. QED
      BY <1>2, <3>1, <3>2 DEF Arrive
  <2>2. atTarget => atTarget'
    BY <1>2 DEF Arrive
  <2>3. QED
    BY <1>2, <2>1, <2>2, ElsewhereCourse DEF Arrive
<1>3. ASSUME NEW j \in Joints, ModeLost(j) PROVE Course(b, o, v)'
  <2>1. faults' # MaxFaults
    BY <1>3, FaultsAssumption DEF ModeLost, HistoryType
  <2>2. Turn(b, o)' /\ Made(b, o)' /\ ~crashed'
    BY <1>3 DEF ModeLost, Course, Turn, Made, Alone, Underway, Control
  <2>3. QED
    BY <2>1, <2>2 DEF Course
<1>4. QED
  BY <1>1, <1>2, <1>3 DEF Environment

-----------------------------------------------------------------------------
(* CleanInv is inductive.                                                  *)

LEMMA RecordedFields ==
  ASSUME NEW c, NEW o, Recorded(c, o)
  PROVE  /\ latest'.by = c /\ latest'.op = o
         /\ latest'.clean => /\ Alone(c) /\ currentState = NC /\ pc[Cmc] = "idle"
                             /\ latest'.speeds = refSpeeds
<1>1. latest'.by = c /\ latest'.op = o /\ latest'.clean = (Alone(c) /\ currentState = NC /\ pc[Cmc] = "idle")
      /\ latest'.speeds = IF pc[Cmc] = "restore" THEN vmoStored ELSE refSpeeds
  BY Zenon DEF Recorded
<1>2. QED
  BY <1>1

\* A call that is recorded begins its course, if it begins cleanly.
LEMMA FreshCourse ==
  ASSUME TypeInv, NEW c \in Clients, NEW o, Recorded(c, o), ~crashed, ~crashed',
         pc'[c] \in {"getRefSpeeds", "clear", "readModes", "stopState", "setFrame", "preset"},
         pc'[c] = "readModes" => o \notin {"movl", "movv"},
         o = "movj" => pc'[c] = "getRefSpeeds",
         pc'[Cmc] = pc[Cmc], \A d \in Clients \ {c} : pc'[d] = pc[d],
         op'[c] = o \/ (op'[c] = "waitTimeout" /\ o = "stop"),
         UNCHANGED <<control, refSpeeds>>
  PROVE  CleanInv'
<1> SUFFICES ASSUME latest'.clean
             PROVE  latest'.by \in Clients /\ Course(latest.by, latest.op, latest.speeds)'
  BY DEF CleanInv
<1>1. /\ latest'.by = c /\ latest'.op = o /\ latest'.speeds = refSpeeds
      /\ Alone(c) /\ currentState = NC /\ pc[Cmc] = "idle"
  BY RecordedFields
<1>2. Underway(c)' /\ Alone(c)'
  BY <1>1 DEF Underway, WaitSteps, Alone
<1>3. Turn(c, o)'
  BY <1>1, <1>2 DEF Turn, Alone, WaitSteps
<1>4. Made(c, o)'
  BY <1>2 DEF Made, Control
<1>5. Well(c, o, refSpeeds)'
  <2>1. InMode(c, o)'
    BY <1>2 DEF InMode, Control
  <2>2. Kept(c, o, refSpeeds)'
    BY <1>2 DEF Kept
  <2>3. Completed(c, o)'
    BY <1>2 DEF Completed, Control
  <2>4. QED
    BY <2>1, <2>2, <2>3 DEF Well
<1>6. Course(c, o, refSpeeds)'
  BY <1>3, <1>4, <1>5 DEF Course
<1>7. refSpeeds' = latest'.speeds
  BY <1>1
<1>8. QED
  BY <1>1, <1>6, <1>7


LEMMA FailedFields ==
  ASSUME HistoryType, NEW t, Fails(t)
  PROVE  latest'.by = latest.by /\ latest'.op = latest.op /\ latest'.speeds = latest.speeds
         /\ latest'.clean = latest.clean
BY Zenon DEF HistoryType, Fails

\* The last recorded call is still the same.
SameCall ==
  latest'.clean => /\ latest.clean
                   /\ latest'.by = latest.by /\ latest'.op = latest.op /\ latest'.speeds = latest.speeds

\* A step that no call is recorded in goes on with the course of the last one.
LEMMA SameCourse ==
  ASSUME CleanInv, SameCall, ASSUME NEW b \in Clients, NEW o, NEW v, latest'.clean, Course(b, o, v)
                             PROVE  Course(b, o, v)'
  PROVE  CleanInv'
<1> SUFFICES ASSUME latest'.clean
             PROVE  latest'.by \in Clients /\ Course(latest.by, latest.op, latest.speeds)'
  BY DEF CleanInv
<1>1. latest.clean /\ latest'.by = latest.by /\ latest'.op = latest.op /\ latest'.speeds = latest.speeds
  BY DEF SameCall
<1>2. latest.by \in Clients /\ Course(latest.by, latest.op, latest.speeds)
  BY <1>1 DEF CleanInv
<1> DEFINE b == latest.by
           o == latest.op
           v == latest.speeds
<1>3. b \in Clients /\ Course(b, o, v)
  BY <1>2
<1> HIDE DEF b, o, v
<1>4. PICK bb, oo, vv : bb \in Clients /\ bb = b /\ oo = o /\ vv = v
  BY <1>3
<1>5. Course(bb, oo, vv)'
  <2>1. Course(bb, oo, vv)
    BY <1>3, <1>4
  <2>2. QED
    BY <1>4, <2>1
<1>6. latest'.by = bb /\ latest'.op = oo /\ latest'.speeds = vv
  BY <1>1, <1>4 DEF b, o, v
<1>7. QED
  BY <1>4, <1>5, <1>6

LEMMA CallsClean == ASSUME TypeInv, CleanInv, NEW c \in Clients, Calls(c) PROVE CleanInv'
<1> USE DEF TypeInv, TypeOK
<1>1. ASSUME NEW o, NEW step \in Steps, Call(c, o, step)
      PROVE  /\ pc'[c] = step /\ op'[c] = o /\ pc'[Cmc] = pc[Cmc] /\ ~crashed /\ ~crashed'
             /\ \A d \in Clients \ {c} : pc'[d] = pc[d]
             /\ UNCHANGED <<control, refSpeeds>>
  BY <1>1, ClientsAssumption DEF Call, ThreadType, Actors, Cmc
<1>2. ASSUME NEW o, NEW step \in {"getRefSpeeds", "clear", "readModes", "stopState", "setFrame", "preset"},
             Call(c, o, step), Recorded(c, o),
             step = "readModes" => o \notin {"movl", "movv"}, o = "movj" => step = "getRefSpeeds"
      PROVE  CleanInv'
  <2>1. step \in Steps
    BY DEF Steps, StopSteps
  <2>2. QED
    BY <1>1, <1>2, <2>1, FreshCourse
<1>3. CASE CallMovj(c)
  BY <1>2, <1>3 DEF CallMovj
<1>4. ASSUME NEW o \in {"movl", "movv"}, CallTrajectory(c, o) PROVE CleanInv'
  BY <1>2, <1>4 DEF CallTrajectory
<1>5. ASSUME NEW o \in {"gcmp", "forc"}, CallTorque(c, o) PROVE CleanInv'
  BY <1>2, <1>5 DEF CallTorque
<1>6. CASE CallStop(c)
  BY <1>2, <1>6 DEF CallStop
<1>7. ASSUME NEW o \in Presets \union {"frame", "unsupported"}, CallSetParameter(c, o) PROVE CleanInv'
  BY <1>2, <1>7 DEF CallSetParameter, Presets
<1>8. CASE CallClose(c)
  BY <1>2, <1>8 DEF CallClose
<1>9. ASSUME NEW o \in {"wait", "waitTimeout"}, CallWait(c, o) PROVE CleanInv'
  <2>1. SameCall
    BY <1>9, Zenon DEF CallWait, SameCall, HistoryType
  <2>2. latest'.clean => Alone(c)
    BY <1>9, Zenon DEF CallWait, HistoryType
  <2>3. pc[c] = "idle" /\ pc'[c] = "waitCheck"
        /\ UNCHANGED <<control, cmcSuccess, motion, config, robot, snap, stale, crashed, faults>>
        /\ \A e \in (Actors \union {Stream}) \ {c} : pc'[e] = pc[e]
    BY <1>9 DEF CallWait, Call, ThreadType, Actors
  <2>4. ASSUME NEW b \in Clients, NEW q, NEW v, latest'.clean, Course(b, q, v) PROVE Course(b, q, v)'
    <3>1. ~Underway(b)
      BY <2>2, <2>3, <2>4 DEF Alone, Underway, WaitSteps
    <3>2. QED
      BY <2>3, <2>4, <3>1, WaitCourse DEF WaitSteps
  <2>5. QED
    BY <2>1, <2>4, SameCourse
<1>10. QED
  BY <1>3, <1>4, <1>5, <1>6, <1>7, <1>8, <1>9 DEF Calls


\* While the recorded call is underway the other clients are idle.
LEMMA OthersIdle ==
  ASSUME NEW b \in Clients, NEW o, NEW v, Course(b, o, v), Underway(b)
  PROVE  \A d \in Clients \ {b} : pc[d] = "idle"
BY DEF Course, Turn, Alone

LEMMA ClientClean == ASSUME TypeInv, Places, CleanInv, NEW c \in Clients, ClientNext(c) PROVE CleanInv'
<1> USE DEF TypeInv, TypeOK
<1>1. CASE At(c, "poll") /\ op[c] = "waitTimeout" /\ Goto(c, "stopState") /\ Recorded(c, "stop")
           /\ UNCHANGED <<control, refSpeeds, locals, crashed>>
  <2>1. /\ pc'[c] = "stopState" /\ op'[c] = "waitTimeout" /\ pc'[Cmc] = pc[Cmc]
        /\ \A d \in Clients \ {c} : pc'[d] = pc[d]
    BY <1>1, ClientsAssumption DEF ThreadType, Actors, Cmc
  <2>2. QED
    BY <1>1, <2>1, FreshCourse
<1>2. CASE At(c, "poll") /\ currentState = NC /\ Goto(c, "waitReturn") /\ UNCHANGED history
           /\ UNCHANGED <<control, cmcSuccess, motion, config, robot, locals, stale, crashed, faults>>
  <2>1. /\ pc'[c] = "waitReturn" /\ SameCall
        /\ \A e \in (Actors \union {Stream}) \ {c} : pc'[e] = pc[e]
    BY <1>2 DEF SameCall, ThreadType, Actors
  <2>2. ASSUME NEW b \in Clients, NEW o, NEW v, Course(b, o, v) PROVE Course(b, o, v)'
    <3>1. ~Underway(b)
      BY <1>2, <2>2, OthersIdle DEF Underway, WaitSteps
    <3>2. QED
      BY <1>2, <2>1, <2>2, <3>1, WaitCourse DEF WaitSteps
  <2>3. QED
    BY <2>1, <2>2, SameCourse
<1>3. CASE WaitCheck(c) \/ WaitReturn(c)
  <2>1. /\ pc[c] \in {"waitCheck", "waitReturn"} /\ pc'[c] \in {"poll", "idle"} /\ SameCall
        /\ \A e \in (Actors \union {Stream}) \ {c} : pc'[e] = pc[e]
        /\ UNCHANGED <<control, cmcSuccess, motion, config, robot, snap, stale, crashed, faults>>
    BY <1>3 DEF WaitCheck, WaitReturn, SameCall, ThreadType, Actors
  <2>2. ASSUME NEW b \in Clients, NEW o, NEW v, Course(b, o, v) PROVE Course(b, o, v)'
    <3>1. ~Underway(b)
      BY <2>1, <2>2, OthersIdle DEF Underway, WaitSteps
    <3>2. QED
      BY <2>1, <2>2, <3>1, WaitCourse DEF WaitSteps
  <2>3. QED
    BY <2>1, <2>2, SameCourse
<1>4. CASE pc[c] \notin WaitSteps
  <2>1. SameCall
    <3>1. latest' = latest \/ Fails(c)
      BY <1>4 DEF ClientNext, GetRefSpeeds, SetRefSpeeds, ReadModes, WriteModes, PositionMove,
         ClearTrajectories, BuildTrajectories, Arm, Engage, SetFrame, Preset, Enable, WaitCheck, Poll,
         WaitReturn, Join, WaitSteps
    <3>2. QED
      BY <3>1, FailedFields DEF SameCall
  <2>2. ASSUME NEW b \in Clients, NEW o, NEW v, Course(b, o, v) PROVE Course(b, o, v)'
    <3>1. c = b /\ Underway(b)
      BY <1>4, <2>2 DEF Course, Turn, Underway
    <3>2. QED
      BY <2>2, <3>1, OwnCourse
  <2>3. QED
    BY <2>1, <2>2, SameCourse
<1>5. CASE Poll(c)
  BY <1>1, <1>2, <1>5 DEF Poll
<1>6. QED
  BY <1>3, <1>4, <1>5
  DEF ClientNext, GetRefSpeeds, SetRefSpeeds, ReadModes, WriteModes, PositionMove, ClearTrajectories,
      BuildTrajectories, Arm, Engage, SetFrame, Preset, Enable, Join, WaitSteps

LEMMA ThreadClean ==
  ASSUME TypeInv, Places, CleanInv, (\E t \in Actors : StopNext(t)) \/ CmcNext \/ StreamNext \/ Environment
  PROVE  CleanInv'
<1> USE DEF TypeInv, TypeOK
<1>1. ASSUME NEW t \in Actors, StopNext(t) PROVE SameCall
  <2>1. latest' = latest \/ Fails(t)
    BY <1>1 DEF StopNext, StopState, StopRead, StopWrite, StopMotion, StopClear
  <2>2. QED
    BY <2>1, FailedFields DEF SameCall
<1>2. CASE CmcNext
  <2>1. latest' = latest \/ Fails(Cmc)
    BY <1>2 DEF CmcNext, Tick, CheckLimits, Abort, CheckModes, MotionDone, Finish, RestoreSpeeds,
       Iterate, SendVelocities, SendTorques
  <2>2. SameCall
    BY <2>1, FailedFields DEF SameCall
  <2>3. QED
    BY <1>2, <2>2, CmcCourse, SameCourse
<1>3. CASE StreamNext
  <2>1. latest' = latest \/ Fails(Stream)
    BY <1>3 DEF StreamNext, StreamCall, StreamCommand, StreamModes, StreamMove
  <2>2. SameCall
    BY <2>1, FailedFields DEF SameCall
  <2>3. QED
    BY <1>3, <2>2, StreamCourse, SameCourse
<1>4. CASE Environment
  <2>1. SameCall
    BY <1>4 DEF Environment, Elapse, Arrive, ModeLost, SameCall
  <2>2. QED
    BY <1>4, <2>1, EnvironmentCourse, SameCourse
<1>5. ASSUME NEW t \in Actors, StopNext(t) PROVE CleanInv'
  <2>1. ASSUME NEW b \in Clients, NEW o, NEW v, Course(b, o, v) PROVE Course(b, o, v)'
    BY <1>5, <2>1, StopCourse, CmcStopCourse DEF Actors
  <2>2. QED
    BY <1>1, <1>5, <2>1, SameCourse
<1>6. QED
  BY <1>2, <1>3, <1>4, <1>5

CleanTypeInv == TypeInv /\ Places /\ CleanInv

LEMMA CleanHolds == Spec => []CleanTypeInv
<1>1. Init => CleanTypeInv
  <2>1. Init => CleanInv
    <3>1. Init => ~latest.clean
      <4>1. Init => latest = [by |-> "none", op |-> "none", alone |-> FALSE, free |-> FALSE,
                              clean |-> FALSE, failed |-> FALSE, speeds |-> "user"]
        BY DEF Init
      <4>2. QED
        BY <4>1
    <3>2. QED
      BY <3>1 DEF CleanInv
  <2>2. QED
    BY <2>1, TypeInit, PlacesInit DEF CleanTypeInv
<1>2. CleanTypeInv /\ [Next]_vars => CleanTypeInv'
  <2>1. SUFFICES ASSUME TypeInv, Places, CleanInv, [Next]_vars PROVE CleanInv'
    BY TypeStep, PlacesStep DEF CleanTypeInv
  <2>2. CASE Next
    BY <2>1, <2>2, CallsClean, ClientClean, ThreadClean DEF Next
  <2>3. CASE UNCHANGED vars
    <3>1. ASSUME NEW b \in Clients, NEW o, NEW v, Course(b, o, v) PROVE Course(b, o, v)'
      BY <2>3, <3>1, ElsewhereCourse DEF vars
    <3>2. QED
      BY <2>1, <2>3, <3>1, SameCourse DEF vars, SameCall
  <2>4. QED
    BY <2>1, <2>2, <2>3
<1>3. QED
  BY <1>1, <1>2, PTL DEF Spec

\* Whatever the joints, clients and operations: a command that began with
\* nothing in control leaves the joints in its mode and its trajectories in place.
THEOREM CommandsEngageProperly == Spec => []EngagedProperly
<1>1. CleanTypeInv => EngagedProperly
  <2>1. SUFFICES ASSUME CleanTypeInv, latest.clean, faults = MaxFaults, Idle, currentState # NC
                 PROVE  /\ currentState = latest.op
                        /\ Others(ModeOf(currentState)) = {}
                        /\ currentState \in {"movl", "movv"} => trajectories = currentState
    BY DEF EngagedProperly
  <2>2. latest.by \in Clients /\ Course(latest.by, latest.op, latest.speeds)
    BY <2>1 DEF CleanTypeInv, CleanInv
  <2>3. ~Underway(latest.by)
    BY <2>1, <2>2 DEF Idle, Underway, WaitSteps
  <2>4. currentState = latest.op
    BY <2>1, <2>2, <2>3 DEF Course, Turn
  <2>5. currentState \in Movements
    BY <2>1 DEF CleanTypeInv, TypeInv, TypeOK, ControllerType, States
  <2>6. QED
    BY <2>1, <2>2, <2>3, <2>4, <2>5 DEF Course, Made, Well, InMode, Control
<1>2. QED
  BY <1>1, CleanHolds, PTL

\* Nor does the periodic thread ever read trajectories that are not there, or
\* that a client is changing.
THEOREM CleanCommandsNeverCrash == Spec => []NoCrash
<1>1. CleanTypeInv => NoCrash
  <2>1. SUFFICES ASSUME CleanTypeInv, latest.clean
                 PROVE  ~crashed /\ (pc[Cmc] = "iterate" => ~Rewriting /\ trajectories # "none")
    BY DEF NoCrash
  <2>2. latest.by \in Clients /\ Course(latest.by, latest.op, latest.speeds)
    BY <2>1 DEF CleanTypeInv, CleanInv
  <2>3. SUFFICES ASSUME pc[Cmc] = "iterate" PROVE ~Rewriting /\ trajectories # "none"
    BY <2>2 DEF Course
  <2>4. ~Underway(latest.by)
    BY <2>2, <2>3 DEF Course, Turn
  <2>5. ~Rewriting
    BY <2>2, <2>4 DEF Course, Turn, Rewriting, Underway, WaitSteps
  <2>6. snap \in {"movl", "movv"} /\ currentState = latest.op /\ snap = latest.op
    BY <2>1, <2>2, <2>3, <2>4 DEF CleanTypeInv, Places, SnapFits, Course, Turn, Before
  <2>7. QED
    BY <2>2, <2>4, <2>5, <2>6 DEF Course, Made, Control
<1>2. QED
  BY <1>1, CleanHolds, PTL

\* And a movj that ends without errors gives the reference speeds back.
THEOREM SpeedsAreRestored == Spec => []SpeedsRestored
<1>1. CleanTypeInv => SpeedsRestored
  <2>1. SUFFICES ASSUME CleanTypeInv, latest.op = "movj", latest.clean, faults = MaxFaults, Idle,
                        currentState = NC, pc[Cmc] = "idle", cmcSuccess
                 PROVE  refSpeeds = latest.speeds
    BY DEF SpeedsRestored
  <2>2. latest.by \in Clients /\ Course(latest.by, latest.op, latest.speeds)
    BY <2>1 DEF CleanTypeInv, CleanInv
  <2>3. ~Underway(latest.by)
    BY <2>1, <2>2 DEF Idle, Underway, WaitSteps
  <2>4. QED
    BY <2>1, <2>2, <2>3 DEF Course, Well, Kept
<1>2. QED
  BY <1>1, CleanHolds, PTL

\* A wait is over in no other way than by its last step.
LEMMA WaitEnds ==
  ASSUME TypeInv, Places, NEW c \in Clients, [Next]_vars, pc[c] = "waitReturn", pc'[c] = "idle"
  PROVE  WaitReturn(c)
<1> USE DEF TypeInv, TypeOK
<1>1. ASSUME NEW d \in Clients, Calls(d) PROVE FALSE
  BY <1>1 DEF Calls, CallMovj, CallTrajectory, CallTorque, CallStop, CallWait, CallSetParameter, CallClose,
     Call, ThreadType, Actors
<1>2. ASSUME NEW d \in Clients, ClientNext(d) PROVE WaitReturn(c)
  BY <1>2 DEF ClientNext, GetRefSpeeds, SetRefSpeeds, ReadModes, WriteModes, PositionMove, ClearTrajectories,
     BuildTrajectories, Arm, Engage, SetFrame, Preset, Enable, WaitCheck, Poll, WaitReturn, Join, ThreadType, Actors
<1>3. ASSUME NEW t \in Actors, StopNext(t) PROVE FALSE
  BY <1>3 DEF StopNext, StopState, StopRead, StopWrite, StopMotion, StopClear, ThreadType, Actors
<1>4. CASE CmcNext
  BY <1>4, ClientsAssumption
  DEF CmcNext, Tick, CheckLimits, Abort, CheckModes, MotionDone, Finish, RestoreSpeeds, Iterate,
      SendVelocities, SendTorques, Then, EndTick, ThreadType, Cmc, Actors
<1>5. CASE StreamNext
  BY <1>5, ClientsAssumption
  DEF StreamNext, StreamCall, StreamCommand, StreamModes, StreamMove, Passed, Dropped, ThreadType, Cmc, Actors, Stream
<1>6. CASE Environment \/ UNCHANGED vars
  BY <1>6 DEF Environment, Elapse, Arrive, ModeLost, vars
<1>7. QED
  BY <1>1, <1>2, <1>3, <1>4, <1>5, <1>6 DEF Next

\* wait tells the truth on any robot that has a joint.
THEOREM WaitIsTruthful ==
  ASSUME Joints # {}
  PROVE  Spec => WaitTellsTruth
<1>1. ASSUME CleanTypeInv, [Next]_vars, NEW c \in Clients, pc[c] = "waitReturn", op[c] = "wait",
             latest.clean, faults = MaxFaults, ret'[c], pc'[c] = "idle"
      PROVE  /\ latest.op = "movj" => atTarget
             /\ latest.op = "movl" => elapsed
  <2>1. WaitReturn(c)
    BY <1>1, WaitEnds DEF CleanTypeInv
  <2>2. cmcSuccess
    BY <1>1, <2>1 DEF WaitReturn, CleanTypeInv, TypeInv, TypeOK, ThreadType
  <2>3. latest.by \in Clients /\ Course(latest.by, latest.op, latest.speeds)
    BY <1>1 DEF CleanTypeInv, CleanInv
  <2>4. ~Underway(latest.by)
    BY <1>1, <2>3 DEF Course, Turn, Alone, Underway, WaitSteps
  <2>5. currentState = NC
    BY <1>1, <2>3, <2>4 DEF Course, Turn
  <2>6. QED
    BY <1>1, <2>2, <2>3, <2>4, <2>5 DEF Course, Well, Completed
<1>2. CleanTypeInv /\ [Next]_vars =>
        [\A c \in Clients :
           (pc[c] = "waitReturn" /\ op[c] = "wait" /\ latest.clean /\ faults = MaxFaults /\ ret'[c] /\ pc'[c] = "idle")
           => /\ latest.op = "movj" => atTarget
              /\ latest.op = "movl" => elapsed]_vars
  BY <1>1
<1>3. QED
  BY <1>2, CleanHolds, PTL DEF Spec, WaitTellsTruth

-----------------------------------------------------------------------------
(* What the refinement rests on, beyond TypeInv, Places, StopInv and Serial. *)

\* Nothing is ever let in by the command port.
NoStreaming ==
  /\ streamingCommand = "NOT_SET"
  /\ pc[Stream] = "idle"
  /\ \A c \in Clients : op[c] \notin Presets

Undisturbed == ~overlapped /\ faults = MaxFaults

\* The last recorded call of a client that is stopping is that stop.
StopKnown ==
  Undisturbed => \A c \in Clients : pc[c] \in StopSteps => Stopped /\ latest.by = c

\* A wait that is over leaves nothing that could be waited for.
Waited ==
  Undisturbed => \A c \in Clients : pc[c] = "waitReturn" => currentState = NC

\* Steps of run() that may still send a set-point to joints that move otherwise.
Driving == {"limits", "checkModes", "iterate", "velocityMove", "torque"}

\* A client that neither switches joints to the mode of a movement nor is still
\* about to switch them back.
Resting(c) == pc[c] \notin {"stopState", "stopRead", "stopWrite"} /\ op[c] \notin Movements \ {"movj"}

\* An iteration that outlasts the state it began with finds no joint to move.
Calm ==
  (Undisturbed /\ currentState = NC /\ pc[Cmc] \in Driving /\ \A c \in Clients : Resting(c))
  => \A j \in Joints : AtRest(j)

Orderly == NoStreaming /\ StopKnown /\ Waited /\ Calm

OrderlyInv == StopInv /\ SerialInv /\ Places /\ Orderly

LEMMA OrderlyInit == Init => Orderly
BY DEF Init, Orderly, NoStreaming, StopKnown, Waited, Calm, Driving, StopSteps, Actors, Presets, Cmc, Stream

\* Without presets, no step of the command port nor of a preset is possible.
LEMMA NoStreamingStep ==
  ASSUME Presets \intersect Ops = {}, TypeInv, NoStreaming, [Next]_vars
  PROVE  NoStreaming'
<1> USE DEF TypeInv, TypeOK
<1>1. streamingCommand' = "NOT_SET"
  <2>1. ~\E c \in Clients : Enable(c)
    BY DEF Enable, OpOK, Fits, NoStreaming
  <2>2. CASE StreamNext
    BY <2>2 DEF NoStreaming, StreamNext, StreamCall, StreamCommand, StreamModes, StreamMove
  <2>3. CASE CmcNext
    BY <2>3 DEF NoStreaming, CmcNext, Tick, CheckLimits, Abort, CheckModes, MotionDone, Finish, RestoreSpeeds,
       Iterate, SendVelocities, SendTorques
  <2>4. ASSUME NEW c \in Clients, Calls(c) PROVE streamingCommand' = streamingCommand
    BY <2>4 DEF Calls, CallMovj, CallTrajectory, CallTorque, CallStop, CallWait, CallSetParameter, CallClose, Call
  <2>5. ASSUME NEW c \in Clients, ClientNext(c) PROVE streamingCommand' \in {streamingCommand, "NOT_SET"}
    BY <2>1, <2>5 DEF ClientNext, GetRefSpeeds, SetRefSpeeds, ReadModes, WriteModes, PositionMove,
     ClearTrajectories, BuildTrajectories, Arm, Engage, SetFrame, Preset, WaitCheck, Poll, WaitReturn, Join
  <2>6. ASSUME NEW t \in Actors, StopNext(t) PROVE streamingCommand' \in {streamingCommand, "NOT_SET"}
    BY <2>6 DEF StopNext, StopState, StopRead, StopWrite, StopMotion, StopClear
  <2>7. CASE Environment \/ UNCHANGED vars
    BY <2>7 DEF NoStreaming, Environment, Elapse, Arrive, ModeLost, vars
  <2>8. QED
    BY <2>2, <2>3, <2>4, <2>5, <2>6, <2>7 DEF Next, NoStreaming
<1>2. pc'[Stream] = "idle"
  <2>1. CASE StreamNext
    BY <2>1 DEF NoStreaming, StreamNext, StreamCall, StreamCommand, StreamModes, StreamMove
  <2>2. ASSUME NEW t \in Actors, \E step : Goto(t, step) PROVE pc'[Stream] = "idle"
    BY <2>2, ClientsAssumption DEF NoStreaming, ThreadType, Actors, Cmc, Stream
  <2>3. CASE CmcNext
    BY <2>2, <2>3 DEF CmcNext, Tick, CheckLimits, Abort, CheckModes, MotionDone, Finish, RestoreSpeeds,
       Iterate, SendVelocities, SendTorques, Then, EndTick, NoStreaming, Actors
  <2>4. ASSUME NEW c \in Clients, Calls(c) PROVE pc'[Stream] = "idle"
    BY <2>2, <2>4 DEF Calls, CallMovj, CallTrajectory, CallTorque, CallStop, CallWait, CallSetParameter,
       CallClose, Call, Actors
  <2>5. ASSUME NEW c \in Clients, ClientNext(c) PROVE pc'[Stream] = "idle"
    <3>1. CASE Join(c)
      BY <3>1, ClientsAssumption DEF Join, NoStreaming, ThreadType, Actors, Cmc, Stream
    <3>2. QED
      BY <2>2, <2>5, <3>1 DEF ClientNext, GetRefSpeeds, SetRefSpeeds, ReadModes, WriteModes, PositionMove,
     ClearTrajectories, BuildTrajectories, Arm, Engage, SetFrame, Preset, Enable, WaitCheck, Poll, WaitReturn, Actors
  <2>6. ASSUME NEW t \in Actors, StopNext(t) PROVE pc'[Stream] = "idle"
    BY <2>2, <2>6 DEF StopNext, StopState, StopRead, StopWrite, StopMotion, StopClear
  <2>7. CASE Environment \/ UNCHANGED vars
    BY <2>7 DEF NoStreaming, Environment, Elapse, Arrive, ModeLost, vars
  <2>8. QED
    BY <2>1, <2>3, <2>4, <2>5, <2>6, <2>7 DEF Next
<1>3. \A c \in Clients : op'[c] \notin Presets
  <2>1. ASSUME NEW c \in Clients, Calls(c) PROVE \A d \in Clients : op'[d] \notin Presets
    <3>1. PICK o \in Ops : op' = [op EXCEPT ![c] = o]
      BY <2>1 DEF Calls, CallMovj, CallTrajectory, CallTorque, CallStop, CallWait, CallSetParameter,
         CallClose, Call
    <3>2. QED
      BY <3>1 DEF NoStreaming, ThreadType
  <2>2. ASSUME NEW c \in Clients, NEW r, Return(c, r) PROVE \A d \in Clients : op'[d] \notin Presets
    BY <2>2 DEF NoStreaming, ThreadType, Presets
  <2>3. ASSUME NEW c \in Clients, ClientNext(c) PROVE \A d \in Clients : op'[d] \notin Presets
    BY <2>2, <2>3 DEF NoStreaming, ClientNext, GetRefSpeeds, SetRefSpeeds, ReadModes, WriteModes, PositionMove,
     ClearTrajectories, BuildTrajectories, Arm, Engage, SetFrame, Preset, Enable, WaitCheck, Poll, WaitReturn, Join
  <2>4. ASSUME NEW t \in Actors, StopNext(t) PROVE \A d \in Clients : op'[d] \notin Presets
    BY <2>2, <2>4 DEF NoStreaming, StopNext, StopState, StopRead, StopWrite, StopMotion, StopClear, Actors
  <2>5. CASE CmcNext \/ StreamNext \/ Environment \/ UNCHANGED vars
    BY <2>5 DEF NoStreaming, CmcNext, Tick, CheckLimits, Abort, CheckModes, MotionDone, Finish, RestoreSpeeds,
       Iterate, SendVelocities, SendTorques, Then, EndTick, StreamNext, StreamCall, StreamCommand, StreamModes,
       StreamMove, Passed, Dropped, Environment, Elapse, Arrive, ModeLost, vars
  <2>6. QED
    BY <2>1, <2>3, <2>4, <2>5 DEF Next
<1>4. QED
  BY <1>1, <1>2, <1>3 DEF NoStreaming

\* Overlaps and failures are not forgotten.
LEMMA Remembered ==
  ASSUME TypeInv, [Next]_vars, Undisturbed'
  PROVE  Undisturbed
<1> USE DEF TypeInv, TypeOK
<1>1. overlapped => overlapped'
  BY ZenonT(60) DEF Next, Calls, CallMovj, CallTrajectory, CallTorque, CallStop, CallWait, CallSetParameter,
     CallClose, Recorded, ClientNext, GetRefSpeeds, SetRefSpeeds, ReadModes, WriteModes, PositionMove,
     ClearTrajectories, BuildTrajectories, Arm, Engage, SetFrame, Preset, Enable, WaitCheck, Poll, WaitReturn,
     Join, StopNext, StopState, StopRead, StopWrite, StopMotion, StopClear, CmcNext, Tick, CheckLimits, Abort,
     CheckModes, MotionDone, Finish, RestoreSpeeds, Iterate, SendVelocities, SendTorques, StreamNext, StreamCall,
     StreamCommand, StreamModes, StreamMove, Environment, Elapse, Arrive, ModeLost, vars, Fails
<1>2. faults' = faults \/ (faults > 0 /\ faults' = faults - 1)
  <2> USE DEF Fails
  <2>1. ASSUME NEW c \in Clients, Calls(c) PROVE faults' = faults
    BY <2>1 DEF Calls, CallMovj, CallTrajectory, CallTorque, CallStop, CallWait, CallSetParameter, CallClose, Call
  <2>2. ASSUME NEW c \in Clients, ClientNext(c) PROVE faults' = faults \/ (faults > 0 /\ faults' = faults - 1)
    BY <2>2 DEF ClientNext, GetRefSpeeds, SetRefSpeeds, ReadModes, WriteModes, PositionMove,
     ClearTrajectories, BuildTrajectories, Arm, Engage, SetFrame, Preset, Enable, WaitCheck, Poll, WaitReturn, Join
  <2>3. ASSUME NEW t \in Actors, StopNext(t) PROVE faults' = faults \/ (faults > 0 /\ faults' = faults - 1)
    BY <2>3 DEF StopNext, StopState, StopRead, StopWrite, StopMotion, StopClear
  <2>4. CASE CmcNext
    BY <2>4 DEF CmcNext, Tick, CheckLimits, Abort, CheckModes, MotionDone, Finish, RestoreSpeeds, Iterate,
     SendVelocities, SendTorques
  <2>5. CASE StreamNext \/ Environment \/ UNCHANGED vars
    BY <2>5 DEF StreamNext, StreamCall, StreamCommand, StreamModes, StreamMove, Environment, Elapse, Arrive,
     ModeLost, vars
  <2>6. QED
    BY <2>1, <2>2, <2>3, <2>4, <2>5 DEF Next
<1>3. faults' = MaxFaults => faults = MaxFaults
  BY <1>2, FaultsAssumption DEF HistoryType
<1>4. QED
  BY <1>1, <1>3 DEF Undisturbed

\* The periodic thread and the environment leave the clients where they are, and
\* the state as it is or released.
LEMMA Elsewhere ==
  ASSUME TypeInv, NoStreaming, Presets \intersect Ops = {},
         CmcNext \/ StopNext(Cmc) \/ StreamNext \/ Environment \/ UNCHANGED vars
  PROVE  /\ \A c \in Clients : pc'[c] = pc[c] /\ op'[c] = op[c] /\ ret'[c] = ret[c]
         /\ op' = op /\ ret' = ret
         /\ currentState' \in {currentState, NC}
         /\ overlapped' = overlapped
         /\ faults' = MaxFaults => latest' = latest
<1> USE DEF TypeInv, TypeOK
<1>1. ~StreamNext
  BY DEF NoStreaming, StreamNext, StreamCall, StreamCommand, StreamModes, StreamMove
<1>2. CASE CmcNext
  BY <1>2, ClientsAssumption, FailedCourse
  DEF CmcNext, Tick, CheckLimits, Abort, CheckModes, MotionDone, Finish, RestoreSpeeds, Iterate,
      SendVelocities, SendTorques, Then, EndTick, ThreadType, Cmc, Actors, Fails
<1>3. CASE StopNext(Cmc)
  BY <1>3, ClientsAssumption, FailedCourse
  DEF StopNext, StopState, StopRead, StopWrite, StopMotion, StopClear, ThreadType, Cmc, Actors, Fails
<1>4. CASE Environment \/ UNCHANGED vars
  BY <1>4, FaultsAssumption DEF Environment, Elapse, Arrive, ModeLost, vars, HistoryType
<1>5. QED
  BY <1>1, <1>2, <1>3, <1>4

\* A client that takes a step in a call is alone with it, as long as calls never overlapped.
LEMMA OnlyOne ==
  ASSUME TypeInv, Serial, NEW c \in Clients, ~overlapped, ClientNext(c) \/ StopNext(c)
  PROVE  \A d \in Clients \ {c} : pc[d] = "idle" /\ pc'[d] = pc[d] /\ op'[d] = op[d]
<1> USE DEF TypeInv, TypeOK
<1>1. pc[c] # "idle"
  BY DEF ClientNext, GetRefSpeeds, SetRefSpeeds, ReadModes, WriteModes, PositionMove,
     ClearTrajectories, BuildTrajectories, Arm, Engage, SetFrame, Preset, Enable, WaitCheck, Poll, WaitReturn,
     Join, StopNext, StopState, StopRead, StopWrite, StopMotion, StopClear
<1>2. \A d \in Clients \ {c} : pc[d] = "idle"
  BY <1>1 DEF Serial, Alone
<1>3. c # Cmc
  BY ClientsAssumption DEF Cmc
<1>4. CASE ClientNext(c)
  BY <1>2, <1>3, <1>4, ClientsAssumption DEF ClientNext, GetRefSpeeds, SetRefSpeeds, ReadModes, WriteModes, PositionMove,
     ClearTrajectories, BuildTrajectories, Arm, Engage, SetFrame, Preset, Enable, WaitCheck, Poll, WaitReturn,
     Join, ThreadType, Actors, Cmc
<1>5. CASE StopNext(c)
  BY <1>2, <1>3, <1>5 DEF StopNext, StopState, StopRead, StopWrite, StopMotion, StopClear, ThreadType, Actors
<1>6. QED
  BY <1>4, <1>5

\* A call that does not overlap begins alone.
LEMMA FirstOne ==
  ASSUME TypeInv, NEW c \in Clients, Calls(c), ~overlapped'
  PROVE  /\ \A d \in Clients \ {c} : pc[d] = "idle" /\ pc'[d] = "idle" /\ op'[d] = op[d]
         /\ pc[c] = "idle" /\ op'[c] \in Ops /\ pc'[Cmc] = pc[Cmc]
         /\ UNCHANGED <<control, robot>>
<1> USE DEF TypeInv, TypeOK
<1>1. Alone(c)
  <2>1. overlapped' = (overlapped \/ ~Alone(c))
    BY Zenon DEF Calls, CallMovj, CallTrajectory, CallTorque, CallStop, CallWait, CallSetParameter, CallClose, Recorded
  <2>2. QED
    BY <2>1
<1>2. PICK o, step : o \in Ops /\ Call(c, o, step)
  BY DEF Calls, CallMovj, CallTrajectory, CallTorque, CallStop, CallWait, CallSetParameter, CallClose, Call
<1>3. QED
  BY <1>1, <1>2, ClientsAssumption DEF Call, Alone, ThreadType, Actors, Cmc

LEMMA StopKnownStep ==
  ASSUME Presets \intersect Ops = {}, TypeInv, Serial, NoStreaming, StopKnown, [Next]_vars
  PROVE  StopKnown'
<1> USE DEF TypeInv, TypeOK
<1> SUFFICES ASSUME Undisturbed', NEW e \in Clients, pc'[e] \in StopSteps
             PROVE  Stopped' /\ latest'.by = e
  BY DEF StopKnown
<1>1. Undisturbed
  BY Remembered
<1>2. pc[e] \in StopSteps => Stopped /\ latest.by = e
  BY <1>1 DEF StopKnown
<1>3. ASSUME latest' = latest, pc[e] \in StopSteps PROVE Stopped' /\ latest'.by = e
  BY <1>2, <1>3, Zenon DEF Stopped
<1>4. ASSUME NEW o \in {"stop", "close"}, Recorded(e, o) PROVE Stopped' /\ latest'.by = e
  <2>1. Alone(e)
    BY <1>4, Zenon DEF Recorded, Undisturbed
  <2>2. QED
    BY <1>4, <2>1, Zenon DEF Recorded, Stopped
<1>5. ASSUME NEW c \in Clients, Calls(c) PROVE Stopped' /\ latest'.by = e
  <2>1. c = e
    BY <1>5, FirstOne DEF Undisturbed, StopSteps
  <2>2. CASE CallStop(c) \/ CallClose(c)
    BY <1>4, <2>1, <2>2 DEF CallStop, CallClose
  <2>3. CASE ~(CallStop(c) \/ CallClose(c))
    <3>1. pc'[c] \in {"getRefSpeeds", "clear", "readModes", "waitCheck", "setFrame", "preset"}
      BY <1>5, <2>3 DEF Calls, CallMovj, CallTrajectory, CallTorque, CallWait, CallSetParameter, Call,
         ThreadType, Actors
    <3>2. QED
      BY <2>1, <3>1 DEF StopSteps
  <2>4. QED
    BY <2>2, <2>3
<1>6. ASSUME NEW c \in Clients, ClientNext(c) PROVE Stopped' /\ latest'.by = e
  <2>1. c = e
    BY <1>1, <1>6, OnlyOne DEF Undisturbed, StopSteps
  <2>2. CASE Poll(c)
    <3>1. pc'[c] = "waitReturn" \/ Recorded(c, "stop")
      BY <2>2 DEF Poll, ThreadType, Actors
    <3>2. QED
      BY <1>4, <2>1, <3>1 DEF StopSteps
  <2>3. CASE ~Poll(c)
    <3>1. pc'[c] \in Steps \ StopSteps
      <4>1. CASE WriteModes(c)
        <5>1. op[c] \in Movements \union Presets
          BY <4>1 DEF WriteModes, OpOK, Fits
        <5>2. AfterModes(op[c]) \in {"positionMove", "arm", "engage", "enable"}
          BY <5>1, AfterModesSteps DEF Movements
        <5>3. pc'[c] \in {"idle", AfterModes(op[c])}
          BY <4>1 DEF WriteModes, ThreadType, Actors
        <5>4. QED
          BY <5>2, <5>3 DEF Steps, StopSteps
      <4>2. CASE ~WriteModes(c)
        BY <1>6, <2>3, <4>2 DEF ClientNext, GetRefSpeeds, SetRefSpeeds, ReadModes, PositionMove,
     ClearTrajectories, BuildTrajectories, Arm, Engage, SetFrame, Preset, Enable, WaitCheck, WaitReturn,
     Join, ThreadType, Actors, Steps, StopSteps
      <4>3. QED
        BY <4>1, <4>2
    <3>2. QED
      BY <2>1, <3>1
  <2>4. QED
    BY <2>2, <2>3
<1>7. ASSUME NEW t \in Clients, StopNext(t) PROVE Stopped' /\ latest'.by = e
  <2>1. t = e
    BY <1>1, <1>7, OnlyOne DEF Undisturbed, StopSteps
  <2>2. pc[t] \in StopSteps
    BY <1>7 DEF StopNext, StopState, StopRead, StopWrite, StopMotion, StopClear, StopSteps
  <2>3. latest' = latest
    BY <1>7, FailedCourse DEF StopNext, StopState, StopRead, StopWrite, StopMotion, StopClear, Undisturbed
  <2>4. QED
    BY <1>3, <2>1, <2>2, <2>3
<1>8. CASE CmcNext \/ StopNext(Cmc) \/ StreamNext \/ Environment \/ UNCHANGED vars
  BY <1>3, <1>8, Elsewhere DEF Undisturbed
<1>9. QED
  BY <1>5, <1>6, <1>7, <1>8 DEF Next, Actors

LEMMA WaitedStep ==
  ASSUME Presets \intersect Ops = {}, StopInv, Serial, NoStreaming, StopKnown, Waited, [Next]_vars
  PROVE  Waited'
<1> USE DEF TypeInv, TypeOK, StopInv
<1> SUFFICES ASSUME Undisturbed', NEW e \in Clients, pc'[e] = "waitReturn"
             PROVE  currentState' = NC
  BY DEF Waited
<1>1. Undisturbed
  BY Remembered
<1>2. pc[e] = "waitReturn" => currentState = NC
  BY <1>1 DEF Waited
<1>3. ASSUME NEW c \in Clients, Calls(c) PROVE FALSE
  <2>1. pc'[c] # "waitReturn"
    BY <1>3 DEF Calls, CallMovj, CallTrajectory, CallTorque, CallStop, CallWait, CallSetParameter, CallClose,
       Call, ThreadType, Actors
  <2>2. QED
    BY <1>3, <2>1, FirstOne DEF Undisturbed
<1>4. ASSUME NEW c \in Clients, ClientNext(c) PROVE currentState' = NC
  <2>1. c = e
    BY <1>1, <1>4, OnlyOne DEF Undisturbed
  <2>2. CASE WriteModes(c)
    <3>1. op[c] \in Movements \union Presets
      BY <2>2 DEF WriteModes, OpOK, Fits
    <3>2. AfterModes(op[c]) \in {"positionMove", "arm", "engage", "enable"}
      BY <3>1, AfterModesSteps DEF Movements
    <3>3. pc'[c] \in {"idle", AfterModes(op[c])}
      BY <2>2 DEF WriteModes, ThreadType, Actors
    <3>4. QED
      BY <2>1, <3>2, <3>3
  <2>3. CASE ~WriteModes(c)
    BY <1>4, <2>1, <2>3 DEF ClientNext, GetRefSpeeds, SetRefSpeeds, ReadModes, PositionMove,
     ClearTrajectories, BuildTrajectories, Arm, Engage, SetFrame, Preset, Enable, WaitCheck, Poll, WaitReturn,
     Join, ThreadType, Actors
  <2>4. QED
    BY <2>2, <2>3
<1>5. ASSUME NEW t \in Clients, StopNext(t) PROVE currentState' = NC
  <2>1. t = e
    BY <1>1, <1>5, OnlyOne DEF Undisturbed
  <2>2. StopClear(t)
    BY <1>5, <2>1 DEF StopNext, StopState, StopRead, StopWrite, StopMotion, ThreadType, Actors
  <2>3. Progress(t)
    BY <1>1, <2>2 DEF StopKnown, StopProgress, StopClear, StopSteps
  <2>4. QED
    BY <2>2, <2>3 DEF StopClear, Progress, StateReleased
<1>6. CASE CmcNext \/ StopNext(Cmc) \/ StreamNext \/ Environment \/ UNCHANGED vars
  BY <1>2, <1>6, Elsewhere
<1>7. QED
  BY <1>3, <1>4, <1>5, <1>6 DEF Next, Actors

LEMMA CalmStep ==
  ASSUME Presets \intersect Ops = {}, StopInv, StopInv', Serial, Places, NoStreaming, StopKnown, StopKnown', Calm,
         [Next]_vars
  PROVE  Calm'
<1> USE DEF TypeInv, TypeOK, StopInv
<1> SUFFICES ASSUME Undisturbed', currentState' = NC, pc'[Cmc] \in Driving, \A c \in Clients : Resting(c)'
             PROVE  \A j \in Joints : AtRest(j)'
  BY DEF Calm
<1>1. Undisturbed
  BY Remembered
<1>2. ASSUME currentState = NC, pc[Cmc] \in Driving, \A c \in Clients : Resting(c), mode' = mode
      PROVE  \A j \in Joints : AtRest(j)'
  BY <1>1, <1>2 DEF Calm, AtRest
<1>3. ASSUME NEW c \in Clients, Calls(c) PROVE \A j \in Joints : AtRest(j)'
  <2>1. /\ \A d \in Clients \ {c} : pc'[d] = pc[d] /\ op'[d] = op[d]
        /\ pc[c] = "idle" /\ UNCHANGED <<control, robot>> /\ pc'[Cmc] = pc[Cmc]
    BY <1>3, FirstOne DEF Undisturbed
  <2>2. op[c] = "none"
    BY <2>1 DEF Places, OpFits
  <2>3. \A d \in Clients : Resting(d)
    BY <2>1, <2>2 DEF Resting, Movements
  <2>4. QED
    BY <1>2, <2>1, <2>3
<1>4. ASSUME NEW c \in Clients, ClientNext(c) PROVE \A j \in Joints : AtRest(j)'
  <2>1. \A d \in Clients \ {c} : Resting(d)
    <3>1. \A d \in Clients \ {c} : pc'[d] = pc[d] /\ op'[d] = op[d]
      BY <1>1, <1>4, OnlyOne DEF Undisturbed
    <3>2. QED
      BY <3>1 DEF Resting
  <2>2. ~Fails(c)
    BY FailedCourse DEF Undisturbed
  <2>3. pc'[Cmc] = pc[Cmc]
    BY <1>4, ClientsAssumption DEF ClientNext, GetRefSpeeds, SetRefSpeeds, ReadModes, WriteModes, PositionMove,
     ClearTrajectories, BuildTrajectories, Arm, Engage, SetFrame, Preset, Enable, WaitCheck, Poll, WaitReturn,
     Join, ThreadType, Actors, Cmc, Driving
  <2>4. Fits(op[c], pc[c]) /\ OpFits(op[c], pc[c]) /\ op[c] \notin Presets
    BY DEF OpOK, Places, NoStreaming
  <2>5. pc[c] \notin {"stopState", "stopRead", "stopWrite"}
    BY <1>4 DEF ClientNext, GetRefSpeeds, SetRefSpeeds, ReadModes, WriteModes, PositionMove,
     ClearTrajectories, BuildTrajectories, Arm, Engage, SetFrame, Preset, Enable, WaitCheck, Poll, WaitReturn, Join
  <2>6. CASE PositionMove(c) \/ SetFrame(c) \/ Preset(c) \/ WaitCheck(c) \/ WaitReturn(c) \/ Poll(c) \/ Join(c)
    <3>1. op[c] \notin Movements \ {"movj"}
      BY <2>4, <2>6 DEF PositionMove, SetFrame, Preset, WaitCheck, WaitReturn, Poll, Join, Fits, OpFits,
         Movements, Presets
    <3>2. currentState = NC
      <4>1. CASE Preset(c)
        BY <1>1, <4>1 DEF Preset, Undisturbed, Serial, Setting
      <4>2. CASE ~Preset(c)
        BY <2>6, <4>2 DEF PositionMove, SetFrame, WaitCheck, WaitReturn, Poll, Join
      <4>3. QED
        BY <4>1, <4>2
    <3>3. mode' = mode
      BY <2>6 DEF PositionMove, SetFrame, Preset, WaitCheck, WaitReturn, Poll, Join
    <3>4. QED
      BY <1>2, <2>1, <2>3, <2>5, <3>1, <3>2, <3>3 DEF Resting
  <2>7. CASE GetRefSpeeds(c) \/ SetRefSpeeds(c) \/ ReadModes(c) \/ WriteModes(c) \/ ClearTrajectories(c)
             \/ BuildTrajectories(c) \/ Arm(c)
    <3>1. op' = op /\ currentState = NC
      BY <2>2, <2>7 DEF GetRefSpeeds, SetRefSpeeds, ReadModes, WriteModes, ClearTrajectories,
         BuildTrajectories, Arm
    <3>2. op[c] \notin Movements \ {"movj"}
      BY <3>1 DEF Resting
    <3>3. \A j \in Joints : AtRest(j)
      BY <1>1, <2>1, <2>3, <2>5, <3>1, <3>2 DEF Calm, Resting
    <3>4. CASE WriteModes(c)
      <4>1. op[c] = "movj"
        BY <2>4, <3>2, <3>4 DEF WriteModes, Fits
      <4>2. SwitchModes(stale[c], "POSITION")
        BY <2>2, <3>4, <4>1, MovjMode DEF WriteModes
      <4>3. QED
        BY <3>3, <4>2 DEF SwitchModes, AtRest
    <3>5. CASE ~WriteModes(c)
      BY <2>7, <3>3, <3>5 DEF GetRefSpeeds, SetRefSpeeds, ReadModes, ClearTrajectories, BuildTrajectories, Arm, AtRest
    <3>6. QED
      BY <3>4, <3>5
  <2>8. CASE Engage(c)
    BY <2>4, <2>8 DEF Engage, Fits, Movements, NC
  <2>9. CASE Enable(c)
    BY <2>4, <2>9 DEF Enable, Fits
  <2>10. QED
    BY <1>4, <2>6, <2>7, <2>8, <2>9 DEF ClientNext
<1>5. ASSUME NEW t \in Clients, StopNext(t) PROVE \A j \in Joints : AtRest(j)'
  <2>1. pc'[t] \notin {"stopState", "stopRead", "stopWrite"}
    BY DEF Resting
  <2>2. ~Fails(t)
    BY FailedCourse DEF Undisturbed
  <2>3. StopWrite(t) \/ StopMotion(t) \/ StopClear(t)
    BY <1>5, <2>1, <2>2 DEF StopNext, StopState, StopRead, ThreadType, Actors
  <2>4. CASE StopWrite(t)
    <3>1. pc'[t] = "stopMotion"
      BY <2>4 DEF StopWrite, ThreadType, Actors
    <3>2. Progress(t)'
      BY <3>1 DEF StopKnown, StopProgress, StopSteps
    <3>3. QED
      BY <3>1, <3>2 DEF Progress, ModesRestored
  <2>5. CASE StopMotion(t) \/ StopClear(t)
    <3>1. pc[t] \in {"stopMotion", "stopClear"} /\ mode' = mode
      BY <2>5 DEF StopMotion, StopClear
    <3>2. Progress(t)
      BY <1>1, <3>1 DEF StopKnown, StopProgress, StopSteps
    <3>3. QED
      BY <3>1, <3>2 DEF Progress, ModesRestored, AtRest
  <2>6. QED
    BY <2>3, <2>4, <2>5
<1>6. CASE StopNext(Cmc)
  BY <1>6 DEF StopNext, StopState, StopRead, StopWrite, StopMotion, StopClear, ThreadType, Cmc, Actors, Driving
<1>7. CASE CmcNext \/ StreamNext \/ Environment \/ UNCHANGED vars
  <2>1. \A c \in Clients : Resting(c)
    BY <1>7, Elsewhere DEF Resting
  <2>2. CASE CmcNext
    <3>1. CASE CheckLimits \/ CheckModes \/ Iterate
      BY <1>2, <2>1, <3>1 DEF CheckLimits, CheckModes, Iterate, Driving
    <3>2. CASE Tick
      BY <3>2 DEF Tick
    <3>3. CASE Abort \/ MotionDone \/ Finish \/ RestoreSpeeds \/ SendVelocities \/ SendTorques
      BY <3>3 DEF Abort, MotionDone, Finish, RestoreSpeeds, SendVelocities, SendTorques, Then, EndTick,
         ThreadType, Cmc, Actors, Driving
    <3>4. QED
      BY <2>2, <3>1, <3>2, <3>3 DEF CmcNext
  <2>3. CASE StreamNext
    BY <2>3 DEF NoStreaming, StreamNext, StreamCall, StreamCommand, StreamModes, StreamMove
  <2>4. CASE Environment \/ UNCHANGED vars
    <3>1. UNCHANGED <<pc, currentState, mode>>
      BY <2>4, FaultsAssumption DEF Environment, Elapse, Arrive, ModeLost, vars, HistoryType, Undisturbed
    <3>2. QED
      BY <1>2, <2>1, <3>1
  <2>5. QED
    BY <1>7, <2>2, <2>3, <2>4
<1>8. QED
  BY <1>3, <1>4, <1>5, <1>6, <1>7 DEF Next, Actors

LEMMA OrderlyHolds ==
  ASSUME Presets \intersect Ops = {}
  PROVE  Spec => []OrderlyInv
<1>1. Init => OrderlyInv
  BY StopInit, SerialInit, PlacesInit, OrderlyInit DEF OrderlyInv
<1>2. OrderlyInv /\ [Next]_vars => OrderlyInv'
  <2>1. SUFFICES ASSUME OrderlyInv, [Next]_vars PROVE OrderlyInv'
    OBVIOUS
  <2>2. StopInv' /\ SerialInv' /\ Places'
    BY <2>1, StopStep, SerialStep, PlacesStep DEF OrderlyInv, StopInv
  <2>3. NoStreaming' /\ StopKnown' /\ Waited'
    BY <2>1, NoStreamingStep, StopKnownStep, WaitedStep DEF OrderlyInv, Orderly, StopInv, SerialInv
  <2>4. Calm'
    BY <2>1, <2>2, <2>3, CalmStep DEF OrderlyInv, Orderly, SerialInv
  <2>5. QED
    BY <2>2, <2>3, <2>4 DEF OrderlyInv, Orderly
<1>3. QED
  BY <1>1, <1>2, PTL DEF Spec

-----------------------------------------------------------------------------
(* The contract, step by step.                                             *)

Pending  == [c \in Clients |-> Kind(op[c])]
Alright  == faults = MaxFaults /\ \A c \in Clients : ret[c]

LEMMA KindOfMovement == \A o \in Movements \union {"none", "stop", "wait", "close"} : Kind(o) = o
<1>1. ASSUME NEW o \in Movements \union {"none", "stop", "wait", "close"} PROVE Kind(o) = o
  <2>1. o \notin Presets \union {"frame", "unsupported"} /\ o # "waitTimeout"
    BY DEF Movements, Presets
  <2>2. QED
    BY <2>1, Zenon DEF Kind
<1>2. QED
  BY <1>1

LEMMA KindOfOther ==
  /\ Kind("waitTimeout") = "wait"
  /\ \A o \in Presets \union {"frame", "unsupported"} : Kind(o) = "set"
<1>1. Kind("waitTimeout") = "wait"
  <2>1. "waitTimeout" \notin Presets \union {"frame", "unsupported"}
    BY DEF Presets
  <2>2. QED
    BY <2>1, Zenon DEF Kind
<1>2. ASSUME NEW o \in Presets \union {"frame", "unsupported"} PROVE Kind(o) = "set"
  <2>1. o # "waitTimeout"
    BY DEF Presets
  <2>2. QED
    BY <2>1, Zenon DEF Kind
<1>3. QED
  BY <1>1, <1>2

LEMMA PendingOf ==
  ASSUME TypeInv, Places, NEW c \in Clients
  PROVE  /\ Pending[c] = Kind(op[c])
         /\ Pending[c] = "none" <=> pc[c] = "idle"
<1>1. op[c] \in Operations \union {"none"} /\ (pc[c] = "idle" <=> op[c] = "none")
  BY DEF TypeInv, TypeOK, ThreadType, Places, OpFits
<1>2. Kind(op[c]) = "none" <=> op[c] = "none"
  BY <1>1, KindOfMovement, KindOfOther DEF Operations, Movements, Presets
<1>3. QED
  BY <1>1, <1>2 DEF Pending

\* A call that begins.
LEMMA CallInvokes ==
  ASSUME OrderlyInv, OrderlyInv', NEW c \in Clients, Calls(c)
  PROVE  Contract!Invoke(c)
<1> USE DEF OrderlyInv, SerialInv, Orderly
<1>1. PICK o, step : o \in Operations /\ Call(c, o, step)
  BY OpsAssumption
  DEF Calls, CallMovj, CallTrajectory, CallTorque, CallStop, CallWait, CallSetParameter, CallClose, Call
<1>2. overlapped' = (overlapped \/ ~Alone(c))
  BY Zenon DEF Calls, CallMovj, CallTrajectory, CallTorque, CallStop, CallWait, CallSetParameter, CallClose, Recorded
<1>3. Pending[c] = "none" /\ Kind(o) \in Contract!Calls
  BY <1>1, PendingOf, KindOfMovement, KindOfOther
  DEF Call, Operations, Movements, Presets, Contract!Calls, Contract!Movements
<1>4. Pending' = [Pending EXCEPT ![c] = Kind(o)]
  BY <1>1 DEF Call, Pending, TypeInv, TypeOK, ThreadType
<1>5. ~overlapped' => \A d \in Clients \ {c} : Pending[d] = "none"
  BY <1>2, PendingOf DEF Alone
<1>6. UNCHANGED <<currentState, driven # {}, referenceFrame>>
  BY <1>1 DEF Call
<1>7. /\ ~(streamingCommand # "NOT_SET" \/ pc[Stream] # "idle")
      /\ ~(streamingCommand # "NOT_SET" \/ pc[Stream] # "idle")'
  BY DEF NoStreaming
<1>8. {~overlapped', Alright'} \subseteq BOOLEAN
  BY DEF Alright
<1>9. QED
  BY <1>3, <1>4, <1>5, <1>6, <1>7, <1>8 DEF Contract!Invoke, Pending, Alright

\* A call that returns.
LEMMA ReturnReturns ==
  ASSUME OrderlyInv, OrderlyInv', NEW c \in Clients, NEW r, Return(c, r), pc[c] # "idle",
         Alright' => Contract!Promise(Kind(op[c])),
         currentState' \in {currentState, NC} \/ (op[c] \in Movements /\ currentState' = op[c]),
         referenceFrame' = referenceFrame \/ (op[c] = "frame" /\ referenceFrame' \in {"BASE", "TCP"}),
         overlapped' = overlapped
  PROVE  Contract!Return(c)
<1> USE DEF OrderlyInv, SerialInv, Orderly
<1>1. Pending[c] = Kind(op[c]) /\ Pending[c] # "none"
  BY PendingOf
<1>2. Pending' = [Pending EXCEPT ![c] = "none"]
  BY KindOfMovement DEF Pending, TypeInv, TypeOK, ThreadType
<1>3. currentState' \in {currentState, NC} \union ({Pending[c]} \intersect Contract!Movements)
  BY <1>1, KindOfMovement DEF Contract!Movements, Movements
<1>4. referenceFrame' = referenceFrame \/ (Pending[c] = "set" /\ referenceFrame' \in Contract!Frames)
  BY <1>1, KindOfOther DEF Contract!Frames
<1>5. ~(streamingCommand # "NOT_SET" \/ pc[Stream] # "idle")'
  BY DEF NoStreaming
<1>6. {driven' # {}, (streamingCommand # "NOT_SET" \/ pc[Stream] # "idle")', Alright'} \subseteq BOOLEAN
  BY DEF Alright
<1>7. QED
  BY <1>1, <1>2, <1>3, <1>4, <1>5, <1>6 DEF Contract!Return, Pending, Alright, Contract!NC, NC

\* A step between calls, or within one, that leaves the state as it is.
LEMMA StepMoves ==
  ASSUME OrderlyInv, OrderlyInv', op' = op, UNCHANGED <<currentState, referenceFrame, overlapped>>,
         Alright' => Alright,
         driven' # {} => driven # {} \/ (\E c \in Clients : pc[c] # "idle") \/ currentState # NC \/ ~Alright \/ overlapped
  PROVE  Contract!Move
<1> USE DEF OrderlyInv, SerialInv, Orderly
<1>1. Pending' = Pending
  BY DEF Pending
<1>2. Contract!Quiet <=> \A c \in Clients : pc[c] = "idle"
  BY PendingOf DEF Contract!Quiet, Pending
<1>3. /\ ~(streamingCommand # "NOT_SET" \/ pc[Stream] # "idle")
      /\ ~(streamingCommand # "NOT_SET" \/ pc[Stream] # "idle")'
  BY DEF NoStreaming
<1>4. {driven' # {}, Alright'} \subseteq BOOLEAN
  BY DEF Alright
<1>5. QED
  BY <1>1, <1>2, <1>3, <1>4 DEF Contract!Move, Pending, Alright, Contract!NC, NC

\* The state is released.
LEMMA StepReleases ==
  ASSUME OrderlyInv, OrderlyInv', op' = op, ret' = ret, currentState' = NC,
         UNCHANGED <<driven, referenceFrame, overlapped, faults>>
  PROVE  Contract!Release
<1> USE DEF OrderlyInv, SerialInv, Orderly
<1>1. Pending' = Pending /\ (Alright' <=> Alright)
  BY DEF Pending, Alright
<1>2. /\ ~(streamingCommand # "NOT_SET" \/ pc[Stream] # "idle")
      /\ ~(streamingCommand # "NOT_SET" \/ pc[Stream] # "idle")'
  BY DEF NoStreaming
<1>3. QED
  BY <1>1, <1>2 DEF Contract!Release, Pending, Alright, Contract!NC, NC

LEMMA ClientImplements ==
  ASSUME OrderlyInv, OrderlyInv', NEW c \in Clients, ClientNext(c)
  PROVE  Contract!Next
<1> USE DEF OrderlyInv, StopInv, SerialInv, Orderly, TypeInv, TypeOK
<1>1. pc[c] # "idle"
  BY DEF ClientNext, GetRefSpeeds, SetRefSpeeds, ReadModes, WriteModes, PositionMove,
     ClearTrajectories, BuildTrajectories, Arm, Engage, SetFrame, Preset, Enable, WaitCheck, Poll, WaitReturn, Join
<1>2. Fits(op[c], pc[c]) /\ OpFits(op[c], pc[c]) /\ op[c] \notin Presets
  BY DEF OpOK, Places, NoStreaming
<1>3. overlapped' = overlapped
  <2>1. CASE Poll(c)
    <3>1. overlapped' = overlapped \/ overlapped' = (overlapped \/ ~Alone(c))
      BY <2>1, Zenon DEF Poll, Recorded
    <3>2. ~overlapped => Alone(c)
      BY <1>1 DEF Serial
    <3>3. QED
      BY <3>1, <3>2 DEF HistoryType
  <2>2. CASE ~Poll(c)
    BY <2>2 DEF ClientNext, GetRefSpeeds, SetRefSpeeds, ReadModes, WriteModes, PositionMove, Fails,
     ClearTrajectories, BuildTrajectories, Arm, Engage, SetFrame, Preset, Enable, WaitCheck, Poll, WaitReturn, Join
  <2>3. QED
    BY <2>1, <2>2
<1>4. CASE UNCHANGED <<op, ret>> /\ ~Engage(c) /\ ~SetFrame(c) /\ ~Preset(c) /\ ~Enable(c)
  <2>1. UNCHANGED <<currentState, referenceFrame>>
    BY <1>4 DEF ClientNext, GetRefSpeeds, SetRefSpeeds, ReadModes, WriteModes, PositionMove,
     ClearTrajectories, BuildTrajectories, Arm, WaitCheck, Poll, WaitReturn, Join
  <2>2. Alright' => Alright
    <3>1. faults' = faults \/ Fails(c)
      BY <1>4 DEF ClientNext, GetRefSpeeds, SetRefSpeeds, ReadModes, WriteModes, PositionMove,
     ClearTrajectories, BuildTrajectories, Arm, WaitCheck, Poll, WaitReturn, Join
    <3>2. QED
      BY <1>4, <3>1, FailedCourse DEF Alright
  <2>3. Contract!Move
    BY <1>1, <1>3, <1>4, <2>1, <2>2, StepMoves
  <2>4. QED
    BY <2>3 DEF Contract!Next
<1>5. CASE GetRefSpeeds(c) \/ SetRefSpeeds(c) \/ ReadModes(c) \/ WriteModes(c) \/ PositionMove(c)
  <2>1. UNCHANGED <<op, ret>> \/ Return(c, FALSE)
    BY <1>5 DEF GetRefSpeeds, SetRefSpeeds, ReadModes, WriteModes, PositionMove
  <2>2. CASE UNCHANGED <<op, ret>>
    <3>1. ~Engage(c) /\ ~SetFrame(c) /\ ~Preset(c) /\ ~Enable(c)
      BY <1>5 DEF GetRefSpeeds, SetRefSpeeds, ReadModes, WriteModes, PositionMove, Engage, SetFrame, Preset, Enable
    <3>2. QED
      BY <1>4, <2>2, <3>1
  <2>3. CASE Return(c, FALSE)
    <3>1. ~Alright'
      BY <2>3 DEF Alright, ThreadType
    <3>2. UNCHANGED <<currentState, referenceFrame>>
      BY <1>5 DEF GetRefSpeeds, SetRefSpeeds, ReadModes, WriteModes, PositionMove
    <3>3. Contract!Return(c)
      BY <1>1, <1>3, <2>3, <3>1, <3>2, ReturnReturns
    <3>4. QED
      BY <3>3 DEF Contract!Next
  <2>4. QED
    BY <2>1, <2>2, <2>3
<1>6. CASE Engage(c)
  <2>1. op[c] \in Movements /\ currentState' = op[c] /\ referenceFrame' = referenceFrame /\ Return(c, TRUE)
    BY <1>2, <1>6 DEF Engage, Fits
  <2>2. Contract!Promise(Kind(op[c]))
    <3>1. Kind(op[c]) = op[c]
      BY <2>1, KindOfMovement
    <3>2. QED
      BY <2>1, <3>1 DEF Contract!Promise, Movements
  <2>3. Contract!Return(c)
    BY <1>1, <1>3, <2>1, <2>2, ReturnReturns
  <2>4. QED
    BY <2>3 DEF Contract!Next
<1>7. CASE SetFrame(c)
  <2>1. op[c] = "frame" /\ currentState' = currentState /\ referenceFrame' \in {"BASE", "TCP"} /\ Return(c, TRUE)
    BY <1>2, <1>7 DEF SetFrame, OpFits
  <2>2. Contract!Promise(Kind(op[c]))
    BY <2>1, KindOfOther DEF Contract!Promise, Contract!Movements
  <2>3. Contract!Return(c)
    BY <1>1, <1>3, <2>1, <2>2, ReturnReturns
  <2>4. QED
    BY <2>3 DEF Contract!Next
<1>8. CASE Preset(c)
  <2>1. currentState' = NC /\ referenceFrame' = referenceFrame /\ Return(c, FALSE)
    BY <1>2, <1>8 DEF Preset
  <2>2. ~Alright'
    BY <2>1 DEF Alright, ThreadType
  <2>3. Contract!Return(c)
    BY <1>1, <1>3, <2>1, <2>2, ReturnReturns
  <2>4. QED
    BY <2>3 DEF Contract!Next
<1>9. CASE WaitCheck(c) \/ WaitReturn(c)
  <2>1. UNCHANGED <<op, ret>> \/ \E r : Return(c, r)
    BY <1>9 DEF WaitCheck, WaitReturn
  <2>2. CASE UNCHANGED <<op, ret>>
    <3>1. ~Engage(c) /\ ~SetFrame(c) /\ ~Preset(c) /\ ~Enable(c)
      BY <1>9 DEF WaitCheck, WaitReturn, Engage, SetFrame, Preset, Enable
    <3>2. QED
      BY <1>4, <2>2, <3>1
  <2>3. ASSUME NEW r, Return(c, r) PROVE Contract!Next
    <3>1. op[c] \in {"wait", "waitTimeout"} /\ UNCHANGED <<currentState, referenceFrame, faults>>
      BY <1>2, <1>9 DEF WaitCheck, WaitReturn, OpFits
    <3>2. Kind(op[c]) = "wait"
      BY <3>1, KindOfMovement, KindOfOther
    <3>3. Alright' /\ ~overlapped => currentState' \notin {"movj", "movl"}
      <4>1. CASE WaitReturn(c)
        BY <3>1, <4>1 DEF WaitReturn, Waited, Undisturbed, Alright, NC
      <4>2. CASE WaitCheck(c)
        <5>1. pc'[c] = "idle"
          BY <2>3 DEF ThreadType, Actors
        <5>2. QED
          BY <4>2, <5>1 DEF WaitCheck, ThreadType, Actors
      <4>3. QED
        BY <1>9, <4>1, <4>2
    <3>4. Alright' => Contract!Promise(Kind(op[c]))
      BY <3>2, <3>3 DEF Contract!Promise, Contract!Movements
    <3>5. Contract!Return(c)
      BY <1>1, <1>3, <2>3, <3>1, <3>4, ReturnReturns
    <3>6. QED
      BY <3>5 DEF Contract!Next
  <2>4. QED
    BY <2>1, <2>2, <2>3
<1>10. CASE ClearTrajectories(c) \/ BuildTrajectories(c) \/ Arm(c) \/ Poll(c) \/ Join(c)
  <2>1. UNCHANGED <<op, ret>> /\ ~Engage(c) /\ ~SetFrame(c) /\ ~Preset(c) /\ ~Enable(c)
    BY <1>10 DEF ClearTrajectories, BuildTrajectories, Arm, Poll, Join, Engage, SetFrame, Preset, Enable
  <2>2. QED
    BY <1>4, <2>1
<1>11. ~Enable(c)
  BY <1>2 DEF Enable, Fits
<1>12. QED
  BY <1>5, <1>6, <1>7, <1>8, <1>9, <1>10, <1>11 DEF ClientNext

\* A step of a thread that keeps the state, between calls or not, and cannot make
\* a robot at rest move with nothing in control.
LEMMA ThreadMoves ==
  ASSUME OrderlyInv, OrderlyInv', UNCHANGED <<op, ret, currentState, referenceFrame, overlapped>>,
         faults' = MaxFaults => faults = MaxFaults,
         Alright /\ ~overlapped /\ currentState = NC /\ (\A c \in Clients : pc[c] = "idle")
           => (driven' # {} => driven # {})
  PROVE  Contract!Next
<1>1. Alright' => Alright
  BY DEF Alright
<1>2. Contract!Move
  BY <1>1, StepMoves
<1>3. QED
  BY <1>2 DEF Contract!Next

LEMMA StopImplements ==
  ASSUME OrderlyInv, OrderlyInv', NEW t \in Actors, StopNext(t)
  PROVE  Contract!Next
<1> USE DEF OrderlyInv, StopInv, SerialInv, Orderly, TypeInv, TypeOK
<1>1. overlapped' = overlapped /\ (faults' = MaxFaults => faults = MaxFaults)
  BY FailedCourse DEF StopNext, StopState, StopRead, StopWrite, StopMotion, StopClear, Fails
<1>2. CASE StopState(t)
  <2>1. Contract!Release
    BY <1>2, StepReleases DEF StopState
  <2>2. QED
    BY <2>1 DEF Contract!Next
<1>3. CASE StopRead(t) \/ StopWrite(t) \/ StopMotion(t)
  <2>1. UNCHANGED <<op, ret, currentState, referenceFrame>>
    BY <1>3 DEF StopRead, StopWrite, StopMotion
  <2>2. driven' \subseteq driven
    BY <1>3, SomeDriven DEF StopRead, StopWrite, SwitchModes, Drive
  <2>3. QED
    BY <1>1, <2>1, <2>2, ThreadMoves
<1>4. CASE StopClear(t)
  <2>1. UNCHANGED <<currentState, driven, referenceFrame, faults>>
    BY <1>4 DEF StopClear
  <2>2. CASE UNCHANGED <<op, ret>>
    BY <1>1, <2>1, <2>2, ThreadMoves
  <2>3. CASE t \in Clients /\ op[t] = "stop" /\ Return(t, TRUE)
    <3>1. pc[t] = "stopClear" /\ Kind(op[t]) = "stop"
      BY <1>4, <2>3, KindOfMovement DEF StopClear
    <3>2. Alright' /\ ~overlapped => currentState' = NC /\ driven' = {}
      <4>1. SUFFICES ASSUME Alright', ~overlapped PROVE currentState' = NC /\ driven' = {}
        OBVIOUS
      <4>2. Progress(t)
        BY <2>1, <2>3, <3>1, <4>1 DEF Alright, StopKnown, Undisturbed, StopProgress, StopSteps
      <4>3. QED
        BY <2>1, <3>1, <4>2 DEF Progress, StateReleased, MotionCeased
    <3>3. Alright' => Contract!Promise(Kind(op[t]))
      BY <1>1, <3>1, <3>2 DEF Contract!Promise, Contract!Movements, Contract!NC, NC
    <3>4. Contract!Return(t)
      BY <1>1, <2>1, <2>3, <3>1, <3>3, ReturnReturns
    <3>5. QED
      BY <2>3, <3>4 DEF Contract!Next
  <2>4. QED
    BY <1>4, <2>2, <2>3 DEF StopClear, Actors
<1>5. QED
  BY <1>2, <1>3, <1>4 DEF StopNext

LEMMA CmcImplements == ASSUME OrderlyInv, OrderlyInv', CmcNext PROVE Contract!Next
<1> USE DEF OrderlyInv, StopInv, SerialInv, Orderly, TypeInv, TypeOK
<1>1. UNCHANGED <<op, ret, referenceFrame, overlapped>> /\ (faults' = MaxFaults => faults = MaxFaults)
  BY FailedCourse
  DEF CmcNext, Tick, CheckLimits, Abort, CheckModes, MotionDone, Finish, RestoreSpeeds, Iterate,
      SendVelocities, SendTorques, Then, EndTick, Fails
<1>2. CASE Finish
  <2>1. Contract!Release
    BY <1>1, <1>2, StepReleases DEF Finish
  <2>2. QED
    BY <2>1 DEF Contract!Next
<1>3. CASE Tick \/ CheckLimits \/ Abort \/ CheckModes \/ MotionDone \/ RestoreSpeeds \/ Iterate
  <2>1. UNCHANGED <<currentState, driven>>
    BY <1>3 DEF Tick, CheckLimits, Abort, CheckModes, MotionDone, RestoreSpeeds, Iterate
  <2>2. QED
    BY <1>1, <2>1, ThreadMoves
<1>4. CASE SendVelocities \/ SendTorques
  <2>1. currentState' = currentState /\ pc[Cmc] \in Driving
    BY <1>4 DEF SendVelocities, SendTorques, Driving
  <2>2. ASSUME Alright, ~overlapped, currentState = NC, \A c \in Clients : pc[c] = "idle"
        PROVE  driven' \subseteq driven
    <3>1. \A c \in Clients : Resting(c)
      <4>1. \A c \in Clients : op[c] = "none"
        BY <2>2 DEF Places, OpFits
      <4>2. QED
        BY <2>2, <4>1 DEF Resting, Movements
    <3>2. \A j \in Joints : AtRest(j)
      BY <2>1, <2>2, <3>1 DEF Calm, Undisturbed, Alright
    <3>3. Within("VELOCITY") = {} /\ Within("TORQUE") = {}
      BY <3>2 DEF AtRest, Within, Unmanaged
    <3>4. QED
      BY <1>4, <3>3, SomeDriven DEF Drive
  <2>3. QED
    BY <1>1, <2>1, <2>2, ThreadMoves
<1>5. QED
  BY <1>2, <1>3, <1>4 DEF CmcNext

LEMMA EnvironmentImplements == ASSUME OrderlyInv, OrderlyInv', Environment PROVE Contract!Next
<1> USE DEF OrderlyInv, StopInv, SerialInv, Orderly, TypeInv, TypeOK
<1>1. /\ UNCHANGED <<op, ret, currentState, referenceFrame, overlapped>> /\ driven' \subseteq driven
      /\ faults' = MaxFaults => faults = MaxFaults
  BY FaultsAssumption DEF Environment, Elapse, Arrive, ModeLost, HistoryType
<1>2. QED
  BY <1>1, ThreadMoves

LEMMA InitImplements ==
  ASSUME Init PROVE Contract!Init
<1>1. \A c \in Clients : Kind(op[c]) = "none"
  BY KindOfMovement DEF Init
<1>2. Pending = [c \in Clients |-> "none"]
  BY <1>1 DEF Pending
<1>3. pc[Stream] = "idle"
  BY DEF Init
<1>4. QED
  BY <1>2, <1>3 DEF Init, Contract!Init, Pending, Contract!NC, NC, Contract!Frames

LEMMA StepImplements ==
  ASSUME Presets \intersect Ops = {}, OrderlyInv, OrderlyInv', [Next]_vars
  PROVE  [Contract!Next]_(Contract!vars)
<1>1. ASSUME NEW c \in Clients, Calls(c) PROVE Contract!Next
  BY <1>1, CallInvokes DEF Contract!Next
<1>2. ~StreamNext
  BY DEF OrderlyInv, Orderly, NoStreaming, StreamNext, StreamCall, StreamCommand, StreamModes, StreamMove
<1>3. CASE UNCHANGED vars
  BY <1>3 DEF vars, Contract!vars
<1>4. QED
  BY <1>1, <1>2, <1>3, ClientImplements, StopImplements, CmcImplements, EnvironmentImplements DEF Next

\* The reference frame changes as the contract has it.
LEMMA StepFreezes ==
  ASSUME Presets \intersect Ops = {}, OrderlyInv, [Next]_vars
  PROVE  [referenceFrame' # referenceFrame => ~(~overlapped) \/ currentState = Contract!NC]_(Contract!vars)
<1>0. ~StreamNext
  BY DEF OrderlyInv, Orderly, NoStreaming, StreamNext, StreamCall, StreamCommand, StreamModes, StreamMove
<1> USE DEF OrderlyInv, StopInv, SerialInv, Orderly, TypeInv, TypeOK
<1>1. SUFFICES ASSUME referenceFrame' # referenceFrame, ~overlapped PROVE currentState = NC
  BY DEF Contract!NC, NC
<1>2. \E c \in Clients : SetFrame(c)
  <2>1. ASSUME NEW c \in Clients, Calls(c) PROVE UNCHANGED referenceFrame
    BY <2>1 DEF Calls, CallMovj, CallTrajectory, CallTorque, CallStop, CallWait, CallSetParameter, CallClose, Call
  <2>2. ASSUME NEW c \in Clients, ClientNext(c) PROVE SetFrame(c) \/ UNCHANGED referenceFrame
    <3>1. CASE GetRefSpeeds(c) \/ SetRefSpeeds(c) \/ ReadModes(c) \/ WriteModes(c) \/ PositionMove(c)
      BY <3>1 DEF GetRefSpeeds, SetRefSpeeds, ReadModes, WriteModes, PositionMove
    <3>2. CASE ClearTrajectories(c) \/ BuildTrajectories(c) \/ Arm(c) \/ Engage(c) \/ Preset(c) \/ Enable(c)
      BY <3>2 DEF ClearTrajectories, BuildTrajectories, Arm, Engage, Preset, Enable
    <3>3. CASE WaitCheck(c) \/ Poll(c) \/ WaitReturn(c) \/ Join(c)
      BY <3>3 DEF WaitCheck, Poll, WaitReturn, Join
    <3>4. QED
      BY <2>2, <3>1, <3>2, <3>3 DEF ClientNext
  <2>3. ASSUME NEW t \in Actors, StopNext(t) PROVE UNCHANGED referenceFrame
    BY <2>3 DEF StopNext, StopState, StopRead, StopWrite, StopMotion, StopClear
  <2>4. CmcNext => UNCHANGED referenceFrame
    BY DEF CmcNext, Tick, CheckLimits, Abort, CheckModes, MotionDone, Finish, RestoreSpeeds, Iterate,
           SendVelocities, SendTorques
  <2>5. Environment \/ UNCHANGED vars => UNCHANGED referenceFrame
    BY DEF Environment, Elapse, Arrive, ModeLost, vars
  <2>6. QED
    BY <1>0, <1>1, <2>1, <2>2, <2>3, <2>4, <2>5 DEF Next
<1>3. QED
  BY <1>1, <1>2 DEF SetFrame, Serial, Setting

\* As long as nobody presets a streaming command, every step of every thread of
\* BasicCartesianControl is a step of the contract of ICartesianControl or one that
\* it does not see: also those of an iteration that outlasts a stop.
THEOREM BasicImplementsContract ==
  ASSUME Presets \intersect Ops = {}
  PROVE  Spec => Implements
<1>1. OrderlyInv /\ OrderlyInv' /\ [Next]_vars => [Contract!Next]_(Contract!vars)
  BY StepImplements
<1>2. OrderlyInv /\ [Next]_vars =>
        [referenceFrame' # referenceFrame => ~(~overlapped) \/ currentState = Contract!NC]_(Contract!vars)
  BY StepFreezes
<1>3. Spec => []OrderlyInv
  BY OrderlyHolds
<1>4. QED
  BY <1>1, <1>2, <1>3, InitImplements, PTL
     DEF Spec, Implements, Contract!Spec, Contract!FrozenWhileMoving
=============================================================================
