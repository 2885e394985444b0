---------------------- MODULE AmorCartesianControlProofs ----------------------
(***************************************************************************)
(* What holds of the AMOR controller for every number of clients, every    *)
(* set of calls they issue and every number of failures: it keeps its      *)
(* types, it implements the contract of the control interface, and its     *)
(* state accounts for the motion of the arm.                               *)
(***************************************************************************)
EXTENDS AmorCartesianControl, TLAPS

Busy(a) == ~At(a, "idle")

\* A call is in a step that it has.
OpOf(step) ==
  CASE step = "idle"       -> {"none"}
    [] step = "stat"       -> {"relj", "movv"}
    [] step = "encoders"   -> Movements \union Streams
    [] step = "command"    -> Movements \union Streams
    [] step = "engage"     -> Movements \union {"movi"}
    [] step = "stopState"  -> Waits \union {"stop"}
    [] step = "stopArm"    -> Waits \union {"stop"}
    [] step = "waitCheck"  -> Waits
    [] step = "poll"       -> Waits
    [] step = "waitEnd"    -> Waits
    [] step = "waitFailed" -> Waits
    [] step = "setFrame"   -> {"frame"}

Corresponds ==
  /\ \A a \in Actors : op[a] \in OpOf(pc[a])
  /\ \A c \in Clients : op[c] \notin Streams
  /\ op[Stream] \in Streams \union {"none"}

\* The command port acts only once it accepts; a client that is alone shares the
\* controller with nobody, and finds the state as it left it.
Alone ==
  /\ Busy(Stream) => accepting
  /\ alone => ~accepting
  /\ alone => \A c, d \in Clients : Busy(c) /\ Busy(d) => c = d
  /\ alone => \A c \in Clients : pc[c] \in {"stopArm", "setFrame"} => currentState = NC

Inv == TypeOK /\ Corresponds /\ Alone

USE DEF NC, Stream, Actors, At

LEMMA InitInv == Init => Inv
<1> SUFFICES ASSUME Init PROVE Inv
  OBVIOUS
<1>1. pc \in [Actors -> Steps]
  BY DEF Init, Steps
<1>2. op \in [Actors -> Movements \union Waits \union Streams \union {"none", "stop", "frame"}]
  BY DEF Init
<1>3. faults \in 0..MaxFaults
  BY AmorFaults DEF Init
<1>4. TypeOK
  BY <1>1, <1>2, <1>3 DEF Init, TypeOK
<1>5. Corresponds
  BY AmorClients DEF Init, Corresponds, OpOf, Streams
<1>6. Alone
  BY DEF Init, Alone, Busy
<1>7. QED
  BY <1>4, <1>5, <1>6 DEF Inv

LEMMA BeginInv ==
  ASSUME Inv, NEW a \in Actors, NEW o, NEW step, Begin(a, o, step),
         step \in Steps \ {"idle", "stopArm"}, o \in OpOf(step),
         o \in Operations \union Streams,
         a \in Clients <=> o \notin Streams,
         a = Stream => accepting,
         step = "setFrame" => currentState = NC
  PROVE  Inv'
<1>1. TypeOK'
  BY DEF Inv, TypeOK, Begin, params, Operations
<1>2. Corresponds'
  BY AmorClients DEF Inv, Corresponds, Begin, TypeOK
<1>3. Alone'
  BY AmorClients DEF Inv, Alone, Begin, TypeOK, Busy, params
<1>4. QED
  BY <1>1, <1>2, <1>3 DEF Inv

LEMMA CallInv == ASSUME Inv, NEW c \in Clients, Call(c) PROVE Inv'
<1> USE AmorClients DEF OpOf, Movements, Operations, Streams, Waits, Steps
<1>1. CASE CallMovj(c)
  BY <1>1, BeginInv DEF CallMovj
<1>2. CASE CallRelj(c)
  BY <1>2, BeginInv DEF CallRelj
<1>3. CASE CallMovl(c)
  BY <1>3, BeginInv DEF CallMovl
<1>4. CASE CallMovv(c)
  BY <1>4, BeginInv DEF CallMovv
<1>5. CASE CallStop(c)
  BY <1>5, BeginInv DEF CallStop
<1>6. CASE CallWait(c)
  BY <1>6, BeginInv DEF CallWait
<1>7. CASE CallSetParameter(c)
  BY <1>7, BeginInv DEF CallSetParameter
<1>8. QED
  BY <1>1, <1>2, <1>3, <1>4, <1>5, <1>6, <1>7 DEF Call

LEMMA StreamInv == ASSUME Inv, CallTwist \/ CallPose \/ CallMovi PROVE Inv'
<1> USE AmorClients DEF OpOf, Movements, Operations, Streams, Waits, Steps
<1>1. CASE CallTwist
  BY <1>1, BeginInv DEF CallTwist
<1>2. CASE CallPose
  BY <1>2, BeginInv DEF CallPose
<1>3. CASE CallMovi
  BY <1>3, BeginInv DEF CallMovi
<1>4. QED
  BY <1>1, <1>2, <1>3

\* What the two ways to end a step do to the threads.
Typed == pc \in [Actors -> Steps]
           /\ op \in [Actors -> Movements \union Waits \union Streams \union {"none", "stop", "frame"}]
           /\ answer \in BOOLEAN

LEMMA GotoFits ==
  ASSUME Inv, NEW a \in Actors, NEW step \in Steps, Goto(a, step), op[a] \in OpOf(step)
  PROVE  Typed' /\ Corresponds'
<1>1. answer' = answer /\ op' = op /\ pc' = [pc EXCEPT ![a] = step]
  BY DEF Goto
<1>2. Typed'
  BY <1>1 DEF Typed, Inv, TypeOK
<1>3. \A b \in Actors : op'[b] \in OpOf(pc'[b])
  BY <1>1 DEF Inv, TypeOK, Corresponds
<1>4. QED
  BY <1>1, <1>2, <1>3 DEF Corresponds, Inv

LEMMA ReturnFits ==
  ASSUME Inv, NEW a \in Actors, NEW r \in BOOLEAN, Return(a, r)
  PROVE  Typed' /\ Corresponds'
<1>1. pc' = [pc EXCEPT ![a] = "idle"] /\ op' = [op EXCEPT ![a] = "none"] /\ answer' \in BOOLEAN
  BY DEF Return, Inv, TypeOK
<1>2. Typed'
  BY <1>1 DEF Typed, Inv, TypeOK, Steps
<1>3. \A b \in Actors : op'[b] \in OpOf(pc'[b])
  BY <1>1 DEF Inv, TypeOK, Corresponds, OpOf
<1>4. \A c \in Clients : op'[c] \notin Streams
  BY <1>1 DEF Inv, TypeOK, Corresponds, Streams
<1>5. op'[Stream] \in Streams \union {"none"}
  BY <1>1 DEF Inv, TypeOK, Corresponds
<1>6. QED
  BY <1>2, <1>3, <1>4, <1>5 DEF Corresponds

LEMMA FaultsFit == ASSUME Inv, Works \/ Fails PROVE faults' \in 0..MaxFaults
BY AmorFaults DEF Works, Fails, Inv, TypeOK

\* OpOf, step by step.
LEMMA OpsOfSteps ==
  /\ OpOf("stat") = {"relj", "movv"}
  /\ \A step \in {"encoders", "command"} : OpOf(step) = Movements \union Streams
  /\ OpOf("engage") = Movements \union {"movi"}
  /\ \A step \in {"stopState", "stopArm"} : OpOf(step) = Waits \union {"stop"}
  /\ \A step \in {"waitCheck", "poll", "waitEnd", "waitFailed"} : OpOf(step) = Waits
  /\ OpOf("setFrame") = {"frame"}
BY DEF OpOf

LEMMA OpAt ==
  ASSUME Inv, NEW a \in Actors
  PROVE  op[a] \in OpOf(pc[a])
BY DEF Inv, Corresponds

LEMMA MotionInv == ASSUME Inv, NEW a \in Actors, Motion(a) PROVE Inv'
<1> USE AmorClients DEF params, history, Inv
<1>1. CASE Stat(a)
  <2>1. Typed' /\ Corresponds'
    BY <1>1, GotoFits, ReturnFits, OpAt, OpsOfSteps DEF Stat, Steps, Movements, Streams, Waits
  <2>2. TypeOK'
    BY <1>1, <2>1, FaultsFit DEF Stat, TypeOK, Typed
  <2>3. Alone'
    BY <1>1 DEF Stat, TypeOK, Alone, Busy, Goto, Return, Works, Fails
  <2>4. QED BY <2>1, <2>2, <2>3
<1>2. CASE Encoders(a)
  <2>1. Typed' /\ Corresponds'
    BY <1>2, GotoFits, ReturnFits, OpAt, OpsOfSteps DEF Encoders, Steps, Movements, Streams, Waits
  <2>2. TypeOK'
    BY <1>2, <2>1, FaultsFit DEF Encoders, TypeOK, Typed
  <2>3. Alone'
    BY <1>2 DEF Encoders, TypeOK, Alone, Busy, Goto, Return, Works, Fails
  <2>4. QED BY <2>1, <2>2, <2>3
<1>3. CASE Command(a)
  <2>1. Typed' /\ Corresponds'
    BY <1>3, GotoFits, ReturnFits, OpAt, OpsOfSteps DEF Command, Steps, Movements, Streams, Waits
  <2>2. TypeOK'
    BY <1>3, <2>1, FaultsFit DEF Command, TypeOK, Typed
  <2>3. Alone'
    BY <1>3 DEF Command, TypeOK, Alone, Busy, Goto, Return, Works, Fails
  <2>4. QED BY <2>1, <2>2, <2>3
<1>4. CASE Engage(a)
  <2>1. StateOf(op[a]) \in {NC, "movj", "movl", "movv"}
    BY <1>4, OpAt DEF Engage, OpOf, Movements, StateOf
  <2>2. Typed' /\ Corresponds'
    BY <1>4, ReturnFits DEF Engage
  <2>3. TypeOK'
    BY <1>4, <2>1, <2>2 DEF Engage, TypeOK, Typed
  <2>4. Alone'
    BY <1>4 DEF Engage, TypeOK, Alone, Busy, Return
  <2>5. QED BY <2>2, <2>3, <2>4
<1>5. QED
  BY <1>1, <1>2, <1>3, <1>4 DEF Motion

LEMMA EndingInv == ASSUME Inv, NEW c \in Clients, Ending(c) PROVE Inv'
<1> USE AmorClients DEF params, history, Inv
<1>1. CASE StopState(c)
  <2>1. Typed' /\ Corresponds'
    BY <1>1, GotoFits, ReturnFits, OpAt, OpsOfSteps DEF StopState, Steps, Movements, Streams, Waits
  <2>2. TypeOK'
    BY <1>1, <2>1, FaultsFit DEF StopState, TypeOK, Typed
  <2>3. Alone'
    BY <1>1 DEF StopState, TypeOK, Alone, Busy, Goto, Return, Works, Fails
  <2>4. QED BY <2>1, <2>2, <2>3
<1>2. CASE StopArm(c)
  <2>1. Typed' /\ Corresponds'
    BY <1>2, GotoFits, ReturnFits, OpAt, OpsOfSteps DEF StopArm, Steps, Movements, Streams, Waits
  <2>2. TypeOK'
    BY <1>2, <2>1, FaultsFit DEF StopArm, TypeOK, Typed
  <2>3. Alone'
    BY <1>2 DEF StopArm, TypeOK, Alone, Busy, Goto, Return, Works, Fails
  <2>4. QED BY <2>1, <2>2, <2>3
<1>3. CASE WaitCheck(c)
  <2>1. Typed' /\ Corresponds'
    BY <1>3, GotoFits, ReturnFits, OpAt, OpsOfSteps DEF WaitCheck, Steps, Movements, Streams, Waits
  <2>2. TypeOK'
    BY <1>3, <2>1, FaultsFit DEF WaitCheck, TypeOK, Typed
  <2>3. Alone'
    BY <1>3 DEF WaitCheck, TypeOK, Alone, Busy, Goto, Return, Works, Fails
  <2>4. QED BY <2>1, <2>2, <2>3
<1>4. CASE Poll(c)
  <2>1. Typed' /\ Corresponds'
    BY <1>4, GotoFits, ReturnFits, OpAt, OpsOfSteps DEF Poll, Steps, Movements, Streams, Waits
  <2>2. TypeOK'
    BY <1>4, <2>1, FaultsFit DEF Poll, TypeOK, Typed
  <2>3. Alone'
    BY <1>4 DEF Poll, TypeOK, Alone, Busy, Goto, Return, Works, Fails
  <2>4. QED BY <2>1, <2>2, <2>3
<1>5. CASE WaitEnd(c)
  <2>1. Typed' /\ Corresponds'
    BY <1>5, GotoFits, ReturnFits, OpAt, OpsOfSteps DEF WaitEnd, Steps, Movements, Streams, Waits
  <2>2. TypeOK'
    BY <1>5, <2>1, FaultsFit DEF WaitEnd, TypeOK, Typed
  <2>3. Alone'
    BY <1>5 DEF WaitEnd, TypeOK, Alone, Busy, Goto, Return, Works, Fails
  <2>4. QED BY <2>1, <2>2, <2>3
<1>6. CASE SetFrame(c)
  <2>1. Typed' /\ Corresponds'
    BY <1>6, GotoFits, ReturnFits, OpAt, OpsOfSteps DEF SetFrame, Steps, Movements, Streams, Waits
  <2>2. TypeOK'
    BY <1>6, <2>1, FaultsFit DEF SetFrame, TypeOK, Typed
  <2>3. Alone'
    BY <1>6 DEF SetFrame, TypeOK, Alone, Busy, Goto, Return, Works, Fails
  <2>4. QED BY <2>1, <2>2, <2>3
<1>7. QED
  BY <1>1, <1>2, <1>3, <1>4, <1>5, <1>6 DEF Ending

LEMMA DeviceInv == ASSUME Inv, Open \/ Close \/ Connect \/ Arrive PROVE Inv'
<1> USE AmorClients, AmorFaults DEF Works, Fails, params, history, Inv
<1>1. CASE Open
  BY <1>1 DEF Open, TypeOK, Corresponds, Alone, Busy
<1>2. CASE Close
  BY <1>2 DEF Close, TypeOK, Corresponds, Alone, Busy
<1>3. CASE Connect
  BY <1>3 DEF Connect, TypeOK, Corresponds, Alone, Busy
<1>4. CASE Arrive
  BY <1>4 DEF Arrive, TypeOK, Corresponds, Alone, Busy
<1>5. QED
  BY <1>1, <1>2, <1>3, <1>4

LEMMA StepInv == Inv /\ [Next]_vars => Inv'
<1> SUFFICES ASSUME Inv, [Next]_vars PROVE Inv'
  OBVIOUS
<1>1. CASE Next
  BY <1>1, CallInv, StreamInv, MotionInv, EndingInv, DeviceInv DEF Next
<1>2. CASE UNCHANGED vars
  BY <1>2 DEF vars, params, history, Inv, TypeOK, Corresponds, Alone, Busy
<1>3. QED
  BY <1>1, <1>2

THEOREM InvHolds == Spec => []Inv
<1>1. QED
  BY InitInv, StepInv, PTL DEF Spec

THEOREM AmorTypeCorrect == Spec => []TypeOK
<1>1. Inv => TypeOK
  BY DEF Inv
<1>2. QED
  BY <1>1, InvHolds, PTL

-----------------------------------------------------------------------------
(* The contract.                                                           *)

Pending == [c \in Clients |-> Kind(op[c])]

LEMMA Kinds ==
  /\ Kind("movj") = "movj" /\ Kind("relj") = "movj" /\ Kind("movl") = "movl"
  /\ Kind("movv") = "movv" /\ Kind("wait") = "wait" /\ Kind("waitTimeout") = "wait"
  /\ Kind("stop") = "stop" /\ Kind("frame") = "set" /\ Kind("none") = "none"
BY DEF Kind

LEMMA StatesOf ==
  /\ \A o \in Movements : StateOf(o) = Kind(o) /\ Kind(o) \in {"movj", "movl", "movv"}
  /\ StateOf("movi") = "movj"
BY DEF StateOf, Kind, Movements

\* A client that is not idle has a call that the contract knows.
LEMMA PendingOf ==
  ASSUME Inv, NEW c \in Clients
  PROVE  /\ Pending[c] = Kind(op[c])
         /\ Pending[c] = "none" <=> At(c, "idle")
         /\ Pending[c] # "none" => Pending[c] \in Contract!Calls
<1>1. op[c] \in Operations \union {"none"}
  BY DEF Inv, TypeOK, Corresponds, Operations, Movements, Waits, Streams
<1>2. op[c] = "none" <=> At(c, "idle")
  BY OpAt DEF OpOf, Inv, TypeOK, Steps, Movements, Waits, Streams
<1>3. QED
  BY <1>1, <1>2, Kinds DEF Pending, Operations, Movements, Waits, Contract!Calls, Contract!Movements

\* A call that begins.
LEMMA BeginInvokes ==
  ASSUME Inv, NEW c \in Clients, NEW o \in Operations, NEW step, Begin(c, o, step)
  PROVE  Contract!Invoke(c)
<1>1. Pending[c] = "none" /\ Kind(o) \in Contract!Calls
  BY PendingOf, Kinds DEF Begin, Operations, Movements, Waits, Contract!Calls, Contract!Movements
<1>2. Pending' = [Pending EXCEPT ![c] = Kind(o)]
  BY DEF Begin, Pending, Inv, TypeOK
<1>3. alone' => ~accepting /\ \A d \in Clients \ {c} : Pending[d] = "none"
  BY PendingOf, AmorClients DEF Begin, Busy
<1>4. {alone', answer'} \subseteq BOOLEAN
  BY AmorClients DEF Begin, Inv, TypeOK
<1>5. UNCHANGED <<currentState, arm # "rest", referenceFrame, accepting>>
  BY DEF Begin, params
<1>6. QED
  BY <1>1, <1>2, <1>3, <1>4, <1>5 DEF Contract!Invoke, Pending

\* A call that returns, of a client or of the command port.
LEMMA ReturnReturns ==
  ASSUME Inv, NEW c \in Clients, NEW r \in BOOLEAN, Return(c, r),
         ~At(c, "idle"),
         r => Contract!Promise(Kind(op[c])),
         currentState' \in {currentState, NC, Kind(op[c])},
         currentState' # currentState => currentState' = NC \/ op[c] \in Movements,
         referenceFrame' = referenceFrame \/ (op[c] = "frame" /\ referenceFrame' \in Frames),
         arm' \in {"rest", "travelling", "moving"},
         UNCHANGED <<accepting, alone>>
  PROVE  Contract!Return(c)
<1>1. Pending[c] = Kind(op[c]) /\ Pending[c] # "none"
  BY PendingOf
<1>2. Pending' = [Pending EXCEPT ![c] = "none"]
  BY Kinds DEF Return, Pending, Inv, TypeOK
<1>3. answer' = r
  BY AmorClients DEF Return
<1>4. currentState' \in {currentState, NC} \union ({Pending[c]} \intersect Contract!Movements)
  BY <1>1, StatesOf DEF Contract!Movements
<1>5. referenceFrame' = referenceFrame \/ (Pending[c] = "set" /\ referenceFrame' \in Contract!Frames)
  BY <1>1, Kinds DEF Contract!Frames, Frames
<1>6. {arm' # "rest", accepting', answer'} \subseteq BOOLEAN
  BY <1>3 DEF Inv, TypeOK
<1>7. QED
  BY <1>1, <1>2, <1>3, <1>4, <1>5, <1>6 DEF Contract!Return, Pending, Contract!NC

\* Nothing that the contract sees.
LEMMA Hidden ==
  ASSUME Inv, op' = op, UNCHANGED <<currentState, referenceFrame, accepting, answer, alone>>,
         arm' = arm
  PROVE  UNCHANGED Contract!vars
BY DEF Contract!vars

LEMMA HiddenReturn ==
  ASSUME Inv, NEW r \in BOOLEAN, Return(Stream, r),
         UNCHANGED <<currentState, referenceFrame, accepting, alone, arm>>
  PROVE  UNCHANGED Contract!vars
<1>1. Pending' = Pending
  BY AmorClients DEF Return, Pending, Inv, TypeOK
<1>2. answer' = answer
  BY DEF Return
<1>3. QED
  BY <1>1, <1>2 DEF Contract!vars, Pending

\* The arm moves, or stops, during a call or by a streaming command.
LEMMA MoveMoves ==
  ASSUME Inv, Pending' = Pending, arm' \in {"rest", "travelling", "moving"},
         UNCHANGED <<currentState, referenceFrame, accepting, answer, alone>>,
         arm' = "rest" \/ accepting \/ \E c \in Clients : ~At(c, "idle")
  PROVE  Contract!Move
<1>1. (arm' # "rest") => accepting \/ ~Contract!Quiet
  BY PendingOf DEF Contract!Quiet, Pending
<1>2. {arm' # "rest", answer'} \subseteq BOOLEAN
  BY DEF Inv, TypeOK
<1>3. QED
  BY <1>1, <1>2 DEF Contract!Move, Pending

LEMMA CallImplements == ASSUME Inv, NEW c \in Clients, Call(c) PROVE Contract!Next
<1>1. Contract!Invoke(c)
  BY BeginInvokes DEF Call, CallMovj, CallRelj, CallMovl, CallMovv, CallStop, CallWait,
       CallSetParameter, Operations, Movements, Waits
<1>2. QED
  BY <1>1 DEF Contract!Next

LEMMA StreamImplements ==
  ASSUME Inv, CallTwist \/ CallPose \/ CallMovi PROVE Contract!Next
<1>1. PICK o : accepting /\ Begin(Stream, o, "encoders")
  BY DEF CallTwist, CallPose, CallMovi
<1>2. Pending' = Pending
  BY <1>1, AmorClients DEF Begin, Pending, Inv, TypeOK
<1>3. Contract!Accept
  BY <1>1, <1>2, AmorClients DEF Begin, Contract!Accept, Pending, Inv, TypeOK, params
<1>4. QED
  BY <1>3 DEF Contract!Next

LEMMA DeviceImplements ==
  ASSUME Inv, Open \/ Close \/ Connect \/ Arrive PROVE Contract!Next \/ UNCHANGED Contract!vars
<1>1. CASE Open
  BY <1>1 DEF Open, Contract!vars, params, history
<1>2. CASE Close
  <2>1. Contract!Move \/ UNCHANGED Contract!vars
    BY <1>2, MoveMoves DEF Close, params, history, Pending, Contract!vars
  <2>2. QED BY <2>1 DEF Contract!Next
<1>3. CASE Connect
  <2>1. Contract!Accept
    BY <1>3 DEF Connect, Contract!Accept, params, Pending
  <2>2. QED BY <2>1 DEF Contract!Next
<1>4. CASE Arrive
  <2>1. Contract!Move
    BY <1>4, MoveMoves DEF Arrive, params, history, Pending
  <2>2. QED BY <2>1 DEF Contract!Next
<1>5. QED
  BY <1>1, <1>2, <1>3, <1>4

\* A call of a client, or of the command port, that fails on its way.
LEMMA FailedCall ==
  ASSUME Inv, NEW a \in Actors, ~At(a, "idle"), Return(a, FALSE),
         UNCHANGED <<currentState, referenceFrame, accepting, alone, arm>>
  PROVE  Contract!Next \/ UNCHANGED Contract!vars
<1>1. CASE a \in Clients
  <2>1. Contract!Return(a)
    BY <1>1, ReturnReturns DEF Inv, TypeOK
  <2>2. QED BY <1>1, <2>1 DEF Contract!Next
<1>2. CASE a = Stream
  BY <1>2, HiddenReturn
<1>3. QED
  BY <1>1, <1>2

LEMMA MotionImplements ==
  ASSUME Inv, NEW a \in Actors, Motion(a) PROVE Contract!Next \/ UNCHANGED Contract!vars
<1> USE DEF params, history
<1>1. CASE Stat(a)
  BY <1>1, FailedCall, Hidden DEF Stat, Goto
<1>2. CASE Encoders(a)
  BY <1>2, FailedCall, Hidden DEF Encoders, Goto
<1>3. CASE Command(a)
  <2>1. CASE Return(a, FALSE) /\ UNCHANGED arm
    BY <1>3, <2>1, FailedCall DEF Command
  <2>2. CASE arm' \in {"rest", "travelling", "moving"} /\ (op[a] \notin {"twist", "pose"}) /\ Goto(a, "engage")
    <3>1. accepting \/ \E c \in Clients : ~At(c, "idle")
      BY <1>3 DEF Command, Inv, Alone, Busy
    <3>2. Pending' = Pending
      BY <2>2 DEF Goto, Pending
    <3>3. Contract!Move
      BY <1>3, <2>2, <3>1, <3>2, MoveMoves DEF Command, Goto
    <3>4. QED BY <3>3 DEF Contract!Next
  <2>3. CASE arm' \in {"rest", "travelling", "moving"} /\ op[a] \in {"twist", "pose"} /\ Return(a, TRUE)
    <3>1. a = Stream /\ accepting
      BY <1>3, <2>3 DEF Command, Inv, Alone, Busy, Corresponds, Streams
    <3>2. Pending' = Pending /\ answer' = answer
      BY <2>3, <3>1, AmorClients DEF Return, Pending, Inv, TypeOK
    <3>3. Contract!Move
      BY <1>3, <2>3, <3>1, <3>2, MoveMoves DEF Command
    <3>4. QED BY <3>3 DEF Contract!Next
  <2>4. QED
    BY <1>3, <2>1, <2>2, <2>3 DEF Command
<1>4. CASE Engage(a)
  <2>1. op[a] \in Movements \union {"movi"} /\ ~At(a, "idle")
    BY <1>4, OpAt, OpsOfSteps DEF Engage
  <2>2. CASE a \in Clients
    <3>1. op[a] \in Movements
      BY <2>1, <2>2 DEF Inv, Corresponds, Streams
    <3>2. currentState' = Kind(op[a]) /\ Contract!Promise(Kind(op[a]))
      BY <1>4, <3>1, StatesOf DEF Engage, Contract!Promise
    <3>3. Contract!Return(a)
      BY <1>4, <2>1, <2>2, <3>1, <3>2, ReturnReturns DEF Engage, Inv, TypeOK
    <3>4. QED BY <2>2, <3>3 DEF Contract!Next
  <2>3. CASE a = Stream
    <3>1. accepting /\ op[a] = "movi"
      BY <1>4, <2>1, <2>3 DEF Engage, Inv, Alone, Busy, Corresponds, Streams, Movements
    <3>2. Pending' = Pending /\ answer' = answer
      BY <1>4, <2>3, AmorClients DEF Engage, Return, Pending, Inv, TypeOK
    <3>3. Contract!Stream
      BY <1>4, <3>1, <3>2, StatesOf DEF Engage, Contract!Stream, Pending
    <3>4. QED BY <3>3 DEF Contract!Next
  <2>4. QED BY <2>2, <2>3
<1>5. QED
  BY <1>1, <1>2, <1>3, <1>4 DEF Motion

LEMMA EndingImplements ==
  ASSUME Inv, NEW c \in Clients, Ending(c) PROVE Contract!Next \/ UNCHANGED Contract!vars
<1> USE DEF params, history
<1>1. CASE StopState(c)
  <2>1. Pending' = Pending
    BY <1>1 DEF StopState, Goto, Pending
  <2>2. Contract!Release
    BY <1>1, <2>1 DEF StopState, Goto, Contract!Release, Contract!NC, Pending, Inv, TypeOK
  <2>3. QED BY <2>2 DEF Contract!Next
<1>2. CASE StopArm(c)
  <2>1. CASE op[c] = "stop"
    <3>1. PICK r \in BOOLEAN : Return(c, r) /\ (r => arm' = "rest") /\ (~r => arm' = arm)
      BY <1>2, <2>1 DEF StopArm
    <3>2. r => Contract!Promise(Kind(op[c]))
      BY <1>2, <2>1, <3>1, Kinds DEF StopArm, Contract!Promise, Contract!Movements, Contract!NC,
           Inv, Alone
    <3>3. Contract!Return(c)
      BY <1>2, <2>1, <3>1, <3>2, ReturnReturns DEF StopArm, Inv, TypeOK
    <3>4. QED BY <3>3 DEF Contract!Next
  <2>2. CASE op[c] # "stop"
    <3>1. Goto(c, "waitEnd") /\ arm' \in {"rest", arm}
      BY <1>2, <2>2 DEF StopArm
    <3>2. Pending' = Pending
      BY <3>1 DEF Goto, Pending
    <3>3. Contract!Move
      BY <1>2, <3>1, <3>2, MoveMoves DEF StopArm, Goto, Inv, TypeOK
    <3>4. QED BY <3>3 DEF Contract!Next
  <2>3. QED BY <2>1, <2>2
<1>3. CASE WaitCheck(c)
  <2>1. CASE Goto(c, "poll")
    BY <1>3, <2>1, Hidden DEF WaitCheck, Goto
  <2>2. CASE Return(c, TRUE) /\ currentState \notin {"movj", "movl"}
    <3>1. Kind(op[c]) = "wait"
      BY <1>3, OpAt, OpsOfSteps, Kinds DEF WaitCheck, Waits
    <3>2. Contract!Promise(Kind(op[c]))
      BY <1>3, <2>2, <3>1 DEF WaitCheck, Contract!Promise, Contract!Movements
    <3>3. Contract!Return(c)
      BY <1>3, <2>2, <3>2, ReturnReturns DEF WaitCheck, Inv, TypeOK
    <3>4. QED BY <3>3 DEF Contract!Next
  <2>3. QED BY <1>3, <2>1, <2>2 DEF WaitCheck
<1>4. CASE Poll(c)
  BY <1>4, Hidden DEF Poll, Goto
<1>5. CASE WaitEnd(c)
  <2>1. Kind(op[c]) = "wait"
    BY <1>5, OpAt, OpsOfSteps, Kinds DEF WaitEnd, Waits
  <2>2. Contract!Promise(Kind(op[c]))
    BY <1>5, <2>1 DEF WaitEnd, Contract!Promise, Contract!Movements
  <2>3. Contract!Return(c)
    BY <1>5, <2>2, ReturnReturns DEF WaitEnd, Inv, TypeOK
  <2>4. QED BY <2>3 DEF Contract!Next
<1>6. CASE SetFrame(c)
  <2>1. op[c] = "frame"
    BY <1>6, OpAt, OpsOfSteps DEF SetFrame
  <2>2. Contract!Promise(Kind(op[c]))
    BY <2>1, Kinds DEF Contract!Promise, Contract!Movements
  <2>3. Contract!Return(c)
    BY <1>6, <2>1, <2>2, ReturnReturns DEF SetFrame, Inv, TypeOK
  <2>4. QED BY <2>3 DEF Contract!Next
<1>7. QED
  BY <1>1, <1>2, <1>3, <1>4, <1>5, <1>6 DEF Ending

LEMMA InitImplements == Init => Contract!Init
BY Kinds DEF Init, Contract!Init, Contract!NC, Contract!Frames, Frames

LEMMA StepImplements == Inv /\ [Next]_vars => [Contract!Next]_(Contract!vars)
<1> SUFFICES ASSUME Inv, [Next]_vars PROVE Contract!Next \/ UNCHANGED Contract!vars
  OBVIOUS
<1>1. CASE Next
  BY <1>1, CallImplements, StreamImplements, MotionImplements, EndingImplements, DeviceImplements DEF Next
<1>2. CASE UNCHANGED vars
  BY <1>2 DEF vars, params, history, Contract!vars
<1>3. QED
  BY <1>1, <1>2

\* The frame changes in one step only, which a client that is alone reaches with
\* nothing in control.
LEMMA StepFreezes ==
  Inv /\ [Next]_vars =>
    [referenceFrame' # referenceFrame => ~alone \/ currentState = Contract!NC]_(Contract!vars)
<1> SUFFICES ASSUME Inv, [Next]_vars, referenceFrame' # referenceFrame
             PROVE  ~alone \/ currentState = NC
  BY DEF Contract!NC
<1>1. PICK c \in Clients : SetFrame(c)
  BY DEF Next, vars, params, history, Call, CallMovj, CallRelj, CallMovl, CallMovv, CallStop, CallWait,
       CallSetParameter, CallTwist, CallPose, CallMovi, Begin, Motion, Stat, Encoders, Command, Engage,
       Ending, StopState, StopArm, WaitCheck, Poll, WaitEnd, Open, Close, Connect, Arrive
<1>2. QED
  BY <1>1 DEF SetFrame, Inv, Alone

\* AmorCartesianControl implements the contract of ICartesianControl: every step
\* of every thread is a step of the contract or one that it does not see.
THEOREM AmorImplementsContract == Spec => Implements
<1>1. QED
  BY InitImplements, StepImplements, StepFreezes, InvHolds, PTL
     DEF Spec, Implements, Contract!Spec, Contract!FrozenWhileMoving

-----------------------------------------------------------------------------
(* The state accounts for the motion of the arm.                           *)

\* Calls that never overlapped leave one thread at work at most.
OneBusy == ~overlapped => \A a, b \in Actors : Busy(a) /\ Busy(b) => a = b

\* An arm that moves with nothing in control is one whose movement is about to be
\* engaged, or which is about to be stopped; wait releases an arm at rest.
Accounted ==
  (~overlapped /\ ~accepting /\ faults = MaxFaults) =>
    /\ arm # "rest" /\ currentState = NC
         => \E c \in Clients : pc[c] \in {"engage", "stopArm"}
    /\ \A c \in Clients : pc[c] = "waitEnd" => arm = "rest"
    /\ \A c \in Clients : pc[c] # "waitFailed"

MotionInvariant == OneBusy /\ Accounted

LEMMA InitAccounted == Init => MotionInvariant
BY DEF Init, MotionInvariant, OneBusy, Accounted, Busy

\* A call that failed leaves nothing to account for.
LEMMA FailedSteps ==
  ASSUME Inv, Fails PROVE faults' # MaxFaults
BY AmorFaults DEF Fails, Inv, TypeOK

LEMMA WorkedSteps ==
  ASSUME Inv, Works \/ Fails, faults' = MaxFaults PROVE Works /\ faults = MaxFaults
BY AmorFaults DEF Works, Fails, Inv, TypeOK

LEMMA BeginAccounted ==
  ASSUME Inv, MotionInvariant, NEW a \in Actors, NEW o, NEW step, Begin(a, o, step),
         step \in Steps \ {"idle", "waitEnd", "waitFailed"}
  PROVE  MotionInvariant'
<1>1. OneBusy'
  BY DEF MotionInvariant, OneBusy, Begin, Busy, Inv, TypeOK
<1>2. Accounted'
  BY DEF MotionInvariant, Accounted, Begin, params, Inv, TypeOK
<1>3. QED
  BY <1>1, <1>2 DEF MotionInvariant

\* A step of a thread that is at work leaves one at most.
LEMMA StepOneBusy ==
  ASSUME Inv, MotionInvariant, NEW a \in Actors, Busy(a), overlapped' = overlapped,
         \A b \in Actors \ {a} : pc'[b] = pc[b]
  PROVE  OneBusy'
BY DEF MotionInvariant, OneBusy, Busy

LEMMA StepAccounted == Inv /\ MotionInvariant /\ [Next]_vars => MotionInvariant'
<1> SUFFICES ASSUME Inv, MotionInvariant, [Next]_vars PROVE MotionInvariant'
  OBVIOUS
<1>1. ASSUME NEW c \in Clients, Call(c) PROVE MotionInvariant'
  BY <1>1, BeginAccounted DEF Call, CallMovj, CallRelj, CallMovl, CallMovv, CallStop, CallWait,
       CallSetParameter, Steps
<1>2. CASE CallTwist \/ CallPose \/ CallMovi
  BY <1>2, BeginAccounted DEF CallTwist, CallPose, CallMovi, Steps
<1>3. ASSUME NEW a \in Actors, Motion(a) PROVE MotionInvariant'
  <2> USE DEF params, history, Goto, Return
  <2>1. Busy(a) /\ overlapped' = overlapped /\ \A b \in Actors \ {a} : pc'[b] = pc[b]
    BY <1>3 DEF Motion, Stat, Encoders, Command, Engage, Busy, Inv, TypeOK
  <2>2. OneBusy'
    BY <2>1, StepOneBusy
  <2>3. ~overlapped /\ ~accepting => \A b \in Actors \ {a} : At(b, "idle")
    BY <2>1 DEF MotionInvariant, OneBusy, Busy
  <2>4. a \in Clients \/ accepting
    BY <2>1 DEF Inv, Alone
  <2>5. CASE Stat(a)
    BY <2>5, <2>2, WorkedSteps, FailedSteps DEF Stat, MotionInvariant, Accounted, Inv, TypeOK
  <2>6. CASE Encoders(a)
    BY <2>6, <2>2, WorkedSteps, FailedSteps DEF Encoders, MotionInvariant, Accounted, Inv, TypeOK
  <2>7. CASE Command(a)
    BY <2>7, <2>2, <2>3, <2>4, WorkedSteps, FailedSteps DEF Command, MotionInvariant, Accounted, Inv, TypeOK, Corresponds, Streams
  <2>8. CASE Engage(a)
    <3>1. a \in Clients => currentState' # NC
      BY <2>8, OpAt, OpsOfSteps, StatesOf DEF Engage, Inv, Corresponds, Streams
    <3>2. Accounted'
      BY <2>8, <2>3, <2>4, <3>1 DEF Engage, MotionInvariant, Accounted, Inv, TypeOK
    <3>3. QED BY <2>2, <3>2 DEF MotionInvariant
  <2>9. Accounted'
    BY <1>3, <2>5, <2>6, <2>7, <2>8 DEF Motion, MotionInvariant
  <2>10. QED BY <2>2, <2>9 DEF MotionInvariant
<1>4. ASSUME NEW c \in Clients, Ending(c) PROVE MotionInvariant'
  <2> USE DEF params, history, Goto, Return
  <2>1. Busy(c) /\ overlapped' = overlapped /\ \A b \in Actors \ {c} : pc'[b] = pc[b]
    BY <1>4 DEF Ending, StopState, StopArm, WaitCheck, Poll, WaitEnd, SetFrame, Busy, Inv, TypeOK
  <2>2. OneBusy'
    BY <2>1, StepOneBusy
  <2>3. CASE StopState(c)
    BY <2>3, <2>2 DEF StopState, MotionInvariant, Accounted, Inv, TypeOK
  <2>4. CASE StopArm(c)
    BY <2>4, <2>2, WorkedSteps, FailedSteps DEF StopArm, MotionInvariant, Accounted, Inv, TypeOK
  <2>5. CASE WaitCheck(c)
    BY <2>5, <2>2 DEF WaitCheck, MotionInvariant, Accounted, Inv, TypeOK
  <2>6. CASE Poll(c)
    BY <2>6, <2>2, WorkedSteps, FailedSteps DEF Poll, MotionInvariant, Accounted, Inv, TypeOK
  <2>7. CASE WaitEnd(c)
    BY <2>7, <2>2 DEF WaitEnd, MotionInvariant, Accounted, Inv, TypeOK
  <2>8. CASE SetFrame(c)
    BY <2>8, <2>2 DEF SetFrame, MotionInvariant, Accounted, Inv, TypeOK
  <2>9. QED BY <1>4, <2>3, <2>4, <2>5, <2>6, <2>7, <2>8 DEF Ending
<1>5. CASE Open \/ Connect \/ Arrive
  BY <1>5 DEF Open, Connect, Arrive, params, history, MotionInvariant, OneBusy, Accounted, Busy
<1>6. CASE Close
  BY <1>6, WorkedSteps DEF Close, params, history, MotionInvariant, OneBusy, Accounted, Busy
<1>7. CASE UNCHANGED vars
  BY <1>7 DEF vars, params, history, MotionInvariant, OneBusy, Accounted, Busy
<1>8. QED
  BY <1>1, <1>2, <1>3, <1>4, <1>5, <1>6, <1>7 DEF Next

\* As long as calls never overlapped, nobody streams and nothing failed, an arm
\* that moves between calls is in control.
THEOREM NoMotionIsOrphaned == Spec => []NoOrphanMotion
<1>1. MotionInvariant => NoOrphanMotion
  BY DEF MotionInvariant, Accounted, NoOrphanMotion, Idle
<1>2. Spec => []MotionInvariant
  BY InvHolds, InitAccounted, StepAccounted, PTL DEF Spec
<1>3. QED
  BY <1>1, <1>2, PTL
=============================================================================
