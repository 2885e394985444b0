--------------------- MODULE CartesianControlNetworkProofs ---------------------
(***************************************************************************)
(* What holds of the controller over the network for every number of       *)
(* clients, every profile, every delay and every bound on the datagrams.   *)
(***************************************************************************)
EXTENDS CartesianControlNetwork, TLAPS

Kinds == {"none", "ok", "failed", "empty"}

\* The part of the type invariant that the arguments below rest on.
Shape ==
  /\ pc \in [Clients -> {"new", "idle", "request", "serving", "reply", "gone"}]
  /\ op \in [Clients -> Ops \union {"none"}]
  /\ connected \in [Clients -> BOOLEAN]
  /\ answer \in [Clients -> BOOLEAN]
  /\ reply \in [Clients -> [kind : Kinds, since : Int]]
  /\ outcome \in [Clients -> {"none", "done", "refused"}]
  /\ began \in [Clients -> Int]
  /\ behind \in [Clients -> Int]
  /\ last \in [Clients -> Int]
  /\ arrived \in [Clients -> Int]
  /\ samples \subseteq [to : Clients, sent : Int]
  /\ now \in Int

Client(c) == ClientNext(c) \/ Serve(c)
Others    == Complete \/ Deliver \/ Callback \/ HandleTwist \/ Publish \/ Close \/ LoseTwist \/ Tick

USE DEF At, Goto, Never

LEMMA ShapeInit == Init => Shape
BY DEF Init, Shape, Kinds

LEMMA AskShape == ASSUME Shape, NEW c \in Clients, NEW o \in Ops, Ask(c, o) PROVE Shape'
BY DEF Ask, Shape, controller, ports, stream, kinematics

LEMMA AsksShape ==
  ASSUME Shape, NEW c \in Clients,
         \/ AskRunnable(c) \/ AskConsumer(c) \/ AskFunction(c) \/ AskWait(c)
         \/ AskSetter(c) \/ AskGetter(c) \/ AskStat(c)
  PROVE  Shape'
<1>1. CASE AskStat(c) /\ listening[c] /\ FreshSample(c)
  <2>1. /\ behind' = [behind EXCEPT ![c] = now - last[c]]
        /\ answer' = [answer EXCEPT ![c] = TRUE]
        /\ outcome' = [outcome EXCEPT ![c] = "done"]
        /\ UNCHANGED <<kinematics, now, pc, op, connected, reply, began>>
    BY <1>1 DEF AskStat
  <2>2. now - last[c] \in Int
    BY DEF Shape
  <2>3. QED
    BY <2>1, <2>2 DEF Shape, kinematics
<1>2. CASE AskStat(c) /\ ~(listening[c] /\ FreshSample(c))
  BY <1>2, AskShape DEF AskStat, Ops
<1>3. CASE \/ AskRunnable(c) \/ AskConsumer(c) \/ AskFunction(c) \/ AskWait(c)
           \/ AskSetter(c) \/ AskGetter(c)
  BY <1>3, AskShape
     DEF AskRunnable, AskConsumer, AskFunction, AskWait, AskSetter, AskGetter, Ops
<1>4. QED
  BY <1>1, <1>2, <1>3

LEMMA ClientShape == ASSUME Shape, NEW c \in Clients, ClientNext(c) PROVE Shape'
<1> USE DEF Shape, Kinds, controller, ports, stream, kinematics, told
<1>1. CASE Open(c)
  BY <1>1 DEF Open
<1>2. CASE CloseClient(c)
  BY <1>2 DEF CloseClient
<1>3. CASE SendTwist(c)
  BY <1>3 DEF SendTwist
<1>4. CASE Break(c)
  BY <1>4 DEF Break
<1>5. CASE Answer(c)
  BY <1>5 DEF Answer, CheckSuccess
<1>6. CASE Receive(c)
  BY <1>6 DEF Receive
<1>7. CASE Disconnect(c)
  BY <1>7 DEF Disconnect
<1>8. QED
  BY <1>1, <1>2, <1>3, <1>4, <1>5, <1>6, <1>7, AsksShape DEF ClientNext

LEMMA RespondShape ==
  ASSUME Shape, NEW c \in Clients, NEW kind \in Kinds, NEW since \in Int, Respond(c, kind, since)
  PROVE  Shape'
BY DEF Respond, Shape, Kinds, ports, stream, kinematics, told

LEMMA ServeShape == ASSUME Shape, NEW c \in Clients, Serve(c) PROVE Shape'
<1>1. CASE Dispatch(c)
  BY <1>1 DEF Dispatch, Shape, controller, ports, stream, kinematics, told
<1>2. CASE ~Dispatch(c)
  <2>1. now \in Int
    BY DEF Shape
  <2>2. \E kind \in Kinds, since \in Int : Respond(c, kind, since)
    BY <1>2, <2>1 DEF Serve, Kinds, HandleRunnable, HandleConsumer, HandleFunction, HandleWait,
       HandleStat, HandleSetter, HandleGetter
  <2>3. QED
    BY <2>2, RespondShape
<1>3. QED
  BY <1>1, <1>2

LEMMA OthersShape == ASSUME Shape, Others PROVE Shape'
<1> USE DEF Shape, controller, ports, stream, kinematics, told
<1>1. CASE Complete
  BY <1>1 DEF Complete
<1>2. CASE Deliver
  BY <1>2 DEF Deliver
<1>3. CASE Callback
  BY <1>3 DEF Callback
<1>4. CASE HandleTwist
  BY <1>4 DEF HandleTwist
<1>5. CASE Publish
  BY <1>5 DEF Publish
<1>6. CASE Close
  BY <1>6 DEF Close
<1>7. CASE LoseTwist
  BY <1>7 DEF LoseTwist
<1>8. CASE Tick
  BY <1>8 DEF Tick
<1>9. QED
  BY <1>1, <1>2, <1>3, <1>4, <1>5, <1>6, <1>7, <1>8 DEF Others

LEMMA NextCases ==
  [Next]_vars => (\E c \in Clients : ClientNext(c) \/ Serve(c)) \/ Others \/ UNCHANGED vars
BY DEF Next, Others

LEMMA ShapeStep == Shape /\ [Next]_vars => Shape'
<1> SUFFICES ASSUME Shape, [Next]_vars PROVE Shape'
  OBVIOUS
<1>1. CASE UNCHANGED vars
  BY <1>1 DEF vars, Shape, kinematics, told
<1>2. QED
  BY <1>1, ClientShape, ServeShape, OthersShape, NextCases

-----------------------------------------------------------------------------
(* A stop is final: whatever accepted the last call, with nothing accepted *)
(* or a stop, leaves nothing in control and no twist preset, so that a     *)
(* twist that arrives late is refused.                                     *)
AtRest == latest \in {"none", "stop"} => ~controlling /\ ~preset /\ ~moving

LEMMA AtRestInit == Init => AtRest
BY DEF Init, AtRest

LEMMA AtRestStep == Shape /\ AtRest /\ [Next]_vars => AtRest'
<1> SUFFICES ASSUME Shape, AtRest, [Next]_vars PROVE AtRest'
  OBVIOUS
<1> USE DEF AtRest, controller
<1>1. ASSUME NEW c \in Clients, ClientNext(c) PROVE AtRest'
  <2>1. UNCHANGED <<controller, latest>>
    BY <1>1 DEF ClientNext, Open, CloseClient, AskRunnable, AskConsumer, AskFunction, AskWait,
       AskSetter, AskGetter, AskStat, Ask, SendTwist, Break, Answer, Receive, Disconnect
  <2>2. QED
    BY <2>1
<1>2. ASSUME NEW c \in Clients, Serve(c) PROVE AtRest'
  <2>1. CASE HandleRunnable(c)
    BY <2>1 DEF HandleRunnable, StopControl
  <2>2. CASE HandleConsumer(c)
    BY <2>2 DEF HandleConsumer, Serving, Consumers
  <2>3. CASE HandleSetter(c)
    BY <2>3 DEF HandleSetter, Serving, Setters
  <2>4. CASE Dispatch(c) \/ HandleFunction(c) \/ HandleWait(c) \/ HandleStat(c) \/ HandleGetter(c)
    BY <2>4 DEF Dispatch, HandleFunction, HandleWait, HandleStat, HandleGetter
  <2>5. QED
    BY <1>2, <2>1, <2>2, <2>3, <2>4 DEF Serve
<1>3. CASE HandleTwist
  BY <1>3 DEF HandleTwist
<1>4. CASE Complete \/ Close
  BY <1>4 DEF Complete, Close, StopControl
<1>5. CASE Deliver \/ Callback \/ Publish \/ LoseTwist \/ Tick
  BY <1>5 DEF Deliver, Callback, Publish, LoseTwist, Tick
<1>6. CASE UNCHANGED vars
  BY <1>6 DEF vars
<1>7. QED
  BY <1>1, <1>2, <1>3, <1>4, <1>5, <1>6, NextCases DEF Others

(* With any number of clients and datagrams, a twist that was sent before   *)
(* the stop was served moves the robot no more.                             *)
THEOREM StopHolds == Spec => []StopIsFinal
<1>1. Init => Shape /\ AtRest
  BY ShapeInit, AtRestInit
<1>2. (Shape /\ AtRest) /\ [Next]_vars => (Shape /\ AtRest)'
  BY ShapeStep, AtRestStep
<1>3. AtRest => StopIsFinal
  BY DEF AtRest, StopIsFinal
<1>4. QED
  BY <1>1, <1>2, <1>3, PTL DEF Spec

-----------------------------------------------------------------------------
(* The stages of close: no connection, and so no server thread, once the   *)
(* RPC ports are closed; nothing from the command port once that is.       *)
Stages ==
  /\ server \in {"rpcClosed", "commandClosed", "closed"} =>
       \A c \in Clients : ~connected[c] /\ pc[c] # "serving"
  /\ server \in {"commandClosed", "closed"} => inbox = {} /\ handled = {}
  /\ server = "closed" => ~controlling /\ ~moving

LEMMA StagesInit == Init => Stages
BY DEF Init, Stages

LEMMA StagesStep == Shape /\ Stages /\ [Next]_vars => Stages'
<1> SUFFICES ASSUME Shape, Stages, [Next]_vars PROVE Stages'
  OBVIOUS
<1> USE DEF Stages, controller, stream, Shape
<1>1. ASSUME NEW c \in Clients, ClientNext(c) PROVE Stages'
  <2>1. UNCHANGED <<controller, server, inbox, handled>>
    BY <1>1 DEF ClientNext, Open, CloseClient, AskRunnable, AskConsumer, AskFunction, AskWait,
       AskSetter, AskGetter, AskStat, Ask, SendTwist, Break, Answer, Receive, Disconnect
  <2>2. \A d \in Clients : pc'[d] = "serving" => pc[d] = "serving"
    BY <1>1 DEF ClientNext, Open, CloseClient, AskRunnable, AskConsumer, AskFunction, AskWait,
       AskSetter, AskGetter, AskStat, Ask, SendTwist, Break, Answer, Receive, Disconnect
  <2>3. \A d \in Clients : connected'[d] => connected[d] \/ RpcOpen
    BY <1>1 DEF ClientNext, Open, CloseClient, AskRunnable, AskConsumer, AskFunction, AskWait,
       AskSetter, AskGetter, AskStat, Ask, SendTwist, Break, Answer, Receive, Disconnect
  <2>4. QED
    BY <2>1, <2>2, <2>3 DEF RpcOpen
<1>2. ASSUME NEW c \in Clients, Serve(c) PROVE Stages'
  <2>1. server \notin {"rpcClosed", "commandClosed", "closed"}
    BY <1>2 DEF Serve, Dispatch, HandleRunnable, HandleConsumer, HandleFunction, HandleWait,
       HandleStat, HandleSetter, HandleGetter, Serving
  <2>2. server' = server
    BY <1>2 DEF Serve, Dispatch, HandleRunnable, HandleConsumer, HandleFunction, HandleWait,
       HandleStat, HandleSetter, HandleGetter, Respond, ports
  <2>3. QED
    BY <2>1, <2>2
<1>3. CASE Complete
  BY <1>3 DEF Complete, StopControl
<1>4. CASE Deliver
  BY <1>4 DEF Deliver
<1>5. CASE Callback
  BY <1>5 DEF Callback
<1>6. CASE HandleTwist
  BY <1>6 DEF HandleTwist
<1>7. CASE Close
  BY <1>7 DEF Close, StopControl
<1>8. CASE Publish \/ LoseTwist \/ Tick
  BY <1>8 DEF Publish, LoseTwist, Tick
<1>9. CASE UNCHANGED vars
  BY <1>9 DEF vars
<1>10. QED
  BY <1>1, <1>2, <1>3, <1>4, <1>5, <1>6, <1>7, <1>8, <1>9, NextCases DEF Others

(* The order in which close stops the threads and the ports leaves no      *)
(* thread that could call a controller that is gone, and the robot at rest. *)
THEOREM ClosedIsAtRest == Spec => []ClosedMeansRest
<1>1. Init => Shape /\ Stages
  BY ShapeInit, StagesInit
<1>2. (Shape /\ Stages) /\ [Next]_vars => (Shape /\ Stages)'
  BY ShapeStep, StagesStep
<1>3. Stages => ClosedMeansRest
  BY DEF Stages, ClosedMeansRest
<1>4. QED
  BY <1>1, <1>2, <1>3, PTL DEF Spec

-----------------------------------------------------------------------------
(* What a client is told: the reply carries what the controller did, and   *)
(* is empty only once the connection is gone.                              *)
Told ==
  \A c \in Clients :
    /\ pc[c] = "new" => answer[c] /\ outcome[c] = "none"
    /\ pc[c] = "reply" =>
         \/ reply[c].kind = "ok" /\ outcome[c] = "done"
         \/ reply[c].kind = "failed" /\ outcome[c] = "refused"
         \/ reply[c].kind = "empty" /\ ~connected[c]

Frank == Told /\ Honest

LEMMA FrankInit == Init => Frank
BY DEF Init, Frank, Told, Honest

\* Steps that leave alone what the two formulas are about, but may break
\* connections.
LEMMA FrankElsewhere ==
  ASSUME Frank, UNCHANGED <<pc, answer, reply, outcome>>,
         \A c \in Clients : connected'[c] => connected[c]
  PROVE  Frank'
BY DEF Frank, Told, Honest

LEMMA FrankAsk == ASSUME Shape, Frank, NEW c \in Clients, NEW o, Ask(c, o) PROVE Frank'
<1>1. /\ pc' = [pc EXCEPT ![c] = "request"]
      /\ outcome' = [outcome EXCEPT ![c] = "none"]
      /\ UNCHANGED <<connected, reply, answer>>
  BY DEF Ask
<1>2. QED
  BY <1>1 DEF Frank, Told, Honest, Shape

LEMMA FrankClient == ASSUME Shape, Frank, NEW c \in Clients, ClientNext(c) PROVE Frank'
<1> USE DEF Shape, Frank, Told, Honest, told, kinematics
<1>1. CASE Open(c)
  <2>1. /\ pc[c] = "new"
        /\ pc' = [pc EXCEPT ![c] = "idle"] \/ pc' = [pc EXCEPT ![c] = "gone"]
        /\ \A d \in Clients \ {c} : connected'[d] = connected[d]
        /\ UNCHANGED <<reply, outcome, answer>>
    BY <1>1 DEF Open
  <2>2. QED
    BY <2>1
<1>2. CASE CloseClient(c)
  BY <1>2 DEF CloseClient
<1>3. CASE \/ AskRunnable(c) \/ AskConsumer(c) \/ AskFunction(c) \/ AskWait(c)
           \/ AskSetter(c) \/ AskGetter(c)
  BY <1>3, FrankAsk DEF AskRunnable, AskConsumer, AskFunction, AskWait, AskSetter, AskGetter
<1>4. CASE AskStat(c)
  <2>1. CASE listening[c] /\ FreshSample(c)
    <3>1. /\ answer' = [answer EXCEPT ![c] = TRUE]
          /\ outcome' = [outcome EXCEPT ![c] = "done"]
          /\ UNCHANGED <<pc, connected, reply>>
          /\ pc[c] = "idle"
      BY <1>4, <2>1 DEF AskStat
    <3>2. QED
      BY <3>1
  <2>2. CASE ~(listening[c] /\ FreshSample(c))
    BY <1>4, <2>2, FrankAsk DEF AskStat
  <2>3. QED
    BY <2>1, <2>2
<1>5. CASE SendTwist(c) \/ Receive(c)
  BY <1>5, FrankElsewhere DEF SendTwist, Receive
<1>6. CASE Break(c)
  BY <1>6 DEF Break
<1>7. CASE Answer(c)
  <2>1. /\ pc[c] = "reply" /\ pc' = [pc EXCEPT ![c] = "idle"]
        /\ answer' = [answer EXCEPT ![c] = reply[c].kind # "failed"]
        /\ UNCHANGED <<connected, outcome>>
        /\ \A d \in Clients \ {c} : reply'[d] = reply[d]
    BY <1>7 DEF Answer, CheckSuccess
  <2>2. QED
    BY <2>1
<1>8. CASE Disconnect(c)
  BY <1>8, FrankElsewhere DEF Disconnect
<1>9. QED
  BY <1>1, <1>2, <1>3, <1>4, <1>5, <1>6, <1>7, <1>8 DEF ClientNext

LEMMA FrankRespond ==
  ASSUME Shape, Frank, NEW c \in Clients, NEW kind \in {"ok", "failed"}, NEW since,
         pc[c] = "serving", Respond(c, kind, since)
  PROVE  Frank'
BY DEF Respond, Shape, Frank, Told, Honest, told

LEMMA FrankServe == ASSUME Shape, Frank, NEW c \in Clients, Serve(c) PROVE Frank'
<1>1. CASE Dispatch(c)
  BY <1>1 DEF Dispatch, Shape, Frank, Told, Honest, told
<1>2. CASE ~Dispatch(c)
  <2>1. now \in Int
    BY DEF Shape
  <2>2. pc[c] = "serving" /\ \E kind \in {"ok", "failed"}, since \in Int : Respond(c, kind, since)
    BY <1>2, <2>1 DEF Serve, HandleRunnable, HandleConsumer, HandleFunction, HandleWait,
       HandleStat, HandleSetter, HandleGetter, Serving
  <2>3. QED
    BY <2>2, FrankRespond
<1>3. QED
  BY <1>1, <1>2

LEMMA FrankStep == Shape /\ Frank /\ [Next]_vars => Frank'
<1> SUFFICES ASSUME Shape, Frank, [Next]_vars PROVE Frank'
  OBVIOUS
<1>1. CASE Others
  <2>1. UNCHANGED <<pc, answer, reply, outcome>>
    BY <1>1 DEF Others, Complete, Deliver, Callback, HandleTwist, Publish, Close, LoseTwist, Tick, told
  <2>2. \A c \in Clients : connected'[c] => connected[c]
    BY <1>1 DEF Others, Complete, Deliver, Callback, HandleTwist, Publish, Close, LoseTwist, Tick
  <2>3. QED
    BY <2>1, <2>2, FrankElsewhere
<1>2. CASE UNCHANGED vars
  BY <1>2, FrankElsewhere DEF vars, told
<1>3. QED
  BY <1>1, <1>2, FrankClient, FrankServe, NextCases

(* Whatever the other clients and the network do, a client whose connection *)
(* holds is told exactly whether its call was refused.                      *)
THEOREM ServerIsHonest == Spec => []Honest
<1>1. Init => Shape /\ Frank
  BY ShapeInit, FrankInit
<1>2. (Shape /\ Frank) /\ [Next]_vars => (Shape /\ Frank)'
  BY ShapeStep, FrankStep
<1>3. Frank => Honest
  BY DEF Frank
<1>4. QED
  BY <1>1, <1>2, <1>3, PTL DEF Spec

-----------------------------------------------------------------------------
(* How old an answer is: a sample is no longer on its way than Delay, and   *)
(* a reply of stat carries a state that was current during the call.        *)
Aged ==
  /\ FreshAnswers
  /\ now >= 0
  /\ \A s \in samples : s.sent <= now /\ now - s.sent <= Delay
  /\ \A c \in Clients :
       /\ last[c] # Never => arrived[c] - last[c] <= Delay
       /\ began[c] <= now
       /\ pc[c] = "reply" /\ op[c] = "stat" /\ reply[c].kind = "ok" => began[c] <= reply[c].since

LEMMA Bounds == Timeout \in Nat /\ Delay \in Nat
BY NetworkNumbers

LEMMA AgedInit == Init => Aged
BY Bounds DEF Init, Aged, FreshAnswers

LEMMA AgedElsewhere ==
  ASSUME Aged, UNCHANGED <<behind, kinematics, now, began>>,
         \A c \in Clients : pc'[c] = "reply" => pc[c] = "reply" /\ op'[c] = op[c] /\ reply'[c] = reply[c]
  PROVE  Aged'
BY DEF Aged, FreshAnswers, kinematics

LEMMA AgedAsk == ASSUME Shape, Aged, NEW c \in Clients, NEW o, Ask(c, o) PROVE Aged'
<1>1. /\ pc' = [pc EXCEPT ![c] = "request"]
      /\ began' = [began EXCEPT ![c] = IF o = "stat" THEN now ELSE 0]
      /\ behind' = [behind EXCEPT ![c] = 0]
      /\ op' = [op EXCEPT ![c] = o]
      /\ UNCHANGED <<kinematics, now, reply>>
  BY DEF Ask
<1>2. QED
  BY <1>1, Bounds DEF Aged, FreshAnswers, Shape, kinematics

LEMMA AgedClient == ASSUME Shape, Aged, NEW c \in Clients, ClientNext(c) PROVE Aged'
<1> USE Bounds DEF Shape, Aged, FreshAnswers, kinematics, told
<1>1. CASE Open(c)
  <2>1. /\ pc' = [pc EXCEPT ![c] = "idle"] \/ pc' = [pc EXCEPT ![c] = "gone"]
        /\ UNCHANGED <<samples, last, arrived, now, op, reply, behind, began>>
    BY <1>1 DEF Open
  <2>2. QED
    BY <2>1
<1>2. CASE CloseClient(c)
  BY <1>2 DEF CloseClient
<1>3. CASE \/ AskRunnable(c) \/ AskConsumer(c) \/ AskFunction(c) \/ AskWait(c)
           \/ AskSetter(c) \/ AskGetter(c)
  BY <1>3, AgedAsk DEF AskRunnable, AskConsumer, AskFunction, AskWait, AskSetter, AskGetter
<1>4. CASE AskStat(c)
  <2>1. CASE listening[c] /\ FreshSample(c)
    <3>1. /\ behind' = [behind EXCEPT ![c] = now - last[c]]
          /\ UNCHANGED <<kinematics, now, pc, op, reply, began>>
      BY <1>4, <2>1 DEF AskStat
    <3>2. last[c] # Never /\ now - arrived[c] <= Timeout
      BY <2>1 DEF FreshSample
    <3>3. now - last[c] <= Timeout + Delay
      BY <3>2
    <3>4. QED
      BY <3>1, <3>3
  <2>2. CASE ~(listening[c] /\ FreshSample(c))
    BY <1>4, <2>2, AgedAsk DEF AskStat
  <2>3. QED
    BY <2>1, <2>2
<1>5. CASE SendTwist(c) \/ Disconnect(c)
  BY <1>5, AgedElsewhere DEF SendTwist, Disconnect
<1>6. CASE Break(c)
  BY <1>6 DEF Break
<1>7. CASE Answer(c)
  <2>1. /\ pc[c] = "reply" /\ pc' = [pc EXCEPT ![c] = "idle"]
        /\ \/ /\ op[c] = "stat" /\ reply[c].kind = "ok"
              /\ behind' = [behind EXCEPT ![c] = began[c] - reply[c].since]
           \/ behind' = behind
        /\ \A d \in Clients \ {c} : reply'[d] = reply[d] /\ op'[d] = op[d]
        /\ UNCHANGED <<kinematics, now, began>>
    BY <1>7 DEF Answer
  <2>2. op[c] = "stat" /\ reply[c].kind = "ok" => began[c] - reply[c].since <= Timeout + Delay
    BY <2>1
  <2>3. FreshAnswers'
    BY <2>1, <2>2
  <2>4. QED
    BY <2>1, <2>3
<1>8. CASE Receive(c)
  <2>1. PICK s \in samples : /\ s.to = c
                             /\ samples' = samples \ {s}
                             /\ last' = [last EXCEPT ![c] = s.sent]
                             /\ arrived' = [arrived EXCEPT ![c] = now]
    BY <1>8 DEF Receive
  <2>2. UNCHANGED <<now, pc, op, reply, behind, began>>
    BY <1>8 DEF Receive
  <2>3. QED
    BY <2>1, <2>2
<1>9. QED
  BY <1>1, <1>2, <1>3, <1>4, <1>5, <1>6, <1>7, <1>8 DEF ClientNext

LEMMA AgedRespond ==
  ASSUME Shape, Aged, NEW c \in Clients, NEW kind \in {"ok", "failed"}, NEW since \in Int,
         Respond(c, kind, since), kind = "ok" /\ op[c] = "stat" => since = now
  PROVE  Aged'
<1>1. /\ reply' = [reply EXCEPT ![c] = IF connected[c] THEN [kind |-> kind, since |-> since]
                                       ELSE [kind |-> "empty", since |-> Never]]
      /\ pc' = [pc EXCEPT ![c] = "reply"]
      /\ UNCHANGED <<kinematics, now, op, behind, began>>
  BY DEF Respond, told
<1>2. QED
  BY <1>1 DEF Shape, Aged, FreshAnswers, kinematics

LEMMA AgedServe == ASSUME Shape, Aged, NEW c \in Clients, Serve(c) PROVE Aged'
<1>1. CASE Dispatch(c)
  BY <1>1 DEF Dispatch, Shape, Aged, FreshAnswers, kinematics, told
<1>2. now \in Int /\ Never \in Int
  BY DEF Shape
<1>3. CASE HandleStat(c)
  BY <1>2, <1>3, AgedRespond DEF HandleStat
<1>4. CASE ~Dispatch(c) /\ ~HandleStat(c)
  <2>1. op[c] # "stat" /\ \E kind \in {"ok", "failed"} : Respond(c, kind, Never)
    BY <1>4 DEF Serve, HandleRunnable, HandleConsumer, HandleFunction, HandleWait,
       HandleSetter, HandleGetter, Serving, Runnables, Consumers, Functions, Setters, Getters
  <2>2. QED
    BY <1>2, <2>1, AgedRespond
<1>5. QED
  BY <1>1, <1>3, <1>4

LEMMA AgedStep == Shape /\ Aged /\ [Next]_vars => Aged'
<1> SUFFICES ASSUME Shape, Aged, [Next]_vars PROVE Aged'
  OBVIOUS
<1>1. CASE Publish
  BY <1>1, Bounds DEF Publish, Shape, Aged, FreshAnswers, told
<1>2. CASE Tick
  BY <1>2 DEF Tick, Shape, Aged, FreshAnswers, told
<1>3. CASE Complete \/ Deliver \/ Callback \/ HandleTwist \/ Close \/ LoseTwist
  BY <1>3, AgedElsewhere DEF Complete, Deliver, Callback, HandleTwist, Close, LoseTwist, told
<1>4. CASE UNCHANGED vars
  BY <1>4, AgedElsewhere DEF vars, told
<1>5. QED
  BY <1>1, <1>2, <1>3, <1>4, AgedClient, AgedServe, NextCases DEF Others

(* For every timeout and every delay of the network: a state that stat      *)
(* returns was the current one no longer ago than both together.            *)
THEOREM AnswersAreFresh == Spec => []FreshAnswers
<1>1. Init => Shape /\ Aged
  BY ShapeInit, AgedInit
<1>2. (Shape /\ Aged) /\ [Next]_vars => (Shape /\ Aged)'
  BY ShapeStep, AgedStep
<1>3. Aged => FreshAnswers
  BY DEF Aged
<1>4. QED
  BY <1>1, <1>2, <1>3, PTL DEF Spec
=============================================================================
