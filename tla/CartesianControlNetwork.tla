----------------------- MODULE CartesianControlNetwork -----------------------
(***************************************************************************)
(* The controller over the network: every element of Clients is a process  *)
(* with a CartesianControlClient, all of them talk to one                  *)
(* CartesianControlServer.                                                 *)
(*                                                                         *)
(*   - RPC (TCP): one request, one reply, executed by a server thread per  *)
(*     connection; a broken connection shows as an empty reply;            *)
(*   - command port (UDP): twists are lost or overtake one another; the    *)
(*     server keeps the last one to arrive and a callback thread takes it; *)
(*   - state port (UDP): the server publishes forward kinematics, clients  *)
(*     keep the last sample to arrive.                                     *)
(*                                                                         *)
(* The controller behind the server is BasicCartesianControl, a call being *)
(* one step.  The transport is that of YARP and external.                  *)
(***************************************************************************)
EXTENDS Integers, FiniteSets

CONSTANTS
  Clients,
  Transforms,   \* those that ask for the transform port
  Profiles,     \* what each of them may do: operations, "twist"
  Timeout,      \* age up to which a client trusts a sample (fkStreamTimeoutSecs)
  Delay,        \* time after which a sample in flight is lost
  MaxTime,      \* bound on the clock
  MaxFlight     \* bound on the datagrams in flight, of each kind

ASSUME NetworkClients == Transforms \subseteq Clients
ASSUME NetworkNumbers == {Timeout, Delay, MaxTime, MaxFlight} \subseteq Nat

Runnables == {"stop"}
Consumers == {"move"}
Functions == {"inv"}
Setters   == {"preset"}
Getters   == {"get"}
Ops       == Runnables \union Consumers \union Functions \union Setters
               \union Getters \union {"wait", "stat"}
Twists    == {"go", "zero"}
Never     == -1

ASSUME NetworkProfiles == Profiles \subseteq [Clients -> SUBSET (Ops \union {"twist"})]

VARIABLES
  \* the controller: a movement is in control, twists are preset, the robot moves
  controlling, preset, moving,
  \* the server: "open", then the stages of close
  server,
  \* ports that open has opened, profile of the clients
  fkPort, transformPort, issues,
  \* command port: last twist to arrive, and the one that the callback handles
  inbox, handled,
  \* datagrams in flight
  twists, samples,
  now,
  \* clients: control point, call, connection, reply
  pc, op, connected, reply,
  \* the FK stream of each client: listening, last sample and its arrival
  listening, last, arrived,
  \* what clients were told: the answer, and how long before the call the state
  \* that stat returned was the current one
  answer, behind,
  \* history: what the controller did with the call, when the call began, the
  \* last call that the controller acted upon, which clients crashed
  outcome, began, latest, crashed

controller == <<controlling, preset, moving>>
ports      == <<fkPort, transformPort, issues>>
stream     == <<twists, inbox, handled>>
kinematics == <<samples, listening, last, arrived>>
told       == <<answer, behind>>
vars == <<controller, server, ports, stream, kinematics, now, pc, op, connected,
          reply, told, outcome, began, latest, crashed>>

-----------------------------------------------------------------------------
(* The client.                                                             *)

At(c, step)   == pc[c] = step /\ ~crashed[c]
Goto(c, step) == pc' = [pc EXCEPT ![c] = step]

RpcOpen   == server \in {"open", "fkStopped"}

\* open: a client that wants the transform port fails if there is none, and
\* does not listen to the state port (nor does, in this model, one that has no
\* use for it).
Open(c) ==
  /\ At(c, "new")
  /\ IF RpcOpen /\ (c \in Transforms => transformPort)
       THEN /\ Goto(c, "idle")
            /\ connected' = [connected EXCEPT ![c] = TRUE]
            /\ listening' = [listening EXCEPT ![c] =
                               /\ c \notin Transforms /\ fkPort /\ server = "open"
                               /\ "stat" \in issues[c]]
       ELSE Goto(c, "gone") /\ UNCHANGED <<connected, listening>>
  /\ UNCHANGED <<controller, server, ports, stream, samples, last, arrived, now,
                 op, reply, told, outcome, began, latest, crashed>>

\* close, and the object is destroyed.
CloseClient(c) ==
  /\ At(c, "idle")
  /\ Goto(c, "gone")
  /\ connected' = [connected EXCEPT ![c] = FALSE]
  /\ listening' = [listening EXCEPT ![c] = FALSE]
  /\ last' = [last EXCEPT ![c] = Never]
  /\ arrived' = [arrived EXCEPT ![c] = Never]
  /\ answer' = [answer EXCEPT ![c] = TRUE]
  /\ behind' = [behind EXCEPT ![c] = 0]
  /\ outcome' = [outcome EXCEPT ![c] = "none"]
  /\ began' = [began EXCEPT ![c] = 0]
  /\ UNCHANGED <<controller, server, ports, stream, samples, now, op, reply, latest,
                 crashed>>

Ask(c, o) ==
  /\ o \in issues[c]
  /\ At(c, "idle")
  /\ Goto(c, "request")
  /\ op' = [op EXCEPT ![c] = o]
  /\ outcome' = [outcome EXCEPT ![c] = "none"]
  /\ behind' = [behind EXCEPT ![c] = 0]
  /\ began' = [began EXCEPT ![c] = IF o = "stat" THEN now ELSE 0]
  /\ UNCHANGED <<controller, server, ports, stream, kinematics, now, connected,
                 reply, answer, latest, crashed>>

AskRunnable(c) == \E o \in Runnables : Ask(c, o)
AskConsumer(c) == \E o \in Consumers : Ask(c, o)
AskFunction(c) == \E o \in Functions : Ask(c, o)
AskWait(c)     == Ask(c, "wait")
AskSetter(c)   == \E o \in Setters : Ask(c, o)
AskGetter(c)   == \E o \in Getters : Ask(c, o)

\* Mutant: the age of the sample is not looked at.
AnySample(c) == last[c] # Never

\* getLastStatData: arrived, not sent, within the timeout.
FreshSample(c) == last[c] # Never /\ now - arrived[c] <= Timeout

\* stat: from the stream if its last sample is fresh, else by RPC.
AskStat(c) ==
  IF listening[c] /\ FreshSample(c)
    THEN /\ "stat" \in issues[c]
         /\ At(c, "idle")
         /\ behind' = [behind EXCEPT ![c] = now - last[c]]
         /\ answer' = [answer EXCEPT ![c] = TRUE]
         /\ outcome' = [outcome EXCEPT ![c] = "done"]
         /\ UNCHANGED <<controller, server, ports, stream, kinematics, now, pc, op,
                        connected, reply, began, latest, crashed>>
    ELSE Ask(c, "stat")

\* The connection is gone: the reply is empty.
Break(c) ==
  /\ At(c, "request")
  /\ ~connected[c]
  /\ Goto(c, "reply")
  /\ reply' = [reply EXCEPT ![c] = [kind |-> "empty", since |-> Never]]
  /\ UNCHANGED <<controller, server, ports, stream, kinematics, now, op,
                 connected, told, outcome, began, latest, crashed>>

\* Mutant: a reply that reports a failure is a success as well.
AnyReply(r) == r.kind \in {"ok", "failed", "empty"}

CheckSuccess(r) == r.kind # "failed"

\* The client has its reply.  stat resizes its vector to the size of the reply
\* minus two: an empty reply ends the process.
Answer(c) ==
  /\ At(c, "reply")
  /\ Goto(c, "idle")
  /\ op' = [op EXCEPT ![c] = "none"]
  /\ answer' = [answer EXCEPT ![c] = CheckSuccess(reply[c])]
  /\ crashed' = [crashed EXCEPT ![c] = op[c] = "stat" /\ reply[c].kind = "empty"]
  /\ behind' = IF op[c] = "stat" /\ reply[c].kind = "ok"
                 THEN [behind EXCEPT ![c] = began[c] - reply[c].since]
                 ELSE behind
  /\ reply' = [reply EXCEPT ![c] = [kind |-> "none", since |-> Never]]
  /\ UNCHANGED <<controller, server, ports, stream, kinematics, now, connected,
                 outcome, began, latest>>

\* twist: written to the command port, without an answer.
SendTwist(c) ==
  /\ "twist" \in issues[c]
  /\ At(c, "idle")
  /\ Cardinality(twists) < MaxFlight
  /\ \E t \in Twists : twists' = twists \union {t}
  /\ UNCHANGED <<controller, server, ports, inbox, handled, kinematics, now, pc,
                 op, connected, reply, told, outcome, began, latest, crashed>>

\* FkStreamResponder::onRead keeps whatever comes last, even if it was sent
\* before what it has.
Receive(c) ==
  /\ listening[c] /\ ~crashed[c]
  /\ \E s \in samples :
       /\ s.to = c
       /\ samples' = samples \ {s}
       /\ last' = [last EXCEPT ![c] = s.sent]
       /\ arrived' = [arrived EXCEPT ![c] = now]
  /\ UNCHANGED <<controller, server, ports, stream, listening, now, pc, op,
                 connected, reply, told, outcome, began, latest, crashed>>

-----------------------------------------------------------------------------
(* The server.                                                             *)

\* Which transform port open leaves behind: unknown angles or units end it
\* early, an unknown system of coordinates does not.
TransformPort(coord, angle, units) ==
  "unknown" \notin {angle, units} /\ "known" \in {coord, angle, units}

\* A request reaches a server thread.
Dispatch(c) ==
  /\ At(c, "request")
  /\ connected[c]
  /\ Goto(c, "serving")
  /\ UNCHANGED <<controller, server, ports, stream, kinematics, now, op, connected,
                 reply, told, outcome, began, latest, crashed>>

Respond(c, kind, since) ==
  /\ Goto(c, "reply")
  /\ reply' = [reply EXCEPT ![c] =
                 IF connected[c] THEN [kind |-> kind, since |-> since]
                                 ELSE [kind |-> "empty", since |-> Never]]
  /\ outcome' = [outcome EXCEPT ![c] = IF kind = "ok" THEN "done" ELSE "refused"]
  /\ UNCHANGED <<server, ports, stream, kinematics, now, op, connected, told,
                 began, crashed>>

Serving(c, O) == pc[c] = "serving" /\ op[c] \in O

\* Mutant: stopControl leaves the streaming command preset.
StopKeepsPreset == controlling' = FALSE /\ moving' = FALSE /\ UNCHANGED preset

StopControl == controlling' = FALSE /\ preset' = FALSE /\ moving' = FALSE

HandleRunnable(c) ==
  /\ Serving(c, Runnables)
  /\ StopControl
  /\ Respond(c, "ok", Never)
  /\ latest' = op[c]

\* On the transform port, a point that cannot be converted is refused.
HandleConsumer(c) ==
  /\ Serving(c, Consumers)
  /\ \/ /\ controlling' = TRUE /\ preset' = FALSE /\ moving' = TRUE
        /\ Respond(c, "ok", Never)
        /\ latest' = op[c]
     \/ Respond(c, "failed", Never) /\ UNCHANGED <<controller, latest>>

HandleFunction(c) ==
  /\ Serving(c, Functions)
  /\ \E kind \in {"ok", "failed"} : Respond(c, kind, Never)
  /\ UNCHANGED <<controller, latest>>

\* wait blocks the server thread while a movement is in control.
HandleWait(c) ==
  /\ Serving(c, {"wait"})
  /\ ~controlling
  /\ \E kind \in {"ok", "failed"} : Respond(c, kind, Never)
  /\ UNCHANGED <<controller, latest>>

HandleStat(c) ==
  /\ Serving(c, {"stat"})
  /\ Respond(c, "ok", now) \/ Respond(c, "failed", Never)
  /\ UNCHANGED <<controller, latest>>

\* With nothing in control, a preset that the controller refuses (a command it
\* does not know, a joint that does not change its mode) drops the one before.
HandleSetter(c) ==
  /\ Serving(c, Setters)
  /\ \/ /\ controlling
        /\ Respond(c, "failed", Never)
        /\ UNCHANGED <<preset, latest>>
     \/ /\ ~controlling
        /\ preset' = TRUE
        /\ Respond(c, "ok", Never)
        /\ latest' = op[c]
     \/ /\ ~controlling
        /\ preset' = FALSE
        /\ Respond(c, "failed", Never)
        /\ UNCHANGED latest
  /\ UNCHANGED <<controlling, moving>>

HandleGetter(c) ==
  /\ Serving(c, Getters)
  /\ \E kind \in {"ok", "failed"} : Respond(c, kind, Never)
  /\ UNCHANGED <<controller, latest>>

\* The movement ends.
Complete ==
  /\ controlling
  /\ StopControl
  /\ UNCHANGED <<server, ports, stream, kinematics, now, pc, op, connected, reply,
                 told, outcome, began, latest, crashed>>

\* A twist arrives, in any order; one that waits for the callback is replaced.
Deliver ==
  /\ issues \in Profiles
  /\ server \in {"open", "fkStopped", "rpcClosed"}
  /\ \E t \in twists : twists' = twists \ {t} /\ inbox' = {t}
  /\ UNCHANGED <<controller, server, ports, handled, kinematics, now, pc, op,
                 connected, reply, told, outcome, began, latest, crashed>>

Callback ==
  /\ inbox # {} /\ handled = {}
  /\ handled' = inbox
  /\ inbox' = {}
  /\ UNCHANGED <<controller, server, ports, twists, kinematics, now, pc, op,
                 connected, reply, told, outcome, began, latest, crashed>>

\* onRead: the controller takes a twist if nothing is in control and twists are
\* preset.
HandleTwist ==
  /\ \E t \in handled :
       moving' = IF ~controlling /\ preset THEN t = "go" ELSE moving
  /\ handled' = {}
  /\ UNCHANGED <<controlling, preset, server, ports, twists, inbox, kinematics, now,
                 pc, op, connected, reply, told, outcome, began, latest, crashed>>

\* run(), every fkPeriod: one sample for every client that listens.
Publish ==
  /\ fkPort /\ server = "open"
  /\ samples' = samples \union {[to |-> c, sent |-> now] : c \in {d \in Clients : listening[d]}}
  /\ Cardinality(samples') <= MaxFlight
  /\ UNCHANGED <<controller, server, ports, stream, listening, last, arrived, now,
                 pc, op, connected, reply, told, outcome, began, latest, crashed>>

\* Mutant: the controller is closed first.
CloseDeviceFirst ==
  /\ server = "open"
  /\ server' = "closed"
  /\ StopControl
  /\ UNCHANGED <<ports, stream, kinematics, now, pc, op, connected, reply, told,
                 outcome, began, latest, crashed>>

\* close: the FK thread, the RPC ports, the command port, the controller.  A
\* port is closed once its threads are done; clients lose their connections.
Close ==
  /\ \/ server = "open" /\ server' = "fkStopped" /\ UNCHANGED <<connected, inbox, controller>>
     \/ /\ server = "fkStopped"
        /\ \A c \in Clients : pc[c] # "serving"
        /\ server' = "rpcClosed"
        /\ connected' = [c \in Clients |-> FALSE]
        /\ UNCHANGED <<inbox, controller>>
     \/ /\ server = "rpcClosed"
        /\ handled = {}
        /\ server' = "commandClosed"
        /\ inbox' = {}
        /\ UNCHANGED <<connected, controller>>
     \/ /\ server = "commandClosed"
        /\ server' = "closed"
        /\ StopControl
        /\ UNCHANGED <<connected, inbox>>
  /\ UNCHANGED <<ports, twists, handled, kinematics, now, pc, op, reply, told,
                 outcome, began, latest, crashed>>

-----------------------------------------------------------------------------
(* The network.                                                            *)

LoseTwist ==
  /\ \E t \in twists : twists' = twists \ {t}
  /\ UNCHANGED <<controller, server, ports, inbox, handled, kinematics, now, pc, op,
                 connected, reply, told, outcome, began, latest, crashed>>

\* Samples in flight for Delay are lost.  Only those who listen look at
\* the clock.
Tick ==
  /\ now < MaxTime /\ \E c \in Clients : listening[c]
  /\ now' = now + 1
  /\ samples' = {s \in samples : now' - s.sent <= Delay}
  /\ UNCHANGED <<controller, server, ports, stream, listening, last, arrived, pc,
                 op, connected, reply, told, outcome, began, latest, crashed>>

Disconnect(c) ==
  /\ connected[c]
  /\ connected' = [connected EXCEPT ![c] = FALSE]
  /\ UNCHANGED <<controller, server, ports, stream, kinematics, now, pc, op, reply,
                 told, outcome, began, latest, crashed>>

Init ==
  /\ controlling = FALSE /\ preset = FALSE /\ moving = FALSE
  /\ server = "open"
  /\ issues \in Profiles
  /\ fkPort \in BOOLEAN
  /\ LET Given == {"absent", "known", "unknown"}
     IN  \E coord, angle, units \in Given : transformPort = TransformPort(coord, angle, units)
  /\ inbox = {} /\ handled = {} /\ twists = {} /\ samples = {}
  /\ now = 0
  /\ pc = [c \in Clients |-> "new"]
  /\ op = [c \in Clients |-> "none"]
  /\ connected = [c \in Clients |-> FALSE]
  /\ reply = [c \in Clients |-> [kind |-> "none", since |-> Never]]
  /\ listening = [c \in Clients |-> FALSE]
  /\ last = [c \in Clients |-> Never]
  /\ arrived = [c \in Clients |-> Never]
  /\ answer = [c \in Clients |-> TRUE]
  /\ behind = [c \in Clients |-> 0]
  /\ outcome = [c \in Clients |-> "none"]
  /\ began = [c \in Clients |-> 0]
  /\ latest = "none"
  /\ crashed = [c \in Clients |-> FALSE]

ClientNext(c) ==
  \/ Open(c) \/ CloseClient(c)
  \/ AskRunnable(c) \/ AskConsumer(c) \/ AskFunction(c) \/ AskWait(c)
  \/ AskSetter(c) \/ AskGetter(c) \/ AskStat(c) \/ SendTwist(c)
  \/ Break(c) \/ Answer(c) \/ Receive(c) \/ Disconnect(c)

Serve(c) ==
  \/ Dispatch(c) \/ HandleRunnable(c) \/ HandleConsumer(c) \/ HandleFunction(c)
  \/ HandleWait(c) \/ HandleStat(c) \/ HandleSetter(c) \/ HandleGetter(c)

Next ==
  \/ \E c \in Clients : ClientNext(c) \/ Serve(c)
  \/ Complete \/ Deliver \/ Callback \/ HandleTwist \/ Publish \/ Close
  \/ LoseTwist \/ Tick

Spec == Init /\ [][Next]_vars

-----------------------------------------------------------------------------
Reply == [kind : {"none", "ok", "failed", "empty"}, since : 0..MaxTime \union {Never}]

TypeOK ==
  /\ {controlling, preset, moving, fkPort, transformPort} \subseteq BOOLEAN
  /\ issues \in Profiles
  /\ server \in {"open", "fkStopped", "rpcClosed", "commandClosed", "closed"}
  /\ {connected, listening, answer, crashed} \subseteq [Clients -> BOOLEAN]
  /\ {inbox, handled, twists} \subseteq SUBSET Twists
  /\ samples \subseteq [to : Clients, sent : 0..MaxTime]
  /\ now \in 0..MaxTime
  /\ pc \in [Clients -> {"new", "idle", "request", "serving", "reply", "gone"}]
  /\ op \in [Clients -> Ops \union {"none"}]
  /\ reply \in [Clients -> Reply]
  /\ {last, arrived} \subseteq [Clients -> 0..MaxTime \union {Never}]
  /\ behind \in [Clients -> -MaxTime..MaxTime]
  /\ outcome \in [Clients -> {"none", "done", "refused"}]
  /\ began \in [Clients -> 0..MaxTime]
  /\ latest \in {"none", "stop", "move", "preset"}

\* The state that stat returns was the current one during the call or, if it is
\* from the stream, at most the timeout and the way of the sample before it:
\* FkStreamResponder stamps samples on arrival and keeps the last to arrive.
FreshAnswers ==
  \A c \in Clients : behind[c] <= Timeout + Delay

\* As long as the connection holds, a client is told TRUE exactly if the
\* controller did not refuse its last call; FALSE never stands for anything
\* but a refusal.  (The empty reply of a broken connection counts as TRUE.)
Honest ==
  \A c \in Clients : pc[c] = "idle" =>
    /\ connected[c] => (answer[c] <=> outcome[c] # "refused")
    /\ ~answer[c] => outcome[c] = "refused"

\* Once a stop has been served, no twist that was sent, under way, or waiting
\* for the callback at the time moves the robot, until the next call that
\* the controller accepts.
StopIsFinal == latest \in {"none", "stop"} => ~moving

\* A server that has closed leaves no thread behind, and the robot at rest.
ClosedMeansRest ==
  server = "closed" =>
    /\ \A c \in Clients : pc[c] # "serving"
    /\ handled = {} /\ inbox = {}
    /\ ~controlling /\ ~moving
=============================================================================
