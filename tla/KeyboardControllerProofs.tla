----------------------- MODULE KeyboardControllerProofs -----------------------
(***************************************************************************)
(* What holds of the keyboard controller for any bounds on velocities,     *)
(* joints and faults, however the keys, the signal, the controller thread  *)
(* and the failures of the remote device interleave.                       *)
(*                                                                         *)
(* A key press puts a sequence of calls ahead of the main thread (todo).   *)
(* The inductive invariant speaks of the SET of calls that are ahead, so   *)
(* the first part of the module shows what every such sequence looks like  *)
(* (Script): which call may follow which.  The second part states the      *)
(* invariant, the third has one lemma per action.                          *)
(***************************************************************************)
EXTENDS KeyboardController, TLAPS

\* The steps of todo: those of a stop, those that come last, and those that
\* give the robot a point.
StopSteps  == {"actuator", "suspend", "stopControl", "stopReply", "boardStop", "clear"}
LastSteps  == {"adjust", "setFrame", "useTcpFrame", "act", "velocityMove", "cartesian"}
PointSteps == {"zeroTwist", "movv", "resume"}
Steps      == StopSteps \union LastSteps \union PointSteps
                \union {"velocityMode", "preset", "point"}

\* b may follow a; "end" follows the last step.
Then(a, b) ==
  \/ a \in LastSteps /\ b = "end"
  \/ a \in PointSteps /\ b = "cartesian"
  \/ a = "velocityMode" /\ b = "velocityMove"
  \/ a = "preset" /\ b = "point"
  \/ a = "point" /\ b = "resume"
  \/ a = "actuator" /\ b \in {"suspend", "stopControl"}
  \/ a = "suspend" /\ b \in {"cartesian", "stopControl"}
  \/ a = "stopControl" /\ b = "stopReply"
  \/ a \in {"stopReply", "boardStop"} /\ b = "clear"
  \/ a = "clear"

Follower(s, i) == IF i = Len(s) THEN "end" ELSE s[i + 1]
First(s)       == IF s = <<>> THEN "end" ELSE Head(s)

Script(s) == s \in Seq(Steps) /\ \A i \in 1..Len(s) : Then(s[i], Follower(s, i))

In(s) == {x \in Steps : \E i \in 1..Len(s) : s[i] = x}

\* Head and tail of a sequence that is not empty.
LEMMA NonEmpty ==
  ASSUME NEW S, NEW s \in Seq(S), s # <<>>
  PROVE  /\ Len(s) \in Nat \ {0} /\ Head(s) = s[1] /\ Head(s) \in S
         /\ Tail(s) \in Seq(S) /\ Len(Tail(s)) = Len(s) - 1
         /\ \A i \in 1..Len(Tail(s)) : Tail(s)[i] = s[i + 1]
OBVIOUS

\* Only the empty sequence has length 0.
LEMMA Empty ==
  ASSUME NEW S, NEW s \in Seq(S)
  PROVE  s = <<>> <=> Len(s) = 0
OBVIOUS

\* Nothing is ahead in the empty sequence.
LEMMA InEmpty == In(<<>>) = {} /\ Script(<<>>)
BY DEF In, Script

\* Taking the first step leaves a script.
LEMMA TailScript ==
  ASSUME NEW s, Script(s), s # <<>>
  PROVE  /\ Script(Tail(s)) /\ Head(s) \in Steps /\ Then(Head(s), First(Tail(s)))
         /\ In(s) = {Head(s)} \union In(Tail(s))
<1>1. /\ s \in Seq(Steps) /\ Tail(s) \in Seq(Steps) /\ Len(s) \in Nat \ {0}
      /\ Len(Tail(s)) = Len(s) - 1 /\ Head(s) = s[1] /\ Head(s) \in Steps
      /\ \A i \in 1..Len(Tail(s)) : Tail(s)[i] = s[i + 1]
  BY NonEmpty DEF Script
<1> DEFINE t == Tail(s)
<1> HIDE DEF t
<1>2. /\ t \in Seq(Steps) /\ Len(t) = Len(s) - 1 /\ \A i \in 1..Len(t) : t[i] = s[i + 1]
  BY <1>1 DEF t
<1>3. Script(t)
  <2>1. SUFFICES ASSUME NEW i \in 1..Len(t) PROVE Then(t[i], Follower(t, i))
    BY <1>2 DEF Script
  <2>2. i + 1 \in 1..Len(s) /\ t[i] = s[i + 1]
    BY <1>1, <1>2
  <2>3. Follower(t, i) = Follower(s, i + 1)
    <3>1. CASE i = Len(t)
      BY <3>1, <1>1, <1>2 DEF Follower
    <3>2. CASE i # Len(t)
      <4>1. i + 1 # Len(s) /\ i + 1 \in 1..Len(t)
        <5>1. Len(t) \in Nat /\ Len(s) = Len(t) + 1
          BY <1>1, <1>2
        <5>2. QED  BY <3>2, <5>1
      <4>2. t[i + 1] = s[i + 1 + 1]
        BY <4>1, <1>2
      <4>3. QED  BY <3>2, <4>1, <4>2 DEF Follower
    <3>3. QED  BY <3>1, <3>2
  <2>4. Then(s[i + 1], Follower(s, i + 1))
    BY <2>2 DEF Script
  <2>5. QED  BY <2>2, <2>3, <2>4
<1>4. In(s) = {s[1]} \union In(t)
  <2>1. ASSUME NEW x \in In(s) PROVE x \in {s[1]} \union In(t)
    <3>1. PICK i \in 1..Len(s) : s[i] = x
      BY DEF In
    <3>2. CASE i = 1
      BY <3>1, <3>2
    <3>3. CASE i # 1
      <4>1. i - 1 \in 1..Len(t) /\ t[i - 1] = x
        BY <1>1, <1>2, <3>1, <3>3
      <4>2. QED  BY <4>1, <2>1 DEF In
    <3>4. QED  BY <3>2, <3>3
  <2>2. ASSUME NEW x \in In(t) PROVE x \in In(s)
    <3>1. PICK i \in 1..Len(t) : t[i] = x
      BY DEF In
    <3>2. i + 1 \in 1..Len(s) /\ s[i + 1] = x
      BY <1>1, <1>2, <3>1
    <3>3. QED  BY <3>2, <2>2 DEF In
  <2>3. s[1] \in In(s)
    BY <1>1 DEF In
  <2>4. QED  BY <2>1, <2>2, <2>3
<1>5. Then(s[1], First(t))
  <2>1. 1 \in 1..Len(s)
    BY <1>1
  <2>2. Then(s[1], Follower(s, 1))
    BY <2>1 DEF Script
  <2>3. CASE t = <<>>
    <3>0. Len(t) = 0  BY <2>3, <1>2, Empty
    <3>9. Len(s) \in Nat /\ Len(t) = Len(s) - 1  BY <1>1, <1>2
    <3>1. Len(s) = 1  BY <3>0, <3>9
    <3>2. QED  BY <3>1, <2>2, <2>3 DEF First, Follower
  <2>4. CASE t # <<>>
    <3>1. Len(t) # 0  BY <2>4, <1>2, Empty
    <3>2. Len(s) # 1 /\ 1 \in 1..Len(t) /\ Head(t) = t[1] /\ t[1] = s[1 + 1]
      BY <3>1, <2>4, <1>1, <1>2, NonEmpty
    <3>3. QED  BY <3>2, <2>2, <2>4 DEF First, Follower
  <2>5. QED  BY <2>3, <2>4
<1>6. QED  BY <1>1, <1>3, <1>4, <1>5 DEF t

\* b, the only step that may follow a, does.
LEMMA OnlyHead ==
  ASSUME NEW s, Script(s), s # <<>>, NEW b \in Steps, \A c : Then(Head(s), c) => c = b
  PROVE  Tail(s) # <<>> /\ Head(Tail(s)) = b
<1>1. First(Tail(s)) = b /\ b # "end"
  BY TailScript DEF Steps, StopSteps, LastSteps, PointSteps
<1>2. QED  BY <1>1 DEF First

\* Nothing follows a last step.
LEMMA LastHead ==
  ASSUME NEW s, Script(s), s # <<>>, Head(s) \in LastSteps
  PROVE  Tail(s) = <<>>
<1>1. First(Tail(s)) = "end" /\ Script(Tail(s))
  BY TailScript DEF Then, LastSteps, PointSteps
<1>2. Tail(s) # <<>> => Head(Tail(s)) \in Steps
  BY <1>1, TailScript
<1>3. QED  BY <1>1, <1>2 DEF First, Steps, StopSteps, LastSteps, PointSteps

\* After the robot was given a point only the change of mode is left.
LEMMA PointHead ==
  ASSUME NEW s, Script(s), s # <<>>, Head(s) \in PointSteps
  PROVE  In(Tail(s)) = {"cartesian"} /\ Tail(Tail(s)) = <<>>
<1>1. Tail(s) # <<>> /\ Head(Tail(s)) = "cartesian" /\ Script(Tail(s))
  BY OnlyHead, TailScript DEF Then, Steps, LastSteps, PointSteps
<1>2. Tail(Tail(s)) = <<>>
  BY <1>1, LastHead DEF LastSteps
<1>3. QED  BY <1>1, <1>2, TailScript, InEmpty

\* After the change of a joint's mode only its velocity is left.
LEMMA VelocityModeHead ==
  ASSUME NEW s, Script(s), s # <<>>, Head(s) = "velocityMode"
  PROVE  In(Tail(s)) = {"velocityMove"} /\ Tail(Tail(s)) = <<>>
<1>1. Tail(s) # <<>> /\ Head(Tail(s)) = "velocityMove" /\ Script(Tail(s))
  BY OnlyHead, TailScript DEF Then, Steps, LastSteps, PointSteps
<1>2. Tail(Tail(s)) = <<>>
  BY <1>1, LastHead DEF LastSteps
<1>3. QED  BY <1>1, <1>2, TailScript, InEmpty

\* What is left after the points are configured.
LEMMA PointsHead ==
  ASSUME NEW s, Script(s), s # <<>>, Head(s) = "point"
  PROVE  In(Tail(s)) = {"resume", "cartesian"} /\ Tail(Tail(Tail(s))) = <<>>
<1>1. Tail(s) # <<>> /\ Head(Tail(s)) = "resume" /\ Script(Tail(s))
  BY OnlyHead, TailScript DEF Then, Steps, LastSteps, PointSteps
<1>2. In(Tail(Tail(s))) = {"cartesian"} /\ Tail(Tail(Tail(s))) = <<>>
  BY <1>1, PointHead DEF PointSteps
<1>3. QED  BY <1>1, <1>2, TailScript

\* What is left after the preset.
LEMMA PresetHead ==
  ASSUME NEW s, Script(s), s # <<>>, Head(s) = "preset"
  PROVE  In(Tail(s)) = {"point", "resume", "cartesian"} /\ Tail(Tail(Tail(Tail(s)))) = <<>>
<1>1. Tail(s) # <<>> /\ Head(Tail(s)) = "point" /\ Script(Tail(s))
  BY OnlyHead, TailScript DEF Then, Steps, LastSteps, PointSteps
<1>2. In(Tail(Tail(s))) = {"resume", "cartesian"} /\ Tail(Tail(Tail(Tail(s)))) = <<>>
  BY <1>1, PointsHead
<1>3. QED  BY <1>1, <1>2, TailScript

\* A step that is ahead has its follower ahead, too.
LEMMA Followed ==
  ASSUME NEW s, Script(s), NEW a \in In(s)
  PROVE  \E b : Then(a, b) /\ (b = "end" \/ b \in In(s))
<1>1. PICK i \in 1..Len(s) : s[i] = a
  BY DEF In
<1>2. Then(a, Follower(s, i))
  BY <1>1 DEF Script
<1>3. CASE i = Len(s)
  BY <1>2, <1>3 DEF Follower
<1>4. CASE i # Len(s)
  <2>1. s \in Seq(Steps) /\ i + 1 \in 1..Len(s) /\ s[i + 1] \in Steps
    BY <1>4 DEF Script
  <2>2. s[i + 1] \in In(s)
    BY <2>1 DEF In
  <2>3. QED  BY <1>2, <1>4, <2>2 DEF Follower
<1>5. QED  BY <1>3, <1>4

\* Only one step comes last.
LEMMA OneLast ==
  ASSUME NEW s, Script(s), NEW a \in In(s) \intersect LastSteps,
         NEW b \in In(s) \intersect LastSteps
  PROVE  a = b
<1>1. ASSUME NEW c \in In(s) \intersect LastSteps PROVE c = s[Len(s)]
  <2>1. PICK i \in 1..Len(s) : s[i] = c
    BY <1>1 DEF In
  <2>2. Follower(s, i) = "end"
    BY <1>1, <2>1 DEF Script, Then, LastSteps, PointSteps
  <2>3. CASE i # Len(s)
    <3>1. s \in Seq(Steps) /\ s[i + 1] \in Steps
      BY <2>3 DEF Script
    <3>2. QED  BY <2>2, <2>3, <3>1 DEF Follower, Steps, StopSteps, LastSteps, PointSteps
  <2>4. QED  BY <2>1, <2>3
<1>2. QED  BY <1>1

\* What is ahead along with each step of a stop.
LEMMA Shape ==
  ASSUME NEW s, Script(s)
  PROVE  /\ "suspend" \in In(s) => "cartesian" \in In(s) \/ "stopControl" \in In(s)
         /\ "stopControl" \in In(s) => "stopReply" \in In(s)
         /\ "stopReply" \in In(s) => "clear" \in In(s)
         /\ "actuator" \in In(s) => "suspend" \in In(s) \/ "stopControl" \in In(s)
         /\ In(s) \subseteq Steps
<1>1. "suspend" \in In(s) => "cartesian" \in In(s) \/ "stopControl" \in In(s)
  BY Followed DEF Then, LastSteps, PointSteps
<1>2. "stopControl" \in In(s) => "stopReply" \in In(s)
  BY Followed DEF Then, LastSteps, PointSteps
<1>3. "stopReply" \in In(s) => "clear" \in In(s)
  BY Followed DEF Then, LastSteps, PointSteps
<1>4. "actuator" \in In(s) => "suspend" \in In(s) \/ "stopControl" \in In(s)
  BY Followed DEF Then, LastSteps, PointSteps
<1>5. QED  BY <1>1, <1>2, <1>3, <1>4 DEF In

\* A sequence of stop steps that ends in clear.
LEMMA Concatenation ==
  ASSUME NEW u, Script(u), u # <<>>, u[Len(u)] = "clear" , NEW v, Script(v)
  PROVE  Script(u \o v) /\ In(u \o v) = In(u) \union In(v)
<1> DEFINE w == u \o v
<1>1. /\ u \in Seq(Steps) /\ v \in Seq(Steps) /\ w \in Seq(Steps) /\ Len(w) = Len(u) + Len(v)
      /\ Len(u) \in Nat \ {0} /\ Len(v) \in Nat
  BY DEF Script
<1>2. \A i \in 1..Len(u) : w[i] = u[i]
  BY <1>1
<1>3. \A i \in 1..Len(v) : w[i + Len(u)] = v[i]
  BY <1>1
<1>4. \A i \in 1..Len(w) : i \in 1..Len(u) \/ (i - Len(u) \in 1..Len(v) /\ w[i] = v[i - Len(u)])
  BY <1>1, <1>3
<1> HIDE DEF w
<1>5. In(w) = In(u) \union In(v)
  <2>1. ASSUME NEW x \in In(u) PROVE x \in In(w)
    <3>1. PICK i \in 1..Len(u) : u[i] = x
      BY DEF In
    <3>2. i \in 1..Len(w) /\ w[i] = x
      BY <1>1, <1>2, <3>1
    <3>3. QED  BY <3>2, <2>1 DEF In
  <2>2. ASSUME NEW x \in In(v) PROVE x \in In(w)
    <3>1. PICK i \in 1..Len(v) : v[i] = x
      BY DEF In
    <3>2. i + Len(u) \in 1..Len(w) /\ w[i + Len(u)] = x
      BY <1>1, <1>3, <3>1
    <3>3. QED  BY <3>2, <2>2 DEF In
  <2>3. ASSUME NEW x \in In(w) PROVE x \in In(u) \union In(v)
    <3>1. PICK i \in 1..Len(w) : w[i] = x
      BY DEF In
    <3>2. CASE i \in 1..Len(u)
      BY <3>1, <3>2, <1>2, <2>3 DEF In
    <3>3. CASE i - Len(u) \in 1..Len(v) /\ w[i] = v[i - Len(u)]
      BY <3>1, <3>3, <2>3 DEF In
    <3>4. QED  BY <3>2, <3>3, <1>4
  <2>4. QED  BY <2>1, <2>2, <2>3
<1>6. Script(w)
  <2>1. SUFFICES ASSUME NEW i \in 1..Len(w) PROVE Then(w[i], Follower(w, i))
    BY <1>1 DEF Script
  <2>2. CASE i = Len(u)
    BY <2>2, <1>1, <1>2 DEF Then
  <2>3. CASE i \in 1..Len(u) /\ i # Len(u)
    <3>1. i + 1 \in 1..Len(u) /\ i # Len(w)
      BY <2>3, <1>1
    <3>2. Follower(w, i) = Follower(u, i) /\ w[i] = u[i]
      BY <3>1, <2>3, <1>2 DEF Follower
    <3>3. QED  BY <3>2, <2>3 DEF Script
  <2>4. CASE i - Len(u) \in 1..Len(v) /\ w[i] = v[i - Len(u)]
    <3> DEFINE j == i - Len(u)
    <3>1. Follower(w, i) = Follower(v, j)
      <4>1. CASE j = Len(v)
        BY <4>1, <1>1 DEF Follower
      <4>2. CASE j # Len(v)
        <5>1. j + 1 \in 1..Len(v) /\ j + 1 + Len(u) = i + 1 /\ i # Len(w)
          BY <4>2, <2>4, <1>1
        <5>2. w[i + 1] = v[j + 1]
          BY <5>1, <1>3
        <5>3. QED  BY <4>2, <5>1, <5>2 DEF Follower
      <4>3. QED  BY <4>1, <4>2
    <3>2. QED  BY <3>1, <2>4 DEF Script
  <2>5. QED  BY <2>2, <2>3, <2>4, <1>4
<1>7. QED  BY <1>5, <1>6 DEF w

\* The steps of a stop.
StopSet == IF Cart THEN {"actuator", "stopControl", "stopReply", "clear"}
                          \union (IF usingThread = "yes" THEN {"suspend"} ELSE {})
                   ELSE {"boardStop", "clear"}

\* One step.
LEMMA Literal ==
  ASSUME NEW a \in Steps
  PROVE  <<a>> \in Seq(Steps) /\ In(<<a>>) = {a} /\ (a \in LastSteps => Script(<<a>>))
BY DEF In, Script, Follower, Then

StopReplyClear == <<"stopControl", "stopReply", "clear">>

\* The end of every stop.
LEMMA StopClear ==
  /\ Script(StopReplyClear) /\ StopReplyClear # <<>>
  /\ StopReplyClear[Len(StopReplyClear)] = "clear"
  /\ In(StopReplyClear) = {"stopControl", "stopReply", "clear"}
<1> DEFINE s == StopReplyClear
<1>1. /\ s \in Seq(Steps) /\ Len(s) = 3
      /\ s[1] = "stopControl" /\ s[2] = "stopReply" /\ s[3] = "clear"
  BY DEF StopReplyClear, Steps, StopSteps
<1> HIDE DEF s
<1>2. Script(s)
  BY <1>1 DEF Script, Then, Follower
<1>3. In(s) = {"stopControl", "stopReply", "clear"}
  BY <1>1 DEF In, Steps, StopSteps
<1>4. s # <<>>  BY <1>1, Empty
<1>5. QED  BY <1>1, <1>2, <1>3, <1>4 DEF s

\* A step in front of the others.
LEMMA Prepend ==
  ASSUME NEW a \in Steps, NEW v, Script(v), Then(a, First(v))
  PROVE  /\ Script(<<a>> \o v) /\ In(<<a>> \o v) = {a} \union In(v)
         /\ First(<<a>> \o v) = a /\ <<a>> \o v # <<>>
         /\ v # <<>> => (<<a>> \o v)[Len(<<a>> \o v)] = v[Len(v)]
<1> DEFINE w == <<a>> \o v
<1>1. /\ v \in Seq(Steps) /\ w \in Seq(Steps) /\ Len(w) = 1 + Len(v) /\ Len(v) \in Nat /\ w # <<>>
      /\ w[1] = a /\ \A i \in 1..Len(v) : w[i + 1] = v[i]
  BY DEF Script
<1>2. First(w) = a
  BY <1>1, NonEmpty DEF First
<1> HIDE DEF w
<1>3. \A i \in 1..Len(w) : i = 1 \/ (i - 1 \in 1..Len(v) /\ w[i] = v[i - 1])
  <2>1. SUFFICES ASSUME NEW i \in 1..Len(w), i # 1 PROVE i - 1 \in 1..Len(v) /\ w[i] = v[i - 1]
    OBVIOUS
  <2>2. i - 1 \in 1..Len(v) /\ (i - 1) + 1 = i
    BY <1>1, <2>1
  <2>3. QED  BY <2>2, <1>1
<1>4. In(w) = {a} \union In(v)
  <2>1. 1 \in 1..Len(w) /\ \A i \in 1..Len(v) : i + 1 \in 1..Len(w)
    BY <1>1
  <2>2. ASSUME NEW x \in In(w) PROVE x \in {a} \union In(v)
    <3>1. PICK i \in 1..Len(w) : w[i] = x
      BY DEF In
    <3>2. QED  BY <3>1, <1>1, <1>3, <2>2 DEF In
  <2>3. ASSUME NEW x \in In(v) PROVE x \in In(w)
    <3>1. PICK i \in 1..Len(v) : v[i] = x
      BY DEF In
    <3>2. QED  BY <3>1, <1>1, <2>1, <2>3 DEF In
  <2>4. QED  BY <1>1, <2>1, <2>2, <2>3 DEF In
<1>5. Script(w)
  <2>1. SUFFICES ASSUME NEW i \in 1..Len(w) PROVE Then(w[i], Follower(w, i))
    BY <1>1 DEF Script
  <2>2. CASE i = 1
    <3>1. CASE v = <<>>
      BY <2>2, <3>1, <1>1, Empty DEF Follower, First
    <3>2. CASE v # <<>>
      <4>1. Len(v) # 0 /\ Head(v) = v[1]  BY <3>2, <1>1, NonEmpty
      <4>2. 1 \in 1..Len(v) /\ Len(w) # 1  BY <4>1, <1>1
      <4>3. w[1 + 1] = v[1]  BY <4>2, <1>1
      <4>4. QED  BY <2>2, <3>2, <4>1, <4>2, <4>3, <1>1 DEF Follower, First
    <3>3. QED  BY <3>1, <3>2
  <2>3. CASE i - 1 \in 1..Len(v) /\ w[i] = v[i - 1]
    <3> DEFINE j == i - 1
    <3>1. Follower(w, i) = Follower(v, j)
      <4>1. CASE j = Len(v)
        BY <4>1, <1>1 DEF Follower
      <4>2. CASE j # Len(v)
        <5>1. j + 1 \in 1..Len(v) /\ j + 1 = i /\ i # Len(w)
          BY <4>2, <2>3, <1>1
        <5>2. w[i + 1] = v[j + 1]
          BY <5>1, <1>1
        <5>3. QED  BY <4>2, <5>1, <5>2 DEF Follower
      <4>3. QED  BY <4>1, <4>2
    <3>2. QED  BY <3>1, <2>3 DEF Script
  <2>4. QED  BY <2>2, <2>3, <1>3
<1>6. v # <<>> => w[Len(w)] = v[Len(v)]
  <2>1. HAVE v # <<>>
  <2>2. Len(v) \in 1..Len(v) /\ Len(w) = Len(v) + 1  BY <2>1, <1>1, NonEmpty
  <2>3. QED  BY <2>2, <1>1
<1>7. QED  BY <1>1, <1>2, <1>4, <1>5, <1>6 DEF w

\* The thread, if it is used, is suspended first.
LEMMA Pausing ==
  ASSUME NEW use
  PROVE  LET p == (IF use = "yes" THEN <<"suspend">> ELSE <<>>) \o StopReplyClear
         IN  /\ Script(p) /\ p # <<>> /\ p[Len(p)] = "clear"
             /\ First(p) \in {"suspend", "stopControl"}
             /\ In(p) = {"stopControl", "stopReply", "clear"}
                          \union (IF use = "yes" THEN {"suspend"} ELSE {})
<1>1. First(StopReplyClear) = "stopControl" /\ <<>> \o StopReplyClear = StopReplyClear
  BY DEF First, StopReplyClear
<1>2. Then("suspend", "stopControl") /\ "suspend" \in Steps
  BY DEF Then, Steps, StopSteps
<1>3. CASE use = "yes"
  BY <1>1, <1>2, <1>3, StopClear, Prepend
<1>4. CASE use # "yes"
  BY <1>1, <1>4, StopClear
<1>5. QED  BY <1>3, <1>4

\* Two steps.
LEMMA Pair ==
  ASSUME NEW a \in Steps, NEW b \in Steps, Then(a, b), b = "clear" \/ b \in LastSteps
  PROVE  /\ Script(<<a, b>>) /\ In(<<a, b>>) = {a, b} /\ <<a, b>> # <<>>
         /\ <<a, b>>[Len(<<a, b>>)] = b
<1> DEFINE s == <<a, b>>
<1>1. s \in Seq(Steps) /\ Len(s) = 2 /\ s[1] = a /\ s[2] = b
  OBVIOUS
<1> HIDE DEF s
<1>2. Then(b, "end")
  BY DEF Then
<1>3. Script(s)
  BY <1>1, <1>2 DEF Script, Follower
<1>4. In(s) = {a, b}
  BY <1>1 DEF In
<1>5. s # <<>>
  BY DEF s
<1>6. QED  BY <1>1, <1>3, <1>4, <1>5 DEF s

\* The steps that stop() of the keyboard controller takes are a script.
LEMMA StopScript ==
  Script(Stop) /\ Stop # <<>> /\ Stop[Len(Stop)] = "clear" /\ In(Stop) = StopSet
<1>1. CASE Cart
  <2> DEFINE x == IF usingThread = "yes" THEN <<"suspend">> ELSE <<>>
             p == x \o StopReplyClear
  <2>1. x \in Seq(Steps) /\ StopReplyClear \in Seq(Steps) /\ <<"actuator">> \in Seq(Steps)
    <3>1. <<"suspend">> \in Seq(Steps) /\ <<"actuator">> \in Seq(Steps)
      BY Literal DEF Steps, StopSteps
    <3>2. <<>> \in Seq(Steps) /\ StopReplyClear \in Seq(Steps)
      BY StopClear, InEmpty DEF Script
    <3>3. QED  BY <3>1, <3>2
  <2>2. (<<"actuator">> \o x) \o StopReplyClear = <<"actuator">> \o p
    BY <2>1
  <2>3. Stop = <<"actuator">> \o p
    BY <1>1, <2>2 DEF Stop, StopReplyClear
  <2>4. /\ Script(p) /\ p # <<>> /\ p[Len(p)] = "clear" /\ First(p) \in {"suspend", "stopControl"}
        /\ In(p) = {"stopControl", "stopReply", "clear"}
                     \union (IF usingThread = "yes" THEN {"suspend"} ELSE {})
    BY Pausing
  <2> HIDE DEF p
  <2>5. Then("actuator", First(p)) /\ "actuator" \in Steps
    BY <2>4 DEF Then, Steps, StopSteps
  <2>6. QED  BY <1>1, <2>3, <2>4, <2>5, Prepend DEF StopSet
<1>2. CASE ~Cart
  <2>1. Stop = <<"boardStop", "clear">>
    BY <1>2 DEF Stop
  <2>2. "boardStop" \in Steps /\ "clear" \in Steps /\ Then("boardStop", "clear")
    BY DEF Steps, StopSteps, Then
  <2>3. QED  BY <1>2, <2>1, <2>2, Pair DEF StopSet
<1>3. QED  BY <1>1, <1>2

\* Steps behind a stop.
LEMMA AfterStop ==
  ASSUME NEW v, Script(v)
  PROVE  Script(Stop \o v) /\ In(Stop \o v) = StopSet \union In(v)
BY StopScript, Concatenation

\* The steps of a velocity: adjust becomes one of these.
Adjustment(zero, use) ==
  (IF zero THEN IF use = "yes" THEN <<"suspend">> ELSE <<"zeroTwist">>
   ELSE IF use = "yes" THEN <<"preset", "point", "resume">> ELSE <<"movv">>)
    \o <<"cartesian">>

AdjustmentSet(zero, use) ==
  IF zero THEN IF use = "yes" THEN {"suspend", "cartesian"} ELSE {"zeroTwist", "cartesian"}
  ELSE IF use = "yes" THEN {"preset", "point", "resume", "cartesian"} ELSE {"movv", "cartesian"}

\* The steps that adjust becomes are a script.
LEMMA AdjustmentScript ==
  ASSUME NEW zero \in BOOLEAN, NEW use
  PROVE  Script(Adjustment(zero, use)) /\ In(Adjustment(zero, use)) = AdjustmentSet(zero, use)
<1>1. Script(<<"cartesian">>) /\ In(<<"cartesian">>) = {"cartesian"} /\ First(<<"cartesian">>) = "cartesian"
  BY Literal DEF Steps, LastSteps, First
<1>2. ASSUME NEW a \in {"suspend", "zeroTwist", "movv"}
      PROVE  Script(<<a>> \o <<"cartesian">>) /\ In(<<a>> \o <<"cartesian">>) = {a, "cartesian"}
  <2>1. a \in Steps /\ Then(a, "cartesian")
    BY <1>2 DEF Steps, StopSteps, PointSteps, Then
  <2>2. QED  BY <1>1, <2>1, Prepend
<1>3. LET s == <<"preset", "point", "resume">> \o <<"cartesian">>
      IN  Script(s) /\ In(s) = {"preset", "point", "resume", "cartesian"}
  <2> DEFINE s == <<"preset", "point", "resume">> \o <<"cartesian">>
  <2>1. <<"preset", "point", "resume">> \in Seq(Steps) /\ <<"cartesian">> \in Seq(Steps)
    BY DEF Steps, StopSteps, LastSteps, PointSteps
  <2>2. /\ s \in Seq(Steps) /\ Len(s) = 4
        /\ s[1] = "preset" /\ s[2] = "point" /\ s[3] = "resume" /\ s[4] = "cartesian"
    BY <2>1
  <2> HIDE DEF s
  <2>3. Script(s)
    BY <2>2 DEF Script, Follower, Then, LastSteps, PointSteps
  <2>4. In(s) = {"preset", "point", "resume", "cartesian"}
    BY <2>2 DEF In, Steps, LastSteps, PointSteps
  <2>5. QED  BY <2>3, <2>4 DEF s
<1>4. QED  BY <1>2, <1>3 DEF Adjustment, AdjustmentSet

-----------------------------------------------------------------------------
\* The steps that the main thread has yet to take.
Ahead == In(todo)

\* The type of every variable.
TypeInv ==
  /\ phase \in {"configure", "running", "stopping", "closed", "failed", "aborted"}
  /\ devices \subseteq {"board", "asked", "cart"} /\ usingThread \in {"unset", "yes", "no"}
  /\ controlMode \in {"none", "joint", "cartesian"}
  /\ cartVels \in Velocities /\ jointVels \in Int /\ dir \in {-1, 1}
  /\ cartFrame \in Frames /\ grip \in BOOLEAN
  /\ thread \in {"none", "suspended", "ticking", "deleted"}
  /\ tcp \in BOOLEAN /\ deltaX \in Velocities /\ trajectory \in Velocities \union {Null}
  /\ run \in {"idle", "begun", "read"} /\ point \in BOOLEAN
  /\ robot \in {"basic", "amor"}
  /\ control \in {"none", "movj", "movv"} /\ preset \in BOOLEAN /\ frame \in Frames
  /\ speed \in Int /\ joints \in Int
  /\ target \in {NoTarget} \union [delta : BOOLEAN, frame : Frames]
  /\ faults \in 0..MaxFaults
  /\ wire \subseteq {"delta", "pose", "zero"}
  /\ crashed \in BOOLEAN /\ late \in BOOLEAN /\ lost \in BOOLEAN /\ interrupted \in BOOLEAN

Threaded   == Cart /\ usingThread = "yes"
Configured == phase \in {"running", "stopping", "closed"}

\* What there is in each phase, and the steps that each configuration has.
Places ==
  /\ Script(todo)
  /\ phase \notin {"running", "stopping"} => todo = <<>>
  /\ Cart => "boardStop" \notin Ahead
  /\ ~Cart => /\ Ahead \subseteq {"boardStop", "clear", "velocityMode", "velocityMove"}
              /\ controlMode # "cartesian"
  /\ usingThread # "yes" =>
       "suspend" \notin Ahead /\ "preset" \notin Ahead /\ "useTcpFrame" \notin Ahead
  /\ usingThread = "yes" => "movv" \notin Ahead /\ "zeroTwist" \notin Ahead
  /\ usingThread # "yes" => "point" \notin Ahead /\ "resume" \notin Ahead
  /\ thread # "none" => Threaded
  /\ thread = "deleted" => phase \in {"closed", "aborted"}
  /\ (Threaded /\ phase = "closed") => thread = "deleted"
  /\ run # "idle" => thread \in {"ticking", "suspended"}
  /\ phase = "configure" =>
       usingThread = "unset" /\ ~Cart /\ joints = 0 /\ controlMode = "none" /\ ~crashed
  /\ (Configured /\ Cart) => usingThread # "unset" /\ cartFrame = frame
  /\ (Configured /\ Threaded) => thread # "none"
  /\ interrupted => phase \in {"stopping", "closed"}
  /\ ~Configured => joints = 0

\* An iteration is in progress or what it sent is on its way.
Sending == run # "idle" \/ "delta" \in wire \/ "pose" \in wire

\* A change of frame finds the thread at rest.
Rested ==
  /\ "setFrame" \in Ahead =>
       /\ thread = "ticking" => "suspend" \in Ahead
       /\ ~Sending \/ late \/ "stopReply" \in Ahead
  /\ "useTcpFrame" \in Ahead => thread # "ticking" /\ (~Sending \/ late)

\* There is something to send.
HasPoint == tcp \/ trajectory # Null

Pointed ==
  /\ ("resume" \in Ahead /\ "point" \notin Ahead) => HasPoint
  /\ thread = "ticking" => HasPoint
  /\ (run = "begun" /\ ~late) => HasPoint
  /\ NoCrash

\* The thread knows the frame; what it is about to send, or has sent, agrees
\* with it.
Framed ==
  /\ (thread \in {"suspended", "ticking"} /\ "useTcpFrame" \notin Ahead)
       => (tcp <=> frame = "TCP")
  /\ (run = "begun" /\ ~late) => (tcp <=> frame = "TCP")
  /\ (run = "read" /\ ~late) => (point <=> frame = "TCP")
  /\ ("delta" \in wire /\ ~late) => frame = "TCP"
  /\ ("pose" \in wire /\ ~late) => frame = "BASE"
  /\ FramesAgree

StillTool == speed = 0 /\ (robot = "basic" => control = "none" /\ ~preset /\ target = NoTarget)
Halted    == StillTool /\ joints = 0

\* A key is handled in a mode that suits it.
Moded ==
  ~interrupted =>
    /\ ("adjust" \in Ahead /\ "clear" \notin Ahead) => controlMode # "joint"
    /\ "cartesian" \in Ahead => "clear" \notin Ahead /\ controlMode # "joint"
    /\ (("setFrame" \in Ahead \/ "useTcpFrame" \in Ahead) /\ "clear" \notin Ahead)
         => controlMode = "none"
    /\ phase \in {"stopping", "closed"} => Ahead \subseteq StopSteps

\* What rests once the controller has been told to stop.
Stopped ==
  (Undisturbed /\ Cart /\ Configured /\ "stopControl" \notin Ahead) =>
    /\ "clear" \in Ahead => Halted
    /\ (controlMode = "none" /\ "cartesian" \notin Ahead) => Halted
    /\ ("velocityMove" \in Ahead \/ controlMode = "joint") => StillTool
    /\ controlMode # "joint" => joints = 0
    /\ phase \in {"stopping", "closed"} => Halted
    /\ (robot = "amor" /\ frame = "TCP" /\ usingThread = "no") => speed = 0
    /\ (robot = "basic" /\ Threaded) => control = "none"

\* The same of joints, without a controller.
JointsStopped ==
  (Undisturbed /\ ~Cart /\ "boardStop" \notin Ahead) =>
    /\ "clear" \in Ahead => joints = 0
    /\ controlMode = "none" => joints = 0
    /\ phase \in {"stopping", "closed"} => joints = 0

Alone == (Undisturbed /\ Cart /\ joints # 0) => StillTool

Sent  == cartVels = IF tcp THEN deltaX ELSE trajectory
Told  == /\ cartVels # 0 => speed \in {0, cartVels}
         /\ cartVels = 0 => robot = "basic" \/ speed = 0 \/ "zero" \in wire \/ lost
Shown == IF usingThread = "yes"
           THEN (thread = "ticking" <=> cartVels # 0) /\ (cartVels # 0 => Sent)
           ELSE Told

\* What is on display has been told, or is about to be.
Displayed ==
  (Undisturbed /\ Cart /\ phase = "running") =>
    /\ (controlMode = "cartesian" /\ Ahead \subseteq {"act", "adjust"}) => Shown
    /\ ("cartesian" \in Ahead /\ usingThread = "yes") =>
         /\ cartVels = 0 => /\ "suspend" \in Ahead \/ thread # "ticking"
                            /\ "resume" \notin Ahead
         /\ cartVels # 0 => /\ "suspend" \notin Ahead
                            /\ "resume" \in Ahead \/ thread = "ticking"
                            /\ "point" \in Ahead \/ Sent
    /\ ("cartesian" \in Ahead /\ usingThread # "yes") =>
         /\ "zeroTwist" \in Ahead => cartVels = 0
         /\ "movv" \in Ahead \/ "zeroTwist" \in Ahead \/ Told

\* The tool is to rest: joints move, or a stop has been replied to and nothing
\* told the tool to move since.
Resting ==
  \/ joints # 0
  \/ /\ "stopReply" \notin Ahead
     /\ \/ "clear" \in Ahead \/ "velocityMove" \in Ahead
        \/ controlMode = "none" /\ "cartesian" \notin Ahead
        \/ controlMode = "joint" \/ phase \in {"stopping", "closed"}

\* Then nothing the thread does outlasts the stop, unless it is recorded.
Quiet ==
  /\ ("stopReply" \in Ahead /\ "suspend" \notin Ahead) => thread # "ticking"
  /\ (Undisturbed /\ Cart /\ Configured /\ ~late /\ Resting) =>
       ~Sending /\ target = NoTarget /\ thread # "ticking"

\* The inductive invariant.
IInv ==
  TypeInv /\ Places /\ Rested /\ Pointed /\ Framed /\ Moded /\ Stopped /\ JointsStopped
  /\ Alone /\ Displayed /\ Quiet

USE DEF Cart, module, members, points, ticking, remote, history

\* The first step of what is ahead is taken.
LEMMA Taken ==
  ASSUME NEW x, Script(todo), Next1(x), Done
  PROVE  Script(todo)' /\ Ahead = {x} \union Ahead' /\ x \in Ahead /\ todo # <<>>
<1>1. Script(Tail(todo)) /\ In(todo) = {x} \union In(Tail(todo))
  BY TailScript DEF Next1
<1>2. QED  BY <1>1 DEF Done, Ahead, Next1

\* What is ahead stays ahead.
LEMMA Same == todo' = todo /\ Script(todo) => Script(todo)' /\ Ahead' = Ahead
BY DEF Ahead

\* Faults are counted up to their bound, at which no call fails.
LEMMA Faulty ==
  ASSUME TypeInv, Works \/ Fails
  PROVE  faults' \in 0..MaxFaults /\ (faults' = MaxFaults => faults = MaxFaults /\ ~Fails)
BY KeyboardNumbers DEF TypeInv, Works, Fails

\* Nothing is ahead between two keys.
LEMMA Idle == todo = <<>> => Ahead = {}
BY InEmpty DEF Ahead

\* No call comes ahead of the ones that must precede it.
Ordered ==
  /\ "actuator" \in Ahead => "suspend" \in Ahead \/ "stopControl" \in Ahead
  /\ "suspend" \in Ahead => "cartesian" \in Ahead \/ "stopControl" \in Ahead
  /\ "stopControl" \in Ahead => "stopReply" \in Ahead
  /\ "stopReply" \in Ahead => "clear" \in Ahead

\* What is ahead is always in order.
LEMMA InOrder == Script(todo) => Ordered
BY Shape DEF Ahead, Ordered

USE DEF Ordered

-----------------------------------------------------------------------------
\* The gripper stops first.
LEMMA StopActuatorStep == IInv /\ StopActuator => IInv'
<1> SUFFICES ASSUME IInv, StopActuator PROVE IInv'
  OBVIOUS
<1> USE DEF IInv
<1>1. /\ Script(todo)' /\ Ahead = {"actuator"} \union Ahead' /\ "actuator" \in Ahead
      /\ todo # <<>>
      /\ phase \in {"running", "stopping"}
  BY Taken DEF StopActuator, Places
<1>2. Ordered
  BY InOrder DEF Places
<1>3. Ordered'
  BY <1>1, Shape DEF Ahead, Ordered
<1>4. faults' \in 0..MaxFaults /\ (faults' = MaxFaults => faults = MaxFaults /\ ~Fails)
  BY Faulty DEF StopActuator
<1>5. TypeInv'
  <2>1. grip' \in BOOLEAN  BY DEF StopActuator, TypeInv
  <2>2. QED  BY <1>1, <1>2, <1>3, <1>4, KeyboardNumbers, <2>1 DEF TypeInv, StopActuator
<1>6. Places'
  BY <1>1, <1>2, <1>3, <1>4, KeyboardNumbers
    DEF Places, Threaded, Configured, Steps, StopSteps, LastSteps, PointSteps, StopActuator
<1>7. Rested'
  BY <1>1, <1>2, <1>3, <1>4, KeyboardNumbers DEF Rested, Sending, Places, Threaded, StopActuator
<1>8. Pointed'
  BY <1>1, <1>2, <1>3, <1>4, KeyboardNumbers
    DEF Pointed, HasPoint, NoCrash, Rested, Sending, Places, Threaded, TypeInv, Velocities, Null,
        StopActuator
<1>9. Framed'
  BY <1>1, <1>2, <1>3, <1>4, KeyboardNumbers
    DEF Framed, FramesAgree, Rested, Sending, Places, Configured, Threaded, TypeInv, StopActuator
<1>10. Moded'
  BY <1>1, <1>2, <1>3, <1>4, KeyboardNumbers DEF Moded, StopSteps, LastSteps, StopActuator
<1>11. Stopped'
  BY <1>1, <1>2, <1>3, <1>4, KeyboardNumbers
    DEF Stopped, Halted, StillTool, Undisturbed, Configured, Threaded, Moded, Places, TypeInv,
        StopActuator
<1>12. JointsStopped'
  BY <1>1, <1>2, <1>3, <1>4, KeyboardNumbers
    DEF JointsStopped, Undisturbed, Places, TypeInv, StopActuator
<1>13. Alone'
  BY <1>1, <1>2, <1>3, <1>4, KeyboardNumbers
    DEF Alone, StillTool, Undisturbed, Stopped, Moded, Places, TypeInv, Configured, StopActuator
<1>14. Displayed'
  <2>1. Undisturbed' => Undisturbed
    BY <1>1, <1>2, <1>3, <1>4, KeyboardNumbers DEF Undisturbed, StopActuator
  <2>2. UNCHANGED <<devices, phase, controlMode, usingThread, thread, cartVels, tcp, deltaX,
                    trajectory, speed, wire, lost, robot>>
    BY DEF StopActuator
  <2>3. QED
    BY <1>1, <1>2, <1>3, <1>4, KeyboardNumbers, <2>1, <2>2 DEF Displayed, Shown, Sent, Told
<1>15. Quiet'
  BY <1>1, <1>2, <1>3, <1>4, KeyboardNumbers
    DEF Quiet, Resting, Sending, Undisturbed, Configured, Threaded, Moded, Stopped, Halted,
        StillTool, StopSteps, Places, TypeInv, StopActuator
<1>16. QED  BY <1>5, <1>6, <1>7, <1>8, <1>9, <1>10, <1>11, <1>12, <1>13, <1>14, <1>15

\* The thread is suspended: what it has begun to send is late.
LEMMA SuspendStep == IInv /\ Suspend => IInv'
<1> SUFFICES ASSUME IInv, Suspend PROVE IInv'
  OBVIOUS
<1> USE DEF IInv
<1>1. /\ Script(todo)' /\ Ahead = {"suspend"} \union Ahead' /\ "suspend" \in Ahead /\ todo # <<>>
      /\ phase \in {"running", "stopping"}
  BY Taken DEF Suspend, Places
<1>2. Ordered
  BY InOrder DEF Places
<1>3. Ordered'
  BY <1>1, Shape DEF Ahead, Ordered
<1>4. TypeInv'
  BY <1>1, <1>2, <1>3, KeyboardNumbers DEF TypeInv, Velocities, Null, Frames, NoTarget, Suspend
<1>5. Places'
  BY <1>1, <1>2, <1>3, KeyboardNumbers
    DEF Places, Threaded, Configured, Steps, StopSteps, LastSteps, PointSteps, Suspend
<1>6. Rested'
  BY <1>1, <1>2, <1>3, KeyboardNumbers DEF Rested, Sending, Places, Threaded, Suspend
<1>7. Pointed'
  BY <1>1, <1>2, <1>3, KeyboardNumbers
    DEF Pointed, HasPoint, NoCrash, Rested, Sending, Places, Threaded, TypeInv, Velocities,
        Null, Suspend
<1>8. Framed'
  BY <1>1, <1>2, <1>3, KeyboardNumbers
    DEF Framed, FramesAgree, Rested, Sending, Places, Configured, Threaded, TypeInv, Suspend
<1>9. Moded'
  BY <1>1, <1>2, <1>3, KeyboardNumbers DEF Moded, StopSteps, LastSteps, Suspend
<1>10. Stopped'
  BY <1>1, <1>2, <1>3, KeyboardNumbers
    DEF Stopped, Halted, StillTool, Undisturbed, Configured, Threaded, Moded, Places, TypeInv,
        Suspend
<1>11. JointsStopped'
  BY <1>1, <1>2, <1>3, KeyboardNumbers DEF JointsStopped, Undisturbed, Places, TypeInv, Suspend
<1>12. Alone'
  BY <1>1, <1>2, <1>3, KeyboardNumbers
    DEF Alone, StillTool, Undisturbed, Stopped, Moded, Places, TypeInv, Configured, Suspend
<1>13. Displayed'
  BY <1>1, <1>2, <1>3, KeyboardNumbers
    DEF Displayed, Shown, Sent, Told, Undisturbed, Moded, Stopped, Places, TypeInv, Configured,
        Halted, StillTool, Suspend
<1>14. Quiet'
  BY <1>1, <1>2, <1>3, KeyboardNumbers
    DEF Quiet, Resting, Sending, Undisturbed, Configured, Threaded, Moded, Stopped, Halted,
        StillTool, StopSteps, Places, TypeInv, Suspend
<1>15. QED  BY <1>4, <1>5, <1>6, <1>7, <1>8, <1>9, <1>10, <1>11, <1>12, <1>13, <1>14

\* stopControl reaches the controller, or fails.
LEMMA StopControlStep == IInv /\ StopControl => IInv'
<1> SUFFICES ASSUME IInv, StopControl PROVE IInv'
  OBVIOUS
<1> USE DEF IInv
<1>1. /\ Script(todo)' /\ Ahead = {"stopControl"} \union Ahead' /\ "stopControl" \in Ahead
      /\ todo # <<>>
      /\ phase \in {"running", "stopping"}
  BY Taken DEF StopControl, Places
<1>2. Ordered
  BY InOrder DEF Places
<1>3. Ordered'
  BY <1>1, Shape DEF Ahead, Ordered
<1>4. faults' \in 0..MaxFaults /\ (faults' = MaxFaults => faults = MaxFaults /\ ~Fails)
  BY Faulty DEF StopControl
<1>5. TypeInv'
  <2>0. preset' \in BOOLEAN
    BY DEF TypeInv, StopControl, Halt
  <2>1. /\ control' \in {"none", "movj", "movv"} /\ speed' \in Int /\ joints' \in Int
       /\ target' \in {NoTarget} \union [delta : BOOLEAN, frame : Frames]
    BY <1>1, <1>2, <1>3, <1>4, KeyboardNumbers DEF TypeInv, StopControl, Halt
  <2>2. QED  BY <1>1, <1>2, <1>3, <1>4, KeyboardNumbers, <2>0, <2>1 DEF TypeInv, StopControl
<1>6. Places'
  BY <1>1, <1>2, <1>3, <1>4, KeyboardNumbers
    DEF Places, Threaded, Configured, Steps, StopSteps, LastSteps, PointSteps, StopControl, Halt
<1>7. Rested'
  BY <1>1, <1>2, <1>3, <1>4, KeyboardNumbers DEF Rested, Sending, Places, Threaded,
    StopControl, Halt
<1>8. Pointed'
  BY <1>1, <1>2, <1>3, <1>4, KeyboardNumbers
    DEF Pointed, HasPoint, NoCrash, Rested, Sending, Places, Threaded, TypeInv, Velocities, Null,
        StopControl, Halt
<1>9. Framed'
  BY <1>1, <1>2, <1>3, <1>4, KeyboardNumbers
    DEF Framed, FramesAgree, Rested, Sending, Places, Configured, Threaded, TypeInv,
        StopControl, Halt
<1>10. Moded'
  BY <1>1, <1>2, <1>3, <1>4, KeyboardNumbers DEF Moded, StopSteps, LastSteps, StopControl, Halt
<1>11. Stopped'
  BY <1>1, <1>2, <1>3, <1>4, KeyboardNumbers
    DEF Stopped, Halted, StillTool, Undisturbed, Configured, Threaded, Moded, Places, TypeInv,
        StopControl, Halt
<1>12. JointsStopped'
  BY <1>1, <1>2, <1>3, <1>4, KeyboardNumbers
    DEF JointsStopped, Undisturbed, Places, TypeInv, StopControl, Halt
<1>13. Alone'
  BY <1>1, <1>2, <1>3, <1>4, KeyboardNumbers
    DEF Alone, StillTool, Undisturbed, Stopped, Moded, Places, TypeInv, Configured, StopControl,
        Halt
<1>14. Displayed'
  BY <1>1, <1>2, <1>3, <1>4, KeyboardNumbers
    DEF Displayed, Shown, Sent, Told, Undisturbed, Moded, Stopped, Places, TypeInv, Configured,
        Halted, StillTool, StopControl, Halt
<1>15. Quiet'
  BY <1>1, <1>2, <1>3, <1>4, KeyboardNumbers
    DEF Quiet, Resting, Sending, Undisturbed, Configured, Threaded, Moded, Stopped, Halted,
        StillTool, StopSteps, Places, TypeInv, StopControl, Halt
<1>16. QED  BY <1>5, <1>6, <1>7, <1>8, <1>9, <1>10, <1>11, <1>12, <1>13, <1>14, <1>15

\* The reply of stopControl.
LEMMA StopReplyStep == IInv /\ StopReply => IInv'
<1> SUFFICES ASSUME IInv, StopReply PROVE IInv'
  OBVIOUS
<1> USE DEF IInv
<1>1. /\ Script(todo)' /\ Ahead = {"stopReply"} \union Ahead' /\ "stopReply" \in Ahead
      /\ todo # <<>>
      /\ phase \in {"running", "stopping"}
  BY Taken DEF StopReply, Places
<1>2. Ordered
  BY InOrder DEF Places
<1>3. Ordered'
  BY <1>1, Shape DEF Ahead, Ordered
<1>4. TypeInv'
  BY <1>1, <1>2, <1>3, KeyboardNumbers
    DEF TypeInv, Velocities, Null, Frames, NoTarget, StopReply, Movis
<1>5. Places'
  BY <1>1, <1>2, <1>3, KeyboardNumbers
    DEF Places, Threaded, Configured, Steps, StopSteps, LastSteps, PointSteps, StopReply, Movis
<1>6. Rested'
  BY <1>1, <1>2, <1>3, KeyboardNumbers DEF Rested, Sending, Places, Threaded, StopReply, Movis
<1>7. Pointed'
  BY <1>1, <1>2, <1>3, KeyboardNumbers
    DEF Pointed, HasPoint, NoCrash, Rested, Sending, Places, Threaded, TypeInv, Velocities, Null,
        StopReply, Movis
<1>8. Framed'
  BY <1>1, <1>2, <1>3, KeyboardNumbers
    DEF Framed, FramesAgree, Rested, Sending, Places, Configured, Threaded, TypeInv, StopReply,
        Movis
<1>9. Moded'
  BY <1>1, <1>2, <1>3, KeyboardNumbers DEF Moded, StopSteps, LastSteps, StopReply, Movis
<1>10. Stopped'
  BY <1>1, <1>2, <1>3, KeyboardNumbers
    DEF Stopped, Halted, StillTool, Undisturbed, Configured, Threaded, Moded, Places, TypeInv,
        StopReply, Movis
<1>11. JointsStopped'
  BY <1>1, <1>2, <1>3, KeyboardNumbers
    DEF JointsStopped, Undisturbed, Places, TypeInv, StopReply, Movis
<1>12. Alone'
  BY <1>1, <1>2, <1>3, KeyboardNumbers
    DEF Alone, StillTool, Undisturbed, Stopped, Moded, Places, TypeInv, Configured, StopReply,
        Movis
<1>13. Displayed'
  BY <1>1, <1>2, <1>3, KeyboardNumbers
    DEF Displayed, Shown, Sent, Told, Undisturbed, Moded, Stopped, Places, TypeInv, Configured,
        Halted, StillTool, StopReply, Movis
<1>14. Quiet'
  BY <1>1, <1>2, <1>3, KeyboardNumbers
    DEF Quiet, Resting, Sending, Undisturbed, Configured, Threaded, Moded, Stopped, Halted,
        StillTool, StopSteps, Places, TypeInv, StopReply, Movis
<1>15. QED  BY <1>4, <1>5, <1>6, <1>7, <1>8, <1>9, <1>10, <1>11, <1>12, <1>13, <1>14

\* The velocities of the joints are set to 0.
LEMMA BoardStopStep == IInv /\ BoardStop => IInv'
<1> SUFFICES ASSUME IInv, BoardStop PROVE IInv'
  OBVIOUS
<1> USE DEF IInv
<1>1. /\ Script(todo)' /\ Ahead = {"boardStop"} \union Ahead' /\ "boardStop" \in Ahead
      /\ todo # <<>>
      /\ phase \in {"running", "stopping"}
  BY Taken DEF BoardStop, Places
<1>2. Ordered
  BY InOrder DEF Places
<1>3. Ordered'
  BY <1>1, Shape DEF Ahead, Ordered
<1>4. faults' \in 0..MaxFaults /\ (faults' = MaxFaults => faults = MaxFaults /\ ~Fails)
  BY Faulty DEF BoardStop
<1>5. TypeInv'
  BY <1>1, <1>2, <1>3, <1>4, KeyboardNumbers
    DEF TypeInv, Velocities, Null, Frames, NoTarget, BoardStop
<1>6. Places'
  BY <1>1, <1>2, <1>3, <1>4, KeyboardNumbers
    DEF Places, Threaded, Configured, Steps, StopSteps, LastSteps, PointSteps, BoardStop
<1>7. Rested'
  BY <1>1, <1>2, <1>3, <1>4, KeyboardNumbers DEF Rested, Sending, Places, Threaded, BoardStop
<1>8. Pointed'
  BY <1>1, <1>2, <1>3, <1>4, KeyboardNumbers
    DEF Pointed, HasPoint, NoCrash, Rested, Sending, Places, Threaded, TypeInv, Velocities, Null,
        BoardStop
<1>9. Framed'
  BY <1>1, <1>2, <1>3, <1>4, KeyboardNumbers
    DEF Framed, FramesAgree, Rested, Sending, Places, Configured, Threaded, TypeInv, BoardStop
<1>10. Moded'
  BY <1>1, <1>2, <1>3, <1>4, KeyboardNumbers DEF Moded, StopSteps, LastSteps, BoardStop
<1>11. Stopped'
  BY <1>1, <1>2, <1>3, <1>4, KeyboardNumbers
    DEF Stopped, Halted, StillTool, Undisturbed, Configured, Threaded, Moded, Places, TypeInv,
        BoardStop
<1>12. JointsStopped'
  BY <1>1, <1>2, <1>3, <1>4, KeyboardNumbers
    DEF JointsStopped, Undisturbed, Places, TypeInv, BoardStop
<1>13. Alone'
  BY <1>1, <1>2, <1>3, <1>4, KeyboardNumbers
    DEF Alone, StillTool, Undisturbed, Stopped, Moded, Places, TypeInv, Configured, BoardStop
<1>14. Displayed'
  BY <1>1, <1>2, <1>3, <1>4, KeyboardNumbers
    DEF Displayed, Shown, Sent, Told, Undisturbed, Moded, Stopped, Places, TypeInv, Configured,
        Halted, StillTool, BoardStop
<1>15. Quiet'
  BY <1>1, <1>2, <1>3, <1>4, KeyboardNumbers
    DEF Quiet, Resting, Sending, Undisturbed, Configured, Threaded, Moded, Stopped, Halted,
        StillTool, StopSteps, Places, TypeInv, BoardStop
<1>16. QED  BY <1>5, <1>6, <1>7, <1>8, <1>9, <1>10, <1>11, <1>12, <1>13, <1>14, <1>15

\* The mode and the velocities on display are cleared.
LEMMA ClearStep == IInv /\ Clear => IInv'
<1> SUFFICES ASSUME IInv, Clear PROVE IInv'
  OBVIOUS
<1> USE DEF IInv
<1>1. /\ Script(todo)' /\ Ahead = {"clear"} \union Ahead' /\ "clear" \in Ahead /\ todo # <<>>
      /\ phase \in {"running", "stopping"}
  BY Taken DEF Clear, Places
<1>2. Ordered
  BY InOrder DEF Places
<1>3. Ordered'
  BY <1>1, Shape DEF Ahead, Ordered
<1>4. TypeInv'
  BY <1>1, <1>2, <1>3, KeyboardNumbers DEF TypeInv, Velocities, Null, Frames, NoTarget, Clear
<1>5. Places'
  BY <1>1, <1>2, <1>3, KeyboardNumbers
    DEF Places, Threaded, Configured, Steps, StopSteps, LastSteps, PointSteps, Clear
<1>6. Rested'
  BY <1>1, <1>2, <1>3, KeyboardNumbers DEF Rested, Sending, Places, Threaded, Clear
<1>7. Pointed'
  BY <1>1, <1>2, <1>3, KeyboardNumbers
    DEF Pointed, HasPoint, NoCrash, Rested, Sending, Places, Threaded, TypeInv, Velocities,
        Null, Clear
<1>8. Framed'
  BY <1>1, <1>2, <1>3, KeyboardNumbers
    DEF Framed, FramesAgree, Rested, Sending, Places, Configured, Threaded, TypeInv, Clear
<1>9. Moded'
  BY <1>1, <1>2, <1>3, KeyboardNumbers DEF Moded, StopSteps, LastSteps, Clear
<1>10. Stopped'
  BY <1>1, <1>2, <1>3, KeyboardNumbers
    DEF Stopped, Halted, StillTool, Undisturbed, Configured, Threaded, Moded, Places, TypeInv,
        Clear
<1>11. JointsStopped'
  BY <1>1, <1>2, <1>3, KeyboardNumbers DEF JointsStopped, Undisturbed, Places, TypeInv, Clear
<1>12. Alone'
  BY <1>1, <1>2, <1>3, KeyboardNumbers
    DEF Alone, StillTool, Undisturbed, Stopped, Moded, Places, TypeInv, Configured, Clear
<1>13. Displayed'
  BY <1>1, <1>2, <1>3, KeyboardNumbers
    DEF Displayed, Shown, Sent, Told, Undisturbed, Moded, Stopped, Places, TypeInv, Configured,
        Halted, StillTool, Clear
<1>14. Quiet'
  BY <1>1, <1>2, <1>3, KeyboardNumbers
    DEF Quiet, Resting, Sending, Undisturbed, Configured, Threaded, Moded, Stopped, Halted,
        StillTool, StopSteps, Places, TypeInv, Clear
<1>15. QED  BY <1>4, <1>5, <1>6, <1>7, <1>8, <1>9, <1>10, <1>11, <1>12, <1>13, <1>14

\* The mode becomes cartesian: the velocity has been told.
LEMMA CartesianModeStep == IInv /\ CartesianMode => IInv'
<1> SUFFICES ASSUME IInv, CartesianMode PROVE IInv'
  OBVIOUS
<1> USE DEF IInv
<1>1. /\ Script(todo)' /\ Ahead = {"cartesian"} \union Ahead' /\ "cartesian" \in Ahead
      /\ todo # <<>>
      /\ phase \in {"running", "stopping"}
  BY Taken DEF CartesianMode, Places
<1>2. Ordered
  BY InOrder DEF Places
<1>3. Ordered'
  BY <1>1, Shape DEF Ahead, Ordered
<1>4. Ahead' = {}
  BY LastHead, InEmpty DEF CartesianMode, Places, Next1, Done, Ahead, LastSteps
<1>5. TypeInv'
  BY <1>1, <1>2, <1>3, <1>4, KeyboardNumbers
    DEF TypeInv, Velocities, Null, Frames, NoTarget, CartesianMode
<1>6. Places'
  BY <1>1, <1>2, <1>3, <1>4, KeyboardNumbers
    DEF Places, Threaded, Configured, Steps, StopSteps, LastSteps, PointSteps, CartesianMode
<1>7. Rested'
  BY <1>1, <1>2, <1>3, <1>4, KeyboardNumbers DEF Rested, Sending, Places, Threaded, CartesianMode
<1>8. Pointed'
  BY <1>1, <1>2, <1>3, <1>4, KeyboardNumbers
    DEF Pointed, HasPoint, NoCrash, Rested, Sending, Places, Threaded, TypeInv, Velocities, Null,
        CartesianMode
<1>9. Framed'
  BY <1>1, <1>2, <1>3, <1>4, KeyboardNumbers
    DEF Framed, FramesAgree, Rested, Sending, Places, Configured, Threaded, TypeInv, CartesianMode
<1>10. Moded'
  BY <1>1, <1>2, <1>3, <1>4, KeyboardNumbers DEF Moded, StopSteps, LastSteps, CartesianMode
<1>11. Stopped'
  BY <1>1, <1>2, <1>3, <1>4, KeyboardNumbers
    DEF Stopped, Halted, StillTool, Undisturbed, Configured, Threaded, Moded, Places, TypeInv,
        CartesianMode
<1>12. JointsStopped'
  BY <1>1, <1>2, <1>3, <1>4, KeyboardNumbers
    DEF JointsStopped, Undisturbed, Places, TypeInv, CartesianMode
<1>13. Alone'
  BY <1>1, <1>2, <1>3, <1>4, KeyboardNumbers
    DEF Alone, StillTool, Undisturbed, Stopped, Moded, Places, TypeInv, Configured,
        CartesianMode
<1>14. Displayed'
  BY <1>1, <1>2, <1>3, <1>4, KeyboardNumbers
    DEF Displayed, Shown, Sent, Told, Undisturbed, Moded, Stopped, Places, TypeInv, Configured,
        Halted, StillTool, CartesianMode
<1>15. Quiet'
  BY <1>1, <1>2, <1>3, <1>4, KeyboardNumbers
    DEF Quiet, Resting, Sending, Undisturbed, Configured, Threaded, Moded, Stopped, Halted,
        StillTool, StopSteps, Places, TypeInv, CartesianMode
<1>16. QED  BY <1>5, <1>6, <1>7, <1>8, <1>9, <1>10, <1>11, <1>12, <1>13, <1>14, <1>15

\* A twist of zero stops the robot.
LEMMA ZeroTwistStep == IInv /\ ZeroTwist => IInv'
<1> SUFFICES ASSUME IInv, ZeroTwist PROVE IInv'
  OBVIOUS
<1> USE DEF IInv
<1>1. /\ Script(todo)' /\ Ahead = {"zeroTwist"} \union Ahead' /\ "zeroTwist" \in Ahead
      /\ todo # <<>>
      /\ phase \in {"running", "stopping"}
  BY Taken DEF ZeroTwist, Places
<1>2. Ordered
  BY InOrder DEF Places
<1>3. Ordered'
  BY <1>1, Shape DEF Ahead, Ordered
<1>4. Ahead' = {"cartesian"}
  BY PointHead DEF ZeroTwist, Places, Next1, Done, Ahead, PointSteps
<1>5. TypeInv'
  BY <1>1, <1>2, <1>3, <1>4, KeyboardNumbers
    DEF TypeInv, Velocities, Null, Frames, NoTarget, ZeroTwist
<1>6. Places'
  BY <1>1, <1>2, <1>3, <1>4, KeyboardNumbers
    DEF Places, Threaded, Configured, Steps, StopSteps, LastSteps, PointSteps, ZeroTwist
<1>7. Rested'
  BY <1>1, <1>2, <1>3, <1>4, KeyboardNumbers DEF Rested, Sending, Places, Threaded, ZeroTwist
<1>8. Pointed'
  BY <1>1, <1>2, <1>3, <1>4, KeyboardNumbers
    DEF Pointed, HasPoint, NoCrash, Rested, Sending, Places, Threaded, TypeInv, Velocities, Null,
        ZeroTwist
<1>9. Framed'
  BY <1>1, <1>2, <1>3, <1>4, KeyboardNumbers
    DEF Framed, FramesAgree, Rested, Sending, Places, Configured, Threaded, TypeInv, ZeroTwist
<1>10. Moded'
  BY <1>1, <1>2, <1>3, <1>4, KeyboardNumbers DEF Moded, StopSteps, LastSteps, ZeroTwist
<1>11. Stopped'
  BY <1>1, <1>2, <1>3, <1>4, KeyboardNumbers
    DEF Stopped, Halted, StillTool, Undisturbed, Configured, Threaded, Moded, Places, TypeInv,
        ZeroTwist
<1>12. JointsStopped'
  BY <1>1, <1>2, <1>3, <1>4, KeyboardNumbers
    DEF JointsStopped, Undisturbed, Places, TypeInv, ZeroTwist
<1>13. Alone'
  BY <1>1, <1>2, <1>3, <1>4, KeyboardNumbers
    DEF Alone, StillTool, Undisturbed, Stopped, Moded, Places, TypeInv, Configured, ZeroTwist
<1>14. Displayed'
  BY <1>1, <1>2, <1>3, <1>4, KeyboardNumbers
    DEF Displayed, Shown, Sent, Told, Undisturbed, Moded, Stopped, Places, TypeInv, Configured,
        Halted, StillTool, ZeroTwist
<1>15. Quiet'
  BY <1>1, <1>2, <1>3, <1>4, KeyboardNumbers
    DEF Quiet, Resting, Sending, Undisturbed, Configured, Threaded, Moded, Stopped, Halted,
        StillTool, StopSteps, Places, TypeInv, ZeroTwist
<1>16. QED  BY <1>5, <1>6, <1>7, <1>8, <1>9, <1>10, <1>11, <1>12, <1>13, <1>14, <1>15

\* movv: the controller follows a line.
LEMMA MovvStep == IInv /\ Movv => IInv'
<1> SUFFICES ASSUME IInv, Movv PROVE IInv'
  OBVIOUS
<1> USE DEF IInv
<1>1. /\ Script(todo)' /\ Ahead = {"movv"} \union Ahead' /\ "movv" \in Ahead /\ todo # <<>>
      /\ phase \in {"running", "stopping"}
  BY Taken DEF Movv, Places
<1>2. Ordered
  BY InOrder DEF Places
<1>3. Ordered'
  BY <1>1, Shape DEF Ahead, Ordered
<1>4. Ahead' = {"cartesian"}
  BY PointHead DEF Movv, Places, Next1, Done, Ahead, PointSteps
<1>5. faults' \in 0..MaxFaults /\ (faults' = MaxFaults => faults = MaxFaults /\ ~Fails)
  BY Faulty DEF Movv
<1>6. TypeInv'
  <2>0. preset' \in BOOLEAN
    BY DEF TypeInv, Movv
  <2>1. /\ control' \in {"none", "movj", "movv"} /\ speed' \in Int
       /\ target' \in {NoTarget} \union [delta : BOOLEAN, frame : Frames]
    BY <1>1, <1>2, <1>3, <1>4, <1>5, KeyboardNumbers DEF TypeInv, Movv, Velocities
  <2>2. QED  BY <1>1, <1>2, <1>3, <1>4, <1>5, KeyboardNumbers, <2>0, <2>1 DEF TypeInv, Movv
<1>7. Places'
  BY <1>1, <1>2, <1>3, <1>4, <1>5, KeyboardNumbers
    DEF Places, Threaded, Configured, Steps, StopSteps, LastSteps, PointSteps, Movv
<1>8. Rested'
  BY <1>1, <1>2, <1>3, <1>4, <1>5, KeyboardNumbers DEF Rested, Sending, Places, Threaded, Movv
<1>9. Pointed'
  BY <1>1, <1>2, <1>3, <1>4, <1>5, KeyboardNumbers
    DEF Pointed, HasPoint, NoCrash, Rested, Sending, Places, Threaded, TypeInv, Velocities,
        Null, Movv
<1>10. Framed'
  BY <1>1, <1>2, <1>3, <1>4, <1>5, KeyboardNumbers
    DEF Framed, FramesAgree, Rested, Sending, Places, Configured, Threaded, TypeInv, Movv
<1>11. Moded'
  BY <1>1, <1>2, <1>3, <1>4, <1>5, KeyboardNumbers DEF Moded, StopSteps, LastSteps, Movv
<1>12. Stopped'
  <2>1. ~interrupted => phase = "running" /\ controlMode # "joint"
    BY <1>1, <1>2, <1>3, <1>4, <1>5, KeyboardNumbers DEF Moded, StopSteps
  <2>2. Undisturbed' => ~interrupted /\ Undisturbed
    BY <1>1, <1>2, <1>3, <1>4, <1>5, KeyboardNumbers DEF Undisturbed, TypeInv, Movv
  <2>3. usingThread # "yes"
    BY <1>1, <1>2, <1>3, <1>4, <1>5, KeyboardNumbers DEF Places
  <2>4. QED
    BY <1>1, <1>2, <1>3, <1>4, <1>5, KeyboardNumbers, <2>1, <2>2, <2>3 DEF Stopped, Halted,
       StillTool, Configured, Threaded, Movv
<1>13. JointsStopped'
  BY <1>1, <1>2, <1>3, <1>4, <1>5, KeyboardNumbers
    DEF JointsStopped, Undisturbed, Places, TypeInv, Movv
<1>14. Alone'
  BY <1>1, <1>2, <1>3, <1>4, <1>5, KeyboardNumbers
    DEF Alone, StillTool, Undisturbed, Stopped, Moded, Places, TypeInv, Configured, Movv
<1>15. Displayed'
  BY <1>1, <1>2, <1>3, <1>4, <1>5, KeyboardNumbers
    DEF Displayed, Shown, Sent, Told, Undisturbed, Moded, Stopped, Places, TypeInv, Configured,
        Halted, StillTool, Movv
<1>16. Quiet'
  BY <1>1, <1>2, <1>3, <1>4, <1>5, KeyboardNumbers
    DEF Quiet, Resting, Sending, Undisturbed, Configured, Threaded, Moded, Stopped, Halted,
        StillTool, StopSteps, Places, TypeInv, Movv
<1>17. QED  BY <1>6, <1>7, <1>8, <1>9, <1>10, <1>11, <1>12, <1>13, <1>14, <1>15, <1>16

\* The thread is resumed: it has a point to send.
LEMMA ResumeStep == IInv /\ Resume => IInv'
<1> SUFFICES ASSUME IInv, Resume PROVE IInv'
  OBVIOUS
<1> USE DEF IInv
<1>1. /\ Script(todo)' /\ Ahead = {"resume"} \union Ahead' /\ "resume" \in Ahead /\ todo # <<>>
      /\ phase \in {"running", "stopping"}
  BY Taken DEF Resume, Places
<1>2. Ordered
  BY InOrder DEF Places
<1>3. Ordered'
  BY <1>1, Shape DEF Ahead, Ordered
<1>4. Ahead' = {"cartesian"}
  BY PointHead DEF Resume, Places, Next1, Done, Ahead, PointSteps
<1>5. TypeInv'
  BY <1>1, <1>2, <1>3, <1>4, KeyboardNumbers
    DEF TypeInv, Velocities, Null, Frames, NoTarget, Resume
<1>6. Places'
  BY <1>1, <1>2, <1>3, <1>4, KeyboardNumbers
    DEF Places, Threaded, Configured, Steps, StopSteps, LastSteps, PointSteps, Resume
<1>7. Rested'
  BY <1>1, <1>2, <1>3, <1>4, KeyboardNumbers DEF Rested, Sending, Places, Threaded, Resume
<1>8. Pointed'
  BY <1>1, <1>2, <1>3, <1>4, KeyboardNumbers
    DEF Pointed, HasPoint, NoCrash, Rested, Sending, Places, Threaded, TypeInv, Velocities,
        Null, Resume
<1>9. Framed'
  BY <1>1, <1>2, <1>3, <1>4, KeyboardNumbers
    DEF Framed, FramesAgree, Rested, Sending, Places, Configured, Threaded, TypeInv, Resume
<1>10. Moded'
  BY <1>1, <1>2, <1>3, <1>4, KeyboardNumbers DEF Moded, StopSteps, LastSteps, Resume
<1>11. Stopped'
  BY <1>1, <1>2, <1>3, <1>4, KeyboardNumbers
    DEF Stopped, Halted, StillTool, Undisturbed, Configured, Threaded, Moded, Places, TypeInv,
        Resume
<1>12. JointsStopped'
  BY <1>1, <1>2, <1>3, <1>4, KeyboardNumbers
    DEF JointsStopped, Undisturbed, Places, TypeInv, Resume
<1>13. Alone'
  BY <1>1, <1>2, <1>3, <1>4, KeyboardNumbers
    DEF Alone, StillTool, Undisturbed, Stopped, Moded, Places, TypeInv, Configured, Resume
<1>14. Displayed'
  BY <1>1, <1>2, <1>3, <1>4, KeyboardNumbers
    DEF Displayed, Shown, Sent, Told, Undisturbed, Moded, Stopped, Places, TypeInv, Configured,
        Halted, StillTool, Resume
<1>15. Quiet'
  BY <1>1, <1>2, <1>3, <1>4, KeyboardNumbers
    DEF Quiet, Resting, Sending, Undisturbed, Configured, Threaded, Moded, Stopped, Halted,
        StillTool, StopSteps, Places, TypeInv, Resume
<1>16. QED  BY <1>5, <1>6, <1>7, <1>8, <1>9, <1>10, <1>11, <1>12, <1>13, <1>14, <1>15

\* The suspended thread is told of the frame.
LEMMA UseTcpFrameStep == IInv /\ UseTcpFrame => IInv'
<1> SUFFICES ASSUME IInv, UseTcpFrame PROVE IInv'
  OBVIOUS
<1> USE DEF IInv
<1>1. /\ Script(todo)' /\ Ahead = {"useTcpFrame"} \union Ahead' /\ "useTcpFrame" \in Ahead
      /\ todo # <<>>
      /\ phase \in {"running", "stopping"}
  BY Taken DEF UseTcpFrame, Places
<1>2. Ordered
  BY InOrder DEF Places
<1>3. Ordered'
  BY <1>1, Shape DEF Ahead, Ordered
<1>4. Ahead' = {}
  BY LastHead, InEmpty DEF UseTcpFrame, Places, Next1, Done, Ahead, LastSteps
<1>5. TypeInv'
  BY <1>1, <1>2, <1>3, <1>4, KeyboardNumbers
    DEF TypeInv, Velocities, Null, Frames, NoTarget, UseTcpFrame
<1>6. Places'
  BY <1>1, <1>2, <1>3, <1>4, KeyboardNumbers
    DEF Places, Threaded, Configured, Steps, StopSteps, LastSteps, PointSteps, UseTcpFrame
<1>7. Rested'
  BY <1>1, <1>2, <1>3, <1>4, KeyboardNumbers DEF Rested, Sending, Places, Threaded, UseTcpFrame
<1>8. Pointed'
  BY <1>1, <1>2, <1>3, <1>4, KeyboardNumbers
    DEF Pointed, HasPoint, NoCrash, Rested, Sending, Places, Threaded, TypeInv, Velocities, Null,
        UseTcpFrame
<1>9. Framed'
  BY <1>1, <1>2, <1>3, <1>4, KeyboardNumbers
    DEF Framed, FramesAgree, Rested, Sending, Places, Configured, Threaded, TypeInv, UseTcpFrame
<1>10. Moded'
  BY <1>1, <1>2, <1>3, <1>4, KeyboardNumbers DEF Moded, StopSteps, LastSteps, UseTcpFrame
<1>11. Stopped'
  BY <1>1, <1>2, <1>3, <1>4, KeyboardNumbers
    DEF Stopped, Halted, StillTool, Undisturbed, Configured, Threaded, Moded, Places, TypeInv,
        UseTcpFrame
<1>12. JointsStopped'
  BY <1>1, <1>2, <1>3, <1>4, KeyboardNumbers
    DEF JointsStopped, Undisturbed, Places, TypeInv, UseTcpFrame
<1>13. Alone'
  BY <1>1, <1>2, <1>3, <1>4, KeyboardNumbers
    DEF Alone, StillTool, Undisturbed, Stopped, Moded, Places, TypeInv, Configured, UseTcpFrame
<1>14. Displayed'
  BY <1>1, <1>2, <1>3, <1>4, KeyboardNumbers
    DEF Displayed, Shown, Sent, Told, Undisturbed, Moded, Stopped, Places, TypeInv, Configured,
        Halted, StillTool, UseTcpFrame
<1>15. Quiet'
  BY <1>1, <1>2, <1>3, <1>4, KeyboardNumbers
    DEF Quiet, Resting, Sending, Undisturbed, Configured, Threaded, Moded, Stopped, Halted,
        StillTool, StopSteps, Places, TypeInv, UseTcpFrame
<1>16. QED  BY <1>5, <1>6, <1>7, <1>8, <1>9, <1>10, <1>11, <1>12, <1>13, <1>14, <1>15

\* The gripper acts.
LEMMA ActuateToolStep == IInv /\ ActuateTool => IInv'
<1> SUFFICES ASSUME IInv, ActuateTool PROVE IInv'
  OBVIOUS
<1> USE DEF IInv
<1>1. /\ Script(todo)' /\ Ahead = {"act"} \union Ahead' /\ "act" \in Ahead /\ todo # <<>>
      /\ phase \in {"running", "stopping"}
  BY Taken DEF ActuateTool, Places
<1>2. Ordered
  BY InOrder DEF Places
<1>3. Ordered'
  BY <1>1, Shape DEF Ahead, Ordered
<1>4. Ahead' = {}
  BY LastHead, InEmpty DEF ActuateTool, Places, Next1, Done, Ahead, LastSteps
<1>5. faults' \in 0..MaxFaults /\ (faults' = MaxFaults => faults = MaxFaults /\ ~Fails)
  BY Faulty DEF ActuateTool
<1>6. TypeInv'
  <2>1. grip' \in BOOLEAN  BY DEF ActuateTool, TypeInv
  <2>2. QED  BY <1>1, <1>2, <1>3, <1>4, <1>5, KeyboardNumbers, <2>1 DEF TypeInv, ActuateTool
<1>7. Places'
  BY <1>1, <1>2, <1>3, <1>4, <1>5, KeyboardNumbers
    DEF Places, Threaded, Configured, Steps, StopSteps, LastSteps, PointSteps, ActuateTool
<1>8. Rested'
  BY <1>1, <1>2, <1>3, <1>4, <1>5, KeyboardNumbers DEF Rested, Sending, Places, Threaded,
    ActuateTool
<1>9. Pointed'
  BY <1>1, <1>2, <1>3, <1>4, <1>5, KeyboardNumbers
    DEF Pointed, HasPoint, NoCrash, Rested, Sending, Places, Threaded, TypeInv, Velocities, Null,
        ActuateTool
<1>10. Framed'
  BY <1>1, <1>2, <1>3, <1>4, <1>5, KeyboardNumbers
    DEF Framed, FramesAgree, Rested, Sending, Places, Configured, Threaded, TypeInv, ActuateTool
<1>11. Moded'
  BY <1>1, <1>2, <1>3, <1>4, <1>5, KeyboardNumbers DEF Moded, StopSteps, LastSteps, ActuateTool
<1>12. Stopped'
  BY <1>1, <1>2, <1>3, <1>4, <1>5, KeyboardNumbers
    DEF Stopped, Halted, StillTool, Undisturbed, Configured, Threaded, Moded, Places, TypeInv,
        ActuateTool
<1>13. JointsStopped'
  BY <1>1, <1>2, <1>3, <1>4, <1>5, KeyboardNumbers
    DEF JointsStopped, Undisturbed, Places, TypeInv, ActuateTool
<1>14. Alone'
  BY <1>1, <1>2, <1>3, <1>4, <1>5, KeyboardNumbers
    DEF Alone, StillTool, Undisturbed, Stopped, Moded, Places, TypeInv, Configured, ActuateTool
<1>15. Displayed'
  BY <1>1, <1>2, <1>3, <1>4, <1>5, KeyboardNumbers
    DEF Displayed, Shown, Sent, Told, Undisturbed, Moded, Stopped, Places, TypeInv, Configured,
        Halted, StillTool, ActuateTool
<1>16. Quiet'
  BY <1>1, <1>2, <1>3, <1>4, <1>5, KeyboardNumbers
    DEF Quiet, Resting, Sending, Undisturbed, Configured, Threaded, Moded, Stopped, Halted,
        StillTool, StopSteps, Places, TypeInv, ActuateTool
<1>17. QED  BY <1>6, <1>7, <1>8, <1>9, <1>10, <1>11, <1>12, <1>13, <1>14, <1>15, <1>16

\* The thread wakes up.
LEMMA RunBeginStep == IInv /\ RunBegin => IInv'
<1> SUFFICES ASSUME IInv, RunBegin PROVE IInv'
  OBVIOUS
<1> USE DEF IInv
<1>1. Script(todo)' /\ Ahead' = Ahead
  BY Same DEF RunBegin, Places
<1>2. Ordered
  BY InOrder DEF Places
<1>3. "setFrame" \in Ahead => "cartesian" \notin Ahead
  BY OneLast DEF Places, Ahead, LastSteps
<1>4. TypeInv'
  BY <1>1, <1>2, <1>3, KeyboardNumbers DEF TypeInv, Velocities, Null, Frames, NoTarget, RunBegin
<1>5. Places'
  BY <1>1, <1>2, <1>3, KeyboardNumbers
    DEF Places, Threaded, Configured, Steps, StopSteps, LastSteps, PointSteps, RunBegin
<1>6. Rested'
  BY <1>1, <1>2, <1>3, KeyboardNumbers DEF Rested, Sending, Places, Threaded, RunBegin
<1>7. Pointed'
  BY <1>1, <1>2, <1>3, KeyboardNumbers
    DEF Pointed, HasPoint, NoCrash, Rested, Sending, Places, Threaded, TypeInv, Velocities, Null,
        RunBegin
<1>8. Framed'
  BY <1>1, <1>2, <1>3, KeyboardNumbers
    DEF Framed, FramesAgree, Rested, Sending, Places, Configured, Threaded, TypeInv, RunBegin
<1>9. Moded'
  BY <1>1, <1>2, <1>3, KeyboardNumbers DEF Moded, StopSteps, LastSteps, RunBegin
<1>10. Stopped'
  BY <1>1, <1>2, <1>3, KeyboardNumbers
    DEF Stopped, Halted, StillTool, Undisturbed, Configured, Threaded, Moded, Places, TypeInv,
        RunBegin
<1>11. JointsStopped'
  BY <1>1, <1>2, <1>3, KeyboardNumbers DEF JointsStopped, Undisturbed, Places, TypeInv, RunBegin
<1>12. Alone'
  BY <1>1, <1>2, <1>3, KeyboardNumbers
    DEF Alone, StillTool, Undisturbed, Stopped, Moded, Places, TypeInv, Configured, RunBegin
<1>13. Displayed'
  BY <1>1, <1>2, <1>3, KeyboardNumbers
    DEF Displayed, Shown, Sent, Told, Undisturbed, Moded, Stopped, Places, TypeInv, Configured,
        Halted, StillTool, RunBegin
<1>14. Quiet'
  BY <1>1, <1>2, <1>3, KeyboardNumbers
    DEF Quiet, Resting, Sending, Undisturbed, Configured, Threaded, Moded, Stopped, Halted,
        StillTool, StopSteps, Places, TypeInv, RunBegin
<1>15. QED  BY <1>4, <1>5, <1>6, <1>7, <1>8, <1>9, <1>10, <1>11, <1>12, <1>13, <1>14

\* The thread computes the next point in the frame it knows.
LEMMA RunReadStep == IInv /\ RunRead => IInv'
<1> SUFFICES ASSUME IInv, RunRead PROVE IInv'
  OBVIOUS
<1> USE DEF IInv
<1>1. Script(todo)' /\ Ahead' = Ahead
  BY Same DEF RunRead, Places
<1>2. Ordered
  BY InOrder DEF Places
<1>3. TypeInv'
  <2>1. crashed' \in BOOLEAN /\ point' \in BOOLEAN /\ run' \in {"idle", "read"}
    BY DEF RunRead, TypeInv
  <2>2. QED  BY <1>1, <1>2, KeyboardNumbers, <2>1 DEF TypeInv, RunRead
<1>4. Places'
  BY <1>1, <1>2, KeyboardNumbers
    DEF Places, Threaded, Configured, Steps, StopSteps, LastSteps, PointSteps, RunRead
<1>5. Rested'
  BY <1>1, <1>2, KeyboardNumbers DEF Rested, Sending, Places, Threaded, RunRead
<1>6. Pointed'
  BY <1>1, <1>2, KeyboardNumbers
    DEF Pointed, HasPoint, NoCrash, Rested, Sending, Places, Threaded, TypeInv, Velocities,
        Null, RunRead
<1>7. Framed'
  BY <1>1, <1>2, KeyboardNumbers
    DEF Framed, FramesAgree, Rested, Sending, Places, Configured, Threaded, TypeInv, RunRead
<1>8. Moded'
  BY <1>1, <1>2, KeyboardNumbers DEF Moded, StopSteps, LastSteps, RunRead
<1>9. Stopped'
  BY <1>1, <1>2, KeyboardNumbers
    DEF Stopped, Halted, StillTool, Undisturbed, Configured, Threaded, Moded, Places, TypeInv,
        RunRead
<1>10. JointsStopped'
  BY <1>1, <1>2, KeyboardNumbers DEF JointsStopped, Undisturbed, Places, TypeInv, RunRead
<1>11. Alone'
  BY <1>1, <1>2, KeyboardNumbers
    DEF Alone, StillTool, Undisturbed, Stopped, Moded, Places, TypeInv, Configured, RunRead
<1>12. Displayed'
  BY <1>1, <1>2, KeyboardNumbers
    DEF Displayed, Shown, Sent, Told, Undisturbed, Moded, Stopped, Places, TypeInv, Configured,
        Halted, StillTool, RunRead
<1>13. Quiet'
  BY <1>1, <1>2, KeyboardNumbers
    DEF Quiet, Resting, Sending, Undisturbed, Configured, Threaded, Moded, Stopped, Halted,
        StillTool, StopSteps, Places, TypeInv, RunRead
<1>14. QED  BY <1>3, <1>4, <1>5, <1>6, <1>7, <1>8, <1>9, <1>10, <1>11, <1>12, <1>13

\* The thread sends its point, perhaps late.
LEMMA RunSendStep == IInv /\ RunSend => IInv'
<1> SUFFICES ASSUME IInv, RunSend PROVE IInv'
  OBVIOUS
<1> USE DEF IInv
<1>1. Script(todo)' /\ Ahead' = Ahead
  BY Same DEF RunSend, Places
<1>2. Ordered
  BY InOrder DEF Places
<1>3. TypeInv'
  <2>1. wire' \subseteq {"delta", "pose", "zero"} /\ point' \in BOOLEAN /\ run' = "idle"
    BY DEF TypeInv, RunSend
  <2>2. QED  BY <1>1, <1>2, KeyboardNumbers, <2>1 DEF TypeInv, RunSend
<1>4. Places'
  BY <1>1, <1>2, KeyboardNumbers
    DEF Places, Threaded, Configured, Steps, StopSteps, LastSteps, PointSteps, RunSend
<1>5. Rested'
  BY <1>1, <1>2, KeyboardNumbers DEF Rested, Sending, Places, Threaded, RunSend
<1>6. Pointed'
  BY <1>1, <1>2, KeyboardNumbers
    DEF Pointed, HasPoint, NoCrash, Rested, Sending, Places, Threaded, TypeInv, Velocities,
        Null, RunSend
<1>7. Framed'
  BY <1>1, <1>2, KeyboardNumbers
    DEF Framed, FramesAgree, Places, TypeInv, RunSend, Frames
<1>8. Moded'
  BY <1>1, <1>2, KeyboardNumbers DEF Moded, StopSteps, LastSteps, RunSend
<1>9. Stopped'
  BY <1>1, <1>2, KeyboardNumbers
    DEF Stopped, Halted, StillTool, Undisturbed, Configured, Threaded, Moded, Places, TypeInv,
        RunSend
<1>10. JointsStopped'
  BY <1>1, <1>2, KeyboardNumbers DEF JointsStopped, Undisturbed, Places, TypeInv, RunSend
<1>11. Alone'
  BY <1>1, <1>2, KeyboardNumbers
    DEF Alone, StillTool, Undisturbed, Stopped, Moded, Places, TypeInv, Configured, RunSend
<1>12. Displayed'
  BY <1>1, <1>2, KeyboardNumbers
    DEF Displayed, Shown, Sent, Told, Undisturbed, Moded, Stopped, Places, TypeInv, Configured,
        Halted, StillTool, RunSend
<1>13. Quiet'
  BY <1>1, <1>2, KeyboardNumbers
    DEF Quiet, Resting, Sending, Undisturbed, Configured, Threaded, Moded, Stopped, Halted,
        StillTool, StopSteps, Places, TypeInv, RunSend
<1>14. QED  BY <1>3, <1>4, <1>5, <1>6, <1>7, <1>8, <1>9, <1>10, <1>11, <1>12, <1>13

\* A movi arrives: the controller executes it or drops it.
LEMMA TakeMoviStep == IInv /\ TakeMovi => IInv'
<1> SUFFICES ASSUME IInv, TakeMovi PROVE IInv'
  OBVIOUS
<1> USE DEF IInv
<1>1. Script(todo)' /\ Ahead' = Ahead
  BY Same DEF TakeMovi, Places
<1>2. Ordered
  BY InOrder DEF Places
<1>3. \/ UNCHANGED target
      \/ "delta" \in wire /\ target' = [delta |-> TRUE, frame |-> frame]
      \/ "pose" \in wire /\ target' = [delta |-> FALSE, frame |-> frame]
  <2>1. PICK d \in {"delta", "pose"} :
          d \in wire /\ (target' = [delta |-> d = "delta", frame |-> frame] \/ UNCHANGED target)
    BY DEF TakeMovi, Arrives
  <2>2. CASE d = "delta"
    <3>1. (d = "delta") = TRUE  BY <2>2
    <3>2. QED  BY <2>1, <2>2, <3>1
  <2>3. CASE d = "pose"
    <3>1. (d = "delta") = FALSE  BY <2>3
    <3>2. QED  BY <2>1, <2>3, <3>1
  <2>4. QED  BY <2>1, <2>2, <2>3
<1>4. TypeInv'
  <2>1. wire' \subseteq {"delta", "pose", "zero"}
    BY DEF TypeInv, TakeMovi, Arrives
  <2>2. target' \in {NoTarget} \union [delta : BOOLEAN, frame : Frames]
    <3>1. /\ frame \in Frames
          /\ target \in {NoTarget} \union [delta : BOOLEAN, frame : Frames]
      BY DEF TypeInv
    <3>2. \A b \in BOOLEAN : [delta |-> b, frame |-> frame] \in [delta : BOOLEAN, frame : Frames]
      BY <3>1
    <3>3. QED  BY <1>3, <3>1, <3>2
  <2>3. speed' \in Int /\ control' \in {"none", "movj", "movv"}
    BY DEF TypeInv, TakeMovi
  <2>4. QED  BY <1>1, <1>2, KeyboardNumbers, <2>1, <2>2, <2>3 DEF TypeInv, TakeMovi
<1>5. Places'
  BY <1>1, <1>2, KeyboardNumbers
    DEF Places, Threaded, Configured, Steps, StopSteps, LastSteps, PointSteps, TakeMovi, Arrives
<1>6. Rested'
  BY <1>1, <1>2, KeyboardNumbers DEF Rested, Sending, Places, Threaded, TakeMovi, Arrives
<1>7. Pointed'
  BY <1>1, <1>2, KeyboardNumbers
    DEF Pointed, HasPoint, NoCrash, Rested, Sending, Places, Threaded, TypeInv, Velocities,
        Null, TakeMovi, Arrives
<1>8. Framed'
  <2>1. UNCHANGED <<thread, tcp, frame, run, point, late>>
    BY DEF TakeMovi
  <2>2. wire' \subseteq wire
    BY DEF TakeMovi, Arrives
  <2>3. FramesAgree'
    BY <1>3, <2>1 DEF Framed, FramesAgree
  <2>4. QED  BY <1>1, <2>1, <2>2, <2>3 DEF Framed
<1>9. Moded'
  BY <1>1, <1>2, KeyboardNumbers DEF Moded, StopSteps, LastSteps, TakeMovi, Arrives
<1>10. Stopped'
  BY <1>1, <1>2, KeyboardNumbers
    DEF Stopped, Halted, StillTool, Undisturbed, Configured, Threaded, Moded, Places, TypeInv,
        TakeMovi, Arrives
<1>11. JointsStopped'
  BY <1>1, <1>2, KeyboardNumbers DEF JointsStopped, Undisturbed, Places, TypeInv, TakeMovi,
    Arrives
<1>12. Alone'
  BY <1>1, <1>2, KeyboardNumbers
    DEF Alone, StillTool, Undisturbed, Stopped, Moded, Places, TypeInv, Configured, TakeMovi,
        Arrives
<1>13. Displayed'
  BY <1>1, <1>2, KeyboardNumbers
    DEF Displayed, Shown, Sent, Told, Undisturbed, Moded, Stopped, Places, TypeInv, Configured,
        Halted, StillTool, TakeMovi, Arrives
<1>14. Quiet'
  BY <1>1, <1>2, KeyboardNumbers
    DEF Quiet, Resting, Sending, Undisturbed, Configured, Threaded, Moded, Stopped, Halted,
        StillTool, StopSteps, Places, TypeInv, TakeMovi, Arrives
<1>15. QED  BY <1>4, <1>5, <1>6, <1>7, <1>8, <1>9, <1>10, <1>11, <1>12, <1>13, <1>14

\* The zero twist arrives: it stops the tool or is dropped.
LEMMA TakeTwistStep == IInv /\ TakeTwist => IInv'
<1> SUFFICES ASSUME IInv, TakeTwist PROVE IInv'
  OBVIOUS
<1> USE DEF IInv
<1>1. Script(todo)' /\ Ahead' = Ahead
  BY Same DEF TakeTwist, Places
<1>2. Ordered
  BY InOrder DEF Places
<1>3. TypeInv'
  BY <1>1, <1>2, KeyboardNumbers DEF TypeInv, Velocities, Null, Frames, NoTarget, TakeTwist,
    Arrives
<1>4. Places'
  BY <1>1, <1>2, KeyboardNumbers
    DEF Places, Threaded, Configured, Steps, StopSteps, LastSteps, PointSteps, TakeTwist, Arrives
<1>5. Rested'
  BY <1>1, <1>2, KeyboardNumbers DEF Rested, Sending, Places, Threaded, TakeTwist, Arrives
<1>6. Pointed'
  BY <1>1, <1>2, KeyboardNumbers
    DEF Pointed, HasPoint, NoCrash, Rested, Sending, Places, Threaded, TypeInv, Velocities,
        Null, TakeTwist, Arrives
<1>7. Framed'
  BY <1>1, <1>2, KeyboardNumbers
    DEF Framed, FramesAgree, Rested, Sending, Places, Configured, Threaded, TypeInv, TakeTwist,
        Arrives
<1>8. Moded'
  BY <1>1, <1>2, KeyboardNumbers DEF Moded, StopSteps, LastSteps, TakeTwist, Arrives
<1>9. Stopped'
  BY <1>1, <1>2, KeyboardNumbers
    DEF Stopped, Halted, StillTool, Undisturbed, Configured, Threaded, Moded, Places, TypeInv,
        TakeTwist, Arrives
<1>10. JointsStopped'
  BY <1>1, <1>2, KeyboardNumbers DEF JointsStopped, Undisturbed, Places, TypeInv, TakeTwist,
    Arrives
<1>11. Alone'
  BY <1>1, <1>2, KeyboardNumbers
    DEF Alone, StillTool, Undisturbed, Stopped, Moded, Places, TypeInv, Configured, TakeTwist,
        Arrives
<1>12. Displayed'
  BY <1>1, <1>2, KeyboardNumbers
    DEF Displayed, Shown, Sent, Told, Undisturbed, Moded, Stopped, Places, TypeInv, Configured,
        Halted, StillTool, TakeTwist, Arrives
<1>13. Quiet'
  BY <1>1, <1>2, KeyboardNumbers
    DEF Quiet, Resting, Sending, Undisturbed, Configured, Threaded, Moded, Stopped, Halted,
        StillTool, StopSteps, Places, TypeInv, TakeTwist, Arrives
<1>14. QED  BY <1>3, <1>4, <1>5, <1>6, <1>7, <1>8, <1>9, <1>10, <1>11, <1>12, <1>13

\* A datagram is lost.
LEMMA LoseStep == IInv /\ Lose => IInv'
<1> SUFFICES ASSUME IInv, Lose PROVE IInv'
  OBVIOUS
<1> USE DEF IInv
<1>1. Script(todo)' /\ Ahead' = Ahead
  BY Same DEF Lose, Places
<1>2. Ordered
  BY InOrder DEF Places
<1>3. TypeInv'
  BY <1>1, <1>2, KeyboardNumbers DEF TypeInv, Velocities, Null, Frames, NoTarget, Lose
<1>4. Places'
  BY <1>1, <1>2, KeyboardNumbers
    DEF Places, Threaded, Configured, Steps, StopSteps, LastSteps, PointSteps, Lose
<1>5. Rested'
  BY <1>1, <1>2, KeyboardNumbers DEF Rested, Sending, Places, Threaded, Lose
<1>6. Pointed'
  BY <1>1, <1>2, KeyboardNumbers
    DEF Pointed, HasPoint, NoCrash, Rested, Sending, Places, Threaded, TypeInv, Velocities,
        Null, Lose
<1>7. Framed'
  BY <1>1, <1>2, KeyboardNumbers
    DEF Framed, FramesAgree, Rested, Sending, Places, Configured, Threaded, TypeInv, Lose
<1>8. Moded'
  BY <1>1, <1>2, KeyboardNumbers DEF Moded, StopSteps, LastSteps, Lose
<1>9. Stopped'
  BY <1>1, <1>2, KeyboardNumbers
    DEF Stopped, Halted, StillTool, Undisturbed, Configured, Threaded, Moded, Places, TypeInv,
        Lose
<1>10. JointsStopped'
  BY <1>1, <1>2, KeyboardNumbers DEF JointsStopped, Undisturbed, Places, TypeInv, Lose
<1>11. Alone'
  BY <1>1, <1>2, KeyboardNumbers
    DEF Alone, StillTool, Undisturbed, Stopped, Moded, Places, TypeInv, Configured, Lose
<1>12. Displayed'
  BY <1>1, <1>2, KeyboardNumbers
    DEF Displayed, Shown, Sent, Told, Undisturbed, Moded, Stopped, Places, TypeInv, Configured,
        Halted, StillTool, Lose
<1>13. Quiet'
  BY <1>1, <1>2, KeyboardNumbers
    DEF Quiet, Resting, Sending, Undisturbed, Configured, Threaded, Moded, Stopped, Halted,
        StillTool, StopSteps, Places, TypeInv, Lose
<1>14. QED  BY <1>3, <1>4, <1>5, <1>6, <1>7, <1>8, <1>9, <1>10, <1>11, <1>12, <1>13

\* The robot arrives.
LEMMA ArriveStep == IInv /\ Arrive => IInv'
<1> SUFFICES ASSUME IInv, Arrive PROVE IInv'
  OBVIOUS
<1> USE DEF IInv
<1>1. Script(todo)' /\ Ahead' = Ahead
  BY Same DEF Arrive, Places
<1>2. Ordered
  BY InOrder DEF Places
<1>3. TypeInv'
  BY <1>1, <1>2, KeyboardNumbers DEF TypeInv, Velocities, Null, Frames, NoTarget, Arrive
<1>4. Places'
  BY <1>1, <1>2, KeyboardNumbers
    DEF Places, Threaded, Configured, Steps, StopSteps, LastSteps, PointSteps, Arrive
<1>5. Rested'
  BY <1>1, <1>2, KeyboardNumbers DEF Rested, Sending, Places, Threaded, Arrive
<1>6. Pointed'
  BY <1>1, <1>2, KeyboardNumbers
    DEF Pointed, HasPoint, NoCrash, Rested, Sending, Places, Threaded, TypeInv, Velocities,
        Null, Arrive
<1>7. Framed'
  BY <1>1, <1>2, KeyboardNumbers
    DEF Framed, FramesAgree, Rested, Sending, Places, Configured, Threaded, TypeInv, Arrive
<1>8. Moded'
  BY <1>1, <1>2, KeyboardNumbers DEF Moded, StopSteps, LastSteps, Arrive
<1>9. Stopped'
  BY <1>1, <1>2, KeyboardNumbers
    DEF Stopped, Halted, StillTool, Undisturbed, Configured, Threaded, Moded, Places, TypeInv,
        Arrive
<1>10. JointsStopped'
  BY <1>1, <1>2, KeyboardNumbers DEF JointsStopped, Undisturbed, Places, TypeInv, Arrive
<1>11. Alone'
  BY <1>1, <1>2, KeyboardNumbers
    DEF Alone, StillTool, Undisturbed, Stopped, Moded, Places, TypeInv, Configured, Arrive
<1>12. Displayed'
  BY <1>1, <1>2, KeyboardNumbers
    DEF Displayed, Shown, Sent, Told, Undisturbed, Moded, Stopped, Places, TypeInv, Configured,
        Halted, StillTool, Arrive
<1>13. Quiet'
  BY <1>1, <1>2, KeyboardNumbers
    DEF Quiet, Resting, Sending, Undisturbed, Configured, Threaded, Moded, Stopped, Halted,
        StillTool, StopSteps, Places, TypeInv, Arrive
<1>14. QED  BY <1>3, <1>4, <1>5, <1>6, <1>7, <1>8, <1>9, <1>10, <1>11, <1>12, <1>13

\* The robot gives a movement up.
LEMMA AbandonStep == IInv /\ Abandon => IInv'
<1> SUFFICES ASSUME IInv, Abandon PROVE IInv'
  OBVIOUS
<1> USE DEF IInv
<1>1. Script(todo)' /\ Ahead' = Ahead
  BY Same DEF Abandon, Places
<1>2. Ordered
  BY InOrder DEF Places
<1>3. TypeInv'
  <2>0. preset' \in BOOLEAN
    BY DEF TypeInv, Abandon, Halt
  <2>1. /\ control' \in {"none", "movj", "movv"} /\ speed' \in Int /\ joints' \in Int
       /\ target' \in {NoTarget} \union [delta : BOOLEAN, frame : Frames]
    BY <1>1, <1>2, KeyboardNumbers DEF TypeInv, Abandon, Halt
  <2>2. QED  BY <1>1, <1>2, KeyboardNumbers, <2>0, <2>1 DEF TypeInv, Abandon
<1>4. Places'
  BY <1>1, <1>2, KeyboardNumbers
    DEF Places, Threaded, Configured, Steps, StopSteps, LastSteps, PointSteps, Abandon, Halt
<1>5. Rested'
  BY <1>1, <1>2, KeyboardNumbers DEF Rested, Sending, Places, Threaded, Abandon, Halt
<1>6. Pointed'
  BY <1>1, <1>2, KeyboardNumbers
    DEF Pointed, HasPoint, NoCrash, Rested, Sending, Places, Threaded, TypeInv, Velocities, Null,
        Abandon, Halt
<1>7. Framed'
  BY <1>1, <1>2, KeyboardNumbers
    DEF Framed, FramesAgree, Rested, Sending, Places, Configured, Threaded, TypeInv, Abandon, Halt
<1>8. Moded'
  BY <1>1, <1>2, KeyboardNumbers DEF Moded, StopSteps, LastSteps, Abandon, Halt
<1>9. Stopped'
  BY <1>1, <1>2, KeyboardNumbers
    DEF Stopped, Halted, StillTool, Undisturbed, Configured, Threaded, Moded, Places, TypeInv,
        Abandon, Halt
<1>10. JointsStopped'
  BY <1>1, <1>2, KeyboardNumbers DEF JointsStopped, Undisturbed, Places, TypeInv, Abandon, Halt
<1>11. Alone'
  BY <1>1, <1>2, KeyboardNumbers
    DEF Alone, StillTool, Undisturbed, Stopped, Moded, Places, TypeInv, Configured, Abandon,
        Halt
<1>12. Displayed'
  BY <1>1, <1>2, KeyboardNumbers
    DEF Displayed, Shown, Sent, Told, Undisturbed, Moded, Stopped, Places, TypeInv, Configured,
        Halted, StillTool, Abandon, Halt
<1>13. Quiet'
  BY <1>1, <1>2, KeyboardNumbers
    DEF Quiet, Resting, Sending, Undisturbed, Configured, Threaded, Moded, Stopped, Halted,
        StillTool, StopSteps, Places, TypeInv, Abandon, Halt
<1>14. QED  BY <1>3, <1>4, <1>5, <1>6, <1>7, <1>8, <1>9, <1>10, <1>11, <1>12, <1>13

\* The stop key.
LEMMA StopKeyStep == IInv /\ StopKey => IInv'
<1> SUFFICES ASSUME IInv, StopKey PROVE IInv'
  OBVIOUS
<1> USE DEF IInv
<1>1. todo = <<>> /\ Ahead = {} /\ phase = "running"
  BY Idle DEF StopKey, Key
<1>2. Script(todo)' /\ Ahead' = StopSet
  BY StopScript DEF StopKey, Key, Ahead
<1>3. TypeInv'
  BY <1>1, <1>2, KeyboardNumbers
    DEF TypeInv, Velocities, Null, Frames, NoTarget, StopKey, StopSet, Key
<1>4. Places'
  BY <1>1, <1>2, KeyboardNumbers
    DEF Places, Threaded, Configured, Steps, StopSteps, LastSteps, PointSteps, StopKey, StopSet,
        Key
<1>5. Rested'
  BY <1>1, <1>2, KeyboardNumbers DEF Rested, Sending, Places, Threaded, StopKey, StopSet, Key
<1>6. Pointed'
  BY <1>1, <1>2, KeyboardNumbers
    DEF Pointed, HasPoint, NoCrash, Rested, Sending, Places, Threaded, TypeInv, Velocities, Null,
        StopKey, StopSet, Key
<1>7. Framed'
  BY <1>1, <1>2, KeyboardNumbers
    DEF Framed, FramesAgree, Rested, Sending, Places, Configured, Threaded, TypeInv, StopKey,
        StopSet,
        Key
<1>8. Moded'
  BY <1>1, <1>2, KeyboardNumbers DEF Moded, StopSteps, LastSteps, StopKey, StopSet, Key
<1>9. Stopped'
  BY <1>1, <1>2, KeyboardNumbers
    DEF Stopped, Halted, StillTool, Undisturbed, Configured, Threaded, Moded, Places, TypeInv,
        StopKey, StopSet, Key
<1>10. JointsStopped'
  BY <1>1, <1>2, KeyboardNumbers
    DEF JointsStopped, Undisturbed, Places, TypeInv, StopKey, StopSet, Key
<1>11. Alone'
  BY <1>1, <1>2, KeyboardNumbers
    DEF Alone, StillTool, Undisturbed, Stopped, Moded, Places, TypeInv, Configured, StopKey,
        StopSet, Key
<1>12. Displayed'
  BY <1>1, <1>2, KeyboardNumbers
    DEF Displayed, Shown, Sent, Told, Undisturbed, Moded, Stopped, Places, TypeInv, Configured,
        Halted, StillTool, StopKey, StopSet, Key
<1>13. Quiet'
  BY <1>1, <1>2, KeyboardNumbers
    DEF Quiet, Resting, Sending, Undisturbed, Configured, Threaded, Moded, Stopped, Halted,
        StillTool, StopSteps, Places, TypeInv, StopKey, StopSet, Key
<1>14. QED  BY <1>3, <1>4, <1>5, <1>6, <1>7, <1>8, <1>9, <1>10, <1>11, <1>12, <1>13

\* The end, from the keyboard.
LEMMA EscapeKeyStep == IInv /\ EscapeKey => IInv'
<1> SUFFICES ASSUME IInv, EscapeKey PROVE IInv'
  OBVIOUS
<1> USE DEF IInv
<1>1. todo = <<>> /\ Ahead = {} /\ phase = "running"
  BY Idle DEF EscapeKey, Key
<1>2. Script(todo)' /\ Ahead' = StopSet
  BY StopScript DEF EscapeKey, Key, Ahead
<1>3. TypeInv'
  BY <1>1, <1>2, KeyboardNumbers
    DEF TypeInv, Velocities, Null, Frames, NoTarget, EscapeKey, StopSet, Key
<1>4. Places'
  BY <1>1, <1>2, KeyboardNumbers
    DEF Places, Threaded, Configured, Steps, StopSteps, LastSteps, PointSteps, EscapeKey,
        StopSet, Key
<1>5. Rested'
  BY <1>1, <1>2, KeyboardNumbers DEF Rested, Sending, Places, Threaded, EscapeKey, StopSet, Key
<1>6. Pointed'
  BY <1>1, <1>2, KeyboardNumbers
    DEF Pointed, HasPoint, NoCrash, Rested, Sending, Places, Threaded, TypeInv, Velocities, Null,
        EscapeKey, StopSet, Key
<1>7. Framed'
  BY <1>1, <1>2, KeyboardNumbers
    DEF Framed, FramesAgree, Rested, Sending, Places, Configured, Threaded, TypeInv, EscapeKey,
        StopSet,
        Key
<1>8. Moded'
  BY <1>1, <1>2, KeyboardNumbers DEF Moded, StopSteps, LastSteps, EscapeKey, StopSet, Key
<1>9. Stopped'
  BY <1>1, <1>2, KeyboardNumbers
    DEF Stopped, Halted, StillTool, Undisturbed, Configured, Threaded, Moded, Places, TypeInv,
        EscapeKey, StopSet, Key
<1>10. JointsStopped'
  BY <1>1, <1>2, KeyboardNumbers
    DEF JointsStopped, Undisturbed, Places, TypeInv, EscapeKey, StopSet, Key
<1>11. Alone'
  BY <1>1, <1>2, KeyboardNumbers
    DEF Alone, StillTool, Undisturbed, Stopped, Moded, Places, TypeInv, Configured, EscapeKey,
        StopSet, Key
<1>12. Displayed'
  BY <1>1, <1>2, KeyboardNumbers
    DEF Displayed, Shown, Sent, Told, Undisturbed, Moded, Stopped, Places, TypeInv, Configured,
        Halted, StillTool, EscapeKey, StopSet, Key
<1>13. Quiet'
  BY <1>1, <1>2, KeyboardNumbers
    DEF Quiet, Resting, Sending, Undisturbed, Configured, Threaded, Moded, Stopped, Halted,
        StillTool, StopSteps, Places, TypeInv, EscapeKey, StopSet, Key
<1>14. QED  BY <1>3, <1>4, <1>5, <1>6, <1>7, <1>8, <1>9, <1>10, <1>11, <1>12, <1>13

\* A key of the gripper.
LEMMA ToolKeyStep == IInv /\ ToolKey => IInv'
<1> SUFFICES ASSUME IInv, ToolKey PROVE IInv'
  OBVIOUS
<1> USE DEF IInv
<1>1. todo = <<>> /\ Ahead = {} /\ phase = "running"
  BY Idle DEF ToolKey, Key
<1>2. Script(todo)' /\ Ahead' = IF Cart THEN {"act"} ELSE StopSet
  BY StopScript, Literal DEF ToolKey, Key, Ahead, Steps, LastSteps
<1>3. TypeInv'
  BY <1>1, <1>2, KeyboardNumbers
    DEF TypeInv, Velocities, Null, Frames, NoTarget, ToolKey, StopSet, Key
<1>4. Places'
  BY <1>1, <1>2, KeyboardNumbers
    DEF Places, Threaded, Configured, Steps, StopSteps, LastSteps, PointSteps, ToolKey, StopSet,
        Key
<1>5. Rested'
  BY <1>1, <1>2, KeyboardNumbers DEF Rested, Sending, Places, Threaded, ToolKey, StopSet, Key
<1>6. Pointed'
  BY <1>1, <1>2, KeyboardNumbers
    DEF Pointed, HasPoint, NoCrash, Rested, Sending, Places, Threaded, TypeInv, Velocities, Null,
        ToolKey, StopSet, Key
<1>7. Framed'
  BY <1>1, <1>2, KeyboardNumbers
    DEF Framed, FramesAgree, Rested, Sending, Places, Configured, Threaded, TypeInv, ToolKey,
        StopSet,
        Key
<1>8. Moded'
  BY <1>1, <1>2, KeyboardNumbers DEF Moded, StopSteps, LastSteps, ToolKey, StopSet, Key
<1>9. Stopped'
  BY <1>1, <1>2, KeyboardNumbers
    DEF Stopped, Halted, StillTool, Undisturbed, Configured, Threaded, Moded, Places, TypeInv,
        ToolKey, StopSet, Key
<1>10. JointsStopped'
  BY <1>1, <1>2, KeyboardNumbers
    DEF JointsStopped, Undisturbed, Places, TypeInv, ToolKey, StopSet, Key
<1>11. Alone'
  BY <1>1, <1>2, KeyboardNumbers
    DEF Alone, StillTool, Undisturbed, Stopped, Moded, Places, TypeInv, Configured, ToolKey,
        StopSet, Key
<1>12. Displayed'
  BY <1>1, <1>2, KeyboardNumbers
    DEF Displayed, Shown, Sent, Told, Undisturbed, Moded, Stopped, Places, TypeInv, Configured,
        Halted, StillTool, ToolKey, StopSet, Key
<1>13. Quiet'
  BY <1>1, <1>2, KeyboardNumbers
    DEF Quiet, Resting, Sending, Undisturbed, Configured, Threaded, Moded, Stopped, Halted,
        StillTool, StopSteps, Places, TypeInv, ToolKey, StopSet, Key
<1>14. QED  BY <1>3, <1>4, <1>5, <1>6, <1>7, <1>8, <1>9, <1>10, <1>11, <1>12, <1>13

\* A key that toggles the frame.
LEMMA ToggleKeyStep == IInv /\ ToggleKey => IInv'
<1> SUFFICES ASSUME IInv, ToggleKey PROVE IInv'
  OBVIOUS
<1> USE DEF IInv
<1>1. todo = <<>> /\ Ahead = {} /\ phase = "running"
  BY Idle DEF ToggleKey, Key
<1>2. Script(todo)' /\ Ahead' = StopSet \union (IF Cart THEN {"setFrame"} ELSE {})
  <2>1. Script(<<"setFrame">>) /\ In(<<"setFrame">>) = {"setFrame"}
    BY Literal DEF Steps, LastSteps
  <2>2. QED  BY <2>1, AfterStop, InEmpty DEF ToggleKey, Key, Ahead
<1>3. TypeInv'
  BY <1>1, <1>2, KeyboardNumbers
    DEF TypeInv, Velocities, Null, Frames, NoTarget, ToggleKey, StopSet, Key
<1>4. Places'
  BY <1>1, <1>2, KeyboardNumbers
    DEF Places, Threaded, Configured, Steps, StopSteps, LastSteps, PointSteps, ToggleKey,
        StopSet, Key
<1>5. Rested'
  BY <1>1, <1>2, KeyboardNumbers DEF Rested, Sending, Places, Threaded, ToggleKey, StopSet, Key
<1>6. Pointed'
  BY <1>1, <1>2, KeyboardNumbers
    DEF Pointed, HasPoint, NoCrash, Rested, Sending, Places, Threaded, TypeInv, Velocities, Null,
        ToggleKey, StopSet, Key
<1>7. Framed'
  BY <1>1, <1>2, KeyboardNumbers
    DEF Framed, FramesAgree, Rested, Sending, Places, Configured, Threaded, TypeInv, ToggleKey,
        StopSet,
        Key
<1>8. Moded'
  BY <1>1, <1>2, KeyboardNumbers DEF Moded, StopSteps, LastSteps, ToggleKey, StopSet, Key
<1>9. Stopped'
  BY <1>1, <1>2, KeyboardNumbers
    DEF Stopped, Halted, StillTool, Undisturbed, Configured, Threaded, Moded, Places, TypeInv,
        ToggleKey, StopSet, Key
<1>10. JointsStopped'
  BY <1>1, <1>2, KeyboardNumbers
    DEF JointsStopped, Undisturbed, Places, TypeInv, ToggleKey, StopSet, Key
<1>11. Alone'
  BY <1>1, <1>2, KeyboardNumbers
    DEF Alone, StillTool, Undisturbed, Stopped, Moded, Places, TypeInv, Configured, ToggleKey,
        StopSet, Key
<1>12. Displayed'
  BY <1>1, <1>2, KeyboardNumbers
    DEF Displayed, Shown, Sent, Told, Undisturbed, Moded, Stopped, Places, TypeInv, Configured,
        Halted, StillTool, ToggleKey, StopSet, Key
<1>13. Quiet'
  BY <1>1, <1>2, KeyboardNumbers
    DEF Quiet, Resting, Sending, Undisturbed, Configured, Threaded, Moded, Stopped, Halted,
        StillTool, StopSteps, Places, TypeInv, ToggleKey, StopSet, Key
<1>14. QED  BY <1>3, <1>4, <1>5, <1>6, <1>7, <1>8, <1>9, <1>10, <1>11, <1>12, <1>13

\* A key of the tool: another mode is stopped first.
LEMMA CartesianKeyStep == IInv /\ CartesianKey => IInv'
<1> SUFFICES ASSUME IInv, CartesianKey PROVE IInv'
  OBVIOUS
<1> USE DEF IInv
<1>1. todo = <<>> /\ Ahead = {} /\ phase = "running"
  BY Idle DEF CartesianKey, Key
<1>2. /\ Script(todo)'
      /\ Ahead' = IF ~Cart THEN StopSet ELSE (IF controlMode = "joint" THEN StopSet ELSE {}) \union {"adjust"}
  <2>1. Script(<<"adjust">>) /\ In(<<"adjust">>) = {"adjust"} /\ <<>> \o <<"adjust">> = <<"adjust">>
    BY Literal DEF Steps, LastSteps
  <2>2. QED  BY <2>1, AfterStop, StopScript DEF CartesianKey, Key, Ahead
<1>3. TypeInv'
  BY <1>1, <1>2, KeyboardNumbers
    DEF TypeInv, Velocities, Null, Frames, NoTarget, CartesianKey, StopSet, Key
<1>4. Places'
  BY <1>1, <1>2, KeyboardNumbers
    DEF Places, Threaded, Configured, Steps, StopSteps, LastSteps, PointSteps, CartesianKey,
        StopSet, Key
<1>5. Rested'
  BY <1>1, <1>2, KeyboardNumbers DEF Rested, Sending, Places, Threaded, CartesianKey, StopSet, Key
<1>6. Pointed'
  BY <1>1, <1>2, KeyboardNumbers
    DEF Pointed, HasPoint, NoCrash, Rested, Sending, Places, Threaded, TypeInv, Velocities, Null,
        CartesianKey, StopSet, Key
<1>7. Framed'
  BY <1>1, <1>2, KeyboardNumbers
    DEF Framed, FramesAgree, Rested, Sending, Places, Configured, Threaded, TypeInv, CartesianKey,
        StopSet, Key
<1>8. Moded'
  BY <1>1, <1>2, KeyboardNumbers DEF Moded, StopSteps, LastSteps, CartesianKey, StopSet, Key
<1>9. Stopped'
  BY <1>1, <1>2, KeyboardNumbers
    DEF Stopped, Halted, StillTool, Undisturbed, Configured, Threaded, Moded, Places, TypeInv,
        CartesianKey, StopSet, Key
<1>10. JointsStopped'
  BY <1>1, <1>2, KeyboardNumbers
    DEF JointsStopped, Undisturbed, Places, TypeInv, CartesianKey, StopSet, Key
<1>11. Alone'
  BY <1>1, <1>2, KeyboardNumbers
    DEF Alone, StillTool, Undisturbed, Stopped, Moded, Places, TypeInv, Configured,
        CartesianKey, StopSet, Key
<1>12. Displayed'
  BY <1>1, <1>2, KeyboardNumbers
    DEF Displayed, Shown, Sent, Told, Undisturbed, Moded, Stopped, Places, TypeInv, Configured,
        Halted, StillTool, CartesianKey, StopSet, Key
<1>13. Quiet'
  BY <1>1, <1>2, KeyboardNumbers
    DEF Quiet, Resting, Sending, Undisturbed, Configured, Threaded, Moded, Stopped, Halted,
        StillTool, StopSteps, Places, TypeInv, CartesianKey, StopSet, Key
<1>14. QED  BY <1>3, <1>4, <1>5, <1>6, <1>7, <1>8, <1>9, <1>10, <1>11, <1>12, <1>13

\* A key of a joint: another mode is stopped first.
LEMMA JointKeyStep == IInv /\ JointKey => IInv'
<1> SUFFICES ASSUME IInv, JointKey PROVE IInv'
  OBVIOUS
<1> USE DEF IInv
<1>1. todo = <<>> /\ Ahead = {} /\ phase = "running"
  BY Idle DEF JointKey, Key
<1>2. /\ Script(todo)'
      /\ \/ Ahead' = StopSet
         \/ controlMode = "cartesian" /\ Ahead' = StopSet \union {"velocityMode", "velocityMove"}
         \/ controlMode # "cartesian" /\ Ahead' = {"velocityMode", "velocityMove"}
  <2> DEFINE m == <<"velocityMode", "velocityMove">>
  <2>1. Script(m) /\ In(m) = {"velocityMode", "velocityMove"} /\ <<>> \o m = m
    BY Pair DEF Steps, LastSteps, Then
  <2>2. <<>> \o Stop = Stop
    BY StopScript DEF Script
  <2>3. /\ Script(Stop \o m) /\ In(Stop \o m) = StopSet \union {"velocityMode", "velocityMove"}
        /\ Script(Stop \o Stop) /\ In(Stop \o Stop) = StopSet
    BY <2>1, AfterStop, StopScript
  <2> HIDE DEF m
  <2>4. todo' \in {Stop, Stop \o Stop} \/ (controlMode = "cartesian" /\ todo' = Stop \o m)
        \/ (controlMode # "cartesian" /\ todo' = m)
    BY <2>1, <2>2 DEF JointKey, Key, m
  <2>5. QED  BY <2>1, <2>3, <2>4, StopScript DEF Ahead
<1>3. TypeInv'
  BY <1>1, <1>2, KeyboardNumbers
    DEF TypeInv, Velocities, Null, Frames, NoTarget, JointKey, StopSet, Key
<1>4. Places'
  BY <1>1, <1>2, KeyboardNumbers
    DEF Places, Threaded, Configured, Steps, StopSteps, LastSteps, PointSteps, JointKey,
        StopSet, Key
<1>5. Rested'
  BY <1>1, <1>2, KeyboardNumbers DEF Rested, Sending, Places, Threaded, JointKey, StopSet, Key
<1>6. Pointed'
  BY <1>1, <1>2, KeyboardNumbers
    DEF Pointed, HasPoint, NoCrash, Rested, Sending, Places, Threaded, TypeInv, Velocities, Null,
        JointKey, StopSet, Key
<1>7. Framed'
  BY <1>1, <1>2, KeyboardNumbers
    DEF Framed, FramesAgree, Rested, Sending, Places, Configured, Threaded, TypeInv, JointKey,
        StopSet,
        Key
<1>8. Moded'
  BY <1>1, <1>2, KeyboardNumbers DEF Moded, StopSteps, LastSteps, JointKey, StopSet, Key
<1>9. Stopped'
  BY <1>1, <1>2, KeyboardNumbers
    DEF Stopped, Halted, StillTool, Undisturbed, Configured, Threaded, Moded, Places, TypeInv,
        JointKey, StopSet, Key
<1>10. JointsStopped'
  BY <1>1, <1>2, KeyboardNumbers
    DEF JointsStopped, Undisturbed, Places, TypeInv, JointKey, StopSet, Key
<1>11. Alone'
  BY <1>1, <1>2, KeyboardNumbers
    DEF Alone, StillTool, Undisturbed, Stopped, Moded, Places, TypeInv, Configured, JointKey,
        StopSet, Key
<1>12. Displayed'
  BY <1>1, <1>2, KeyboardNumbers
    DEF Displayed, Shown, Sent, Told, Undisturbed, Moded, Stopped, Places, TypeInv, Configured,
        Halted, StillTool, JointKey, StopSet, Key
<1>13. Quiet'
  BY <1>1, <1>2, KeyboardNumbers
    DEF Quiet, Resting, Sending, Undisturbed, Configured, Threaded, Moded, Stopped, Halted,
        StillTool, StopSteps, Places, TypeInv, JointKey, StopSet, Key
<1>14. QED  BY <1>3, <1>4, <1>5, <1>6, <1>7, <1>8, <1>9, <1>10, <1>11, <1>12, <1>13

\* The end, from outside: it may interrupt a key.
LEMMA SignalStep == IInv /\ Signal => IInv'
<1> SUFFICES ASSUME IInv, Signal PROVE IInv'
  OBVIOUS
<1> USE DEF IInv
<1>1. Script(todo)' /\ Ahead' = StopSet \union Ahead
  BY AfterStop DEF Signal, Ahead, Places
<1>2. (interrupted' <=> todo # <<>>) /\ (todo = <<>> => Ahead = {})
  BY Idle DEF Signal
<1>3. /\ "actuator" \in Ahead => "suspend" \in Ahead \/ "stopControl" \in Ahead
      /\ "suspend" \in Ahead => "cartesian" \in Ahead \/ "stopControl" \in Ahead
      /\ "stopControl" \in Ahead => "stopReply" \in Ahead
      /\ "stopReply" \in Ahead => "clear" \in Ahead
  BY Shape DEF Places, Ahead
<1>4. TypeInv'
  BY <1>1, <1>2, <1>3, KeyboardNumbers
    DEF TypeInv, Velocities, Null, Frames, NoTarget, Signal, StopSet
<1>5. Places'
  BY <1>1, <1>2, <1>3, KeyboardNumbers
    DEF Places, Threaded, Configured, Steps, StopSteps, LastSteps, PointSteps, Signal, StopSet
<1>6. Rested'
  BY <1>1, <1>2, <1>3, KeyboardNumbers DEF Rested, Sending, Places, Threaded, Signal, StopSet
<1>7. Pointed'
  BY <1>1, <1>2, <1>3, KeyboardNumbers
    DEF Pointed, HasPoint, NoCrash, Rested, Sending, Places, Threaded, TypeInv, Velocities,
        Null, Signal,
        StopSet
<1>8. Framed'
  BY <1>1, <1>2, <1>3, KeyboardNumbers
    DEF Framed, FramesAgree, Rested, Sending, Places, Configured, Threaded, TypeInv, Signal,
        StopSet
<1>9. Moded'
  BY <1>1, <1>2, <1>3, KeyboardNumbers DEF Moded, StopSteps, LastSteps, Signal, StopSet
<1>10. Stopped'
  BY <1>1, <1>2, <1>3, KeyboardNumbers
    DEF Stopped, Halted, StillTool, Undisturbed, Configured, Threaded, Moded, Places, TypeInv,
        Signal, StopSet
<1>11. JointsStopped'
  BY <1>1, <1>2, <1>3, KeyboardNumbers
    DEF JointsStopped, Undisturbed, Places, TypeInv, Signal, StopSet
<1>12. Alone'
  BY <1>1, <1>2, <1>3, KeyboardNumbers
    DEF Alone, StillTool, Undisturbed, Stopped, Moded, Places, TypeInv, Configured, Signal,
        StopSet
<1>13. Displayed'
  BY <1>1, <1>2, <1>3, KeyboardNumbers
    DEF Displayed, Shown, Sent, Told, Undisturbed, Moded, Stopped, Places, TypeInv, Configured,
        Halted, StillTool, Signal, StopSet
<1>14. Quiet'
  BY <1>1, <1>2, <1>3, KeyboardNumbers
    DEF Quiet, Resting, Sending, Undisturbed, Configured, Threaded, Moded, Stopped, Halted,
        StillTool, StopSteps, Places, TypeInv, Signal, StopSet
<1>15. QED  BY <1>4, <1>5, <1>6, <1>7, <1>8, <1>9, <1>10, <1>11, <1>12, <1>13, <1>14

\* The joint is put in velocity mode, or the robot stops.
LEMMA VelocityModeStep == IInv /\ VelocityMode => IInv'
<1> SUFFICES ASSUME IInv, VelocityMode PROVE IInv'
  OBVIOUS
<1> USE DEF IInv
<1>1. /\ Ahead = {"velocityMode", "velocityMove"} /\ Tail(Tail(todo)) = <<>> /\ todo # <<>>
      /\ phase \in {"running", "stopping"}
  BY TailScript, VelocityModeHead DEF VelocityMode, Next1, Ahead, Places
<1>2. /\ Script(todo)'
      /\ Ahead' = {"velocityMove"} \/ (Ahead' = StopSet /\ Fails)
  <2>1. CASE Done
    BY <2>1, <1>1, TailScript, VelocityModeHead DEF VelocityMode, Next1, Done, Ahead, Places
  <2>2. CASE todo' = Stop \o Tail(Tail(todo)) /\ Fails
    BY <2>2, <1>1, AfterStop, InEmpty DEF Ahead
  <2>3. QED  BY <2>1, <2>2 DEF VelocityMode
<1>3. faults' \in 0..MaxFaults /\ (faults' = MaxFaults => faults = MaxFaults /\ ~Fails)
  BY Faulty DEF VelocityMode
<1>4. TypeInv'
  BY <1>1, <1>2, <1>3, KeyboardNumbers
    DEF TypeInv, Velocities, Null, Frames, NoTarget, VelocityMode, StopSet, Board
<1>5. Places'
  BY <1>1, <1>2, <1>3, KeyboardNumbers
    DEF Places, Threaded, Configured, Steps, StopSteps, LastSteps, PointSteps, VelocityMode,
        StopSet, Board
<1>6. Rested'
  BY <1>1, <1>2, <1>3, KeyboardNumbers
    DEF Rested, Sending, Places, Threaded, VelocityMode, StopSet, Board
<1>7. Pointed'
  BY <1>1, <1>2, <1>3, KeyboardNumbers
    DEF Pointed, HasPoint, NoCrash, Rested, Sending, Places, Threaded, TypeInv, Velocities, Null,
        VelocityMode, StopSet, Board
<1>8. Framed'
  BY <1>1, <1>2, <1>3, KeyboardNumbers
    DEF Framed, FramesAgree, Rested, Sending, Places, Configured, Threaded, TypeInv, VelocityMode,
        StopSet, Board
<1>9. Moded'
  BY <1>1, <1>2, <1>3, KeyboardNumbers
    DEF Moded, StopSteps, LastSteps, VelocityMode, StopSet, Board
<1>10. Stopped'
  BY <1>1, <1>2, <1>3, KeyboardNumbers
    DEF Stopped, Halted, StillTool, Undisturbed, Configured, Threaded, Moded, Places, TypeInv,
        VelocityMode, StopSet, Board
<1>11. JointsStopped'
  BY <1>1, <1>2, <1>3, KeyboardNumbers
    DEF JointsStopped, Undisturbed, Places, TypeInv, VelocityMode, StopSet, Board
<1>12. Alone'
  BY <1>1, <1>2, <1>3, KeyboardNumbers
    DEF Alone, StillTool, Undisturbed, Stopped, Moded, Places, TypeInv, Configured,
        VelocityMode, StopSet, Board
<1>13. Displayed'
  BY <1>1, <1>2, <1>3, KeyboardNumbers
    DEF Displayed, Shown, Sent, Told, Undisturbed, Moded, Stopped, Places, TypeInv, Configured,
        Halted, StillTool, VelocityMode, StopSet, Board
<1>14. Quiet'
  BY <1>1, <1>2, <1>3, KeyboardNumbers
    DEF Quiet, Resting, Sending, Undisturbed, Configured, Threaded, Moded, Stopped, Halted,
        StillTool, StopSteps, Places, TypeInv, VelocityMode, StopSet, Board
<1>15. QED  BY <1>4, <1>5, <1>6, <1>7, <1>8, <1>9, <1>10, <1>11, <1>12, <1>13, <1>14

\* The joint moves at its velocity, or the robot stops.
LEMMA VelocityMoveStep == IInv /\ VelocityMove => IInv'
<1> SUFFICES ASSUME IInv, VelocityMove PROVE IInv'
  OBVIOUS
<1> USE DEF IInv
<1>1. /\ Ahead = {"velocityMove"} /\ Tail(todo) = <<>> /\ todo # <<>>
      /\ phase \in {"running", "stopping"}
  <2>1. Script(todo) /\ Next1("velocityMove")
    BY DEF VelocityMove, Places
  <2>2. todo # <<>> /\ Head(todo) \in LastSteps /\ Head(todo) = "velocityMove"
    BY <2>1 DEF Next1, LastSteps
  <2>3. Tail(todo) = <<>>
    BY <2>1, <2>2, LastHead
  <2>5. In(todo) = {Head(todo)} \union In(Tail(todo))
    BY <2>1, <2>2, TailScript
  <2>4. QED  BY <2>2, <2>3, <2>5, InEmpty DEF Ahead, Places
<1>2. /\ Script(todo)'
      /\ \/ Ahead' = {} /\ controlMode' = "joint"
         \/ Ahead' = StopSet /\ controlMode' = controlMode /\ joints' = joints /\ Fails
  <2>1. CASE Done /\ controlMode' = "joint"
    BY <2>1, <1>1, InEmpty DEF Done, Ahead
  <2>2. CASE todo' = Stop \o Tail(todo) /\ Fails /\ UNCHANGED <<joints, controlMode>>
    BY <2>2, <1>1, AfterStop, InEmpty DEF Ahead
  <2>3. QED  BY <2>1, <2>2 DEF VelocityMove
<1>3. faults' \in 0..MaxFaults /\ (faults' = MaxFaults => faults = MaxFaults /\ ~Fails)
  BY Faulty DEF VelocityMove
<1>4. jointVels' \in Int
  BY DEF VelocityMove, Clamp, JointLimit, TypeInv
<1>5. TypeInv'
  <2>1. controlMode' \in {"none", "joint", "cartesian"} /\ joints' \in Int
    BY <1>1, <1>2, <1>3, <1>4, KeyboardNumbers DEF VelocityMove, TypeInv
  <2>2. QED  BY <1>1, <1>2, <1>3, <1>4, KeyboardNumbers, <2>1 DEF TypeInv, VelocityMove
<1>6. Places'
  BY <1>1, <1>2, <1>3, <1>4, KeyboardNumbers
    DEF Places, Threaded, Configured, Steps, StopSteps, LastSteps, PointSteps, VelocityMove,
        StopSet
<1>7. Rested'
  BY <1>1, <1>2, <1>3, <1>4, KeyboardNumbers DEF Rested, Sending, Places, Threaded,
    VelocityMove, StopSet
<1>8. Pointed'
  BY <1>1, <1>2, <1>3, <1>4, KeyboardNumbers
    DEF Pointed, HasPoint, NoCrash, Rested, Sending, Places, Threaded, TypeInv, Velocities, Null,
        VelocityMove, StopSet
<1>9. Framed'
  BY <1>1, <1>2, <1>3, <1>4, KeyboardNumbers
    DEF Framed, FramesAgree, Rested, Sending, Places, Configured, Threaded, TypeInv, VelocityMove,
        StopSet
<1>10. Moded'
  BY <1>1, <1>2, <1>3, <1>4, KeyboardNumbers
    DEF Moded, StopSteps, LastSteps, VelocityMove, StopSet
<1>11. Stopped'
  <2>1. Undisturbed' => Undisturbed /\ phase' = "running" /\ Ahead' = {} /\ controlMode' = "joint"
    BY <1>1, <1>2, <1>3, <1>4, KeyboardNumbers
      DEF Undisturbed, VelocityMove, Moded, StopSteps, TypeInv
  <2>2. UNCHANGED <<devices, phase, usingThread, robot, control, preset, frame, speed, target>>
    BY DEF VelocityMove
  <2>3. QED
    BY <1>1, <1>2, <1>3, <1>4, KeyboardNumbers, <2>1, <2>2 DEF Stopped, Halted, StillTool,
       Configured, Threaded
<1>12. JointsStopped'
  <2>1. Undisturbed' => Undisturbed /\ phase' = "running" /\ Ahead' = {} /\ controlMode' = "joint"
    BY <1>1, <1>2, <1>3, <1>4, KeyboardNumbers
      DEF Undisturbed, VelocityMove, Moded, StopSteps, TypeInv
  <2>2. devices' = devices
    BY DEF VelocityMove
  <2>3. QED  BY <1>1, <1>2, <1>3, <1>4, KeyboardNumbers, <2>1, <2>2 DEF JointsStopped
<1>13. Alone'
  BY <1>1, <1>2, <1>3, <1>4, KeyboardNumbers
    DEF Alone, StillTool, Undisturbed, Stopped, Moded, Places, TypeInv, Configured,
        VelocityMove, StopSet
<1>14. Displayed'
  BY <1>1, <1>2, <1>3, <1>4, KeyboardNumbers
    DEF Displayed, Shown, Sent, Told, Undisturbed, Moded, Stopped, Places, TypeInv, Configured,
        Halted, StillTool, VelocityMove, StopSet
<1>15. Quiet'
  BY <1>1, <1>2, <1>3, <1>4, KeyboardNumbers
    DEF Quiet, Resting, Sending, Undisturbed, Configured, Threaded, Moded, Stopped, Halted,
        StillTool, StopSteps, Places, TypeInv, VelocityMove, StopSet
<1>16. QED  BY <1>5, <1>6, <1>7, <1>8, <1>9, <1>10, <1>11, <1>12, <1>13, <1>14, <1>15

\* The velocity on display is clamped: adjust becomes other steps.
LEMMA AdjustStep == IInv /\ Adjust => IInv'
<1> SUFFICES ASSUME IInv, Adjust PROVE IInv'
  OBVIOUS
<1> USE DEF IInv
<1>1. /\ Ahead = {"adjust"} /\ Tail(todo) = <<>> /\ todo # <<>>
      /\ phase \in {"running", "stopping"}
  BY TailScript, LastHead, InEmpty DEF Adjust, Next1, Ahead, Places, LastSteps
<1>2. /\ Script(todo)' /\ Ahead' = AdjustmentSet(cartVels' = 0, usingThread)
  <2> DEFINE a == Adjustment(cartVels' = 0, usingThread)
  <2>1. Script(a) /\ In(a) = AdjustmentSet(cartVels' = 0, usingThread)
    BY AdjustmentScript
  <2>2. todo' = a \o Tail(todo)
    BY <1>1 DEF Adjust, Adjustment
  <2> HIDE DEF a
  <2>3. a \o <<>> = a
    BY <2>1 DEF Script
  <2>4. QED  BY <2>1, <2>2, <2>3, <1>1 DEF Ahead
<1>3. TypeInv'
  BY <1>1, <1>2, KeyboardNumbers
    DEF TypeInv, Velocities, Null, Frames, NoTarget, Adjust, AdjustmentSet
<1>4. Places'
  BY <1>1, <1>2, KeyboardNumbers
    DEF Places, Threaded, Configured, Steps, StopSteps, LastSteps, PointSteps, Adjust,
        AdjustmentSet
<1>5. Rested'
  BY <1>1, <1>2, KeyboardNumbers DEF Rested, Sending, Places, Threaded, Adjust, AdjustmentSet
<1>6. Pointed'
  BY <1>1, <1>2, KeyboardNumbers
    DEF Pointed, HasPoint, NoCrash, Rested, Sending, Places, Threaded, TypeInv, Velocities,
        Null, Adjust,
        AdjustmentSet
<1>7. Framed'
  BY <1>1, <1>2, KeyboardNumbers
    DEF Framed, FramesAgree, Rested, Sending, Places, Configured, Threaded, TypeInv, Adjust,
        AdjustmentSet
<1>8. Moded'
  BY <1>1, <1>2, KeyboardNumbers DEF Moded, StopSteps, LastSteps, Adjust, AdjustmentSet
<1>9. Stopped'
  BY <1>1, <1>2, KeyboardNumbers
    DEF Stopped, Halted, StillTool, Undisturbed, Configured, Threaded, Moded, Places, TypeInv,
        Adjust, AdjustmentSet
<1>10. JointsStopped'
  BY <1>1, <1>2, KeyboardNumbers
    DEF JointsStopped, Undisturbed, Places, TypeInv, Adjust, AdjustmentSet
<1>11. Alone'
  BY <1>1, <1>2, KeyboardNumbers
    DEF Alone, StillTool, Undisturbed, Stopped, Moded, Places, TypeInv, Configured, Adjust,
        AdjustmentSet
<1>12. Displayed'
  BY <1>1, <1>2, KeyboardNumbers
    DEF Displayed, Shown, Sent, Told, Undisturbed, Moded, Stopped, Places, TypeInv, Configured,
        Halted, StillTool, Adjust, AdjustmentSet
<1>13. Quiet'
  BY <1>1, <1>2, KeyboardNumbers
    DEF Quiet, Resting, Sending, Undisturbed, Configured, Threaded, Moded, Stopped, Halted,
        StillTool, StopSteps, Places, TypeInv, Adjust, AdjustmentSet
<1>14. QED  BY <1>3, <1>4, <1>5, <1>6, <1>7, <1>8, <1>9, <1>10, <1>11, <1>12, <1>13

\* The controller is put in streaming mode, or the key is given up.
LEMMA PresetStep == IInv /\ Preset => IInv'
<1> SUFFICES ASSUME IInv, Preset PROVE IInv'
  OBVIOUS
<1> USE DEF IInv
<1>1. /\ Ahead = {"preset", "point", "resume", "cartesian"} /\ todo # <<>>
      /\ phase \in {"running", "stopping"}
  BY TailScript, PresetHead DEF Preset, Next1, Ahead, Places
<1>2. /\ Script(todo)'
      /\ \/ Ahead' = {"point", "resume", "cartesian"}
         \/ Ahead' = {} /\ robot = "basic" /\ (control # "none" \/ Fails)
  <2>1. CASE Done
    BY <2>1, <1>1, TailScript, PresetHead DEF Preset, Next1, Done, Ahead, Places
  <2>2. CASE GiveUp /\ robot # "amor" /\ (control # "none" \/ Fails)
    BY <2>2, <1>1, PresetHead, InEmpty DEF Preset, Next1, GiveUp, Ahead, Places, TypeInv
  <2>3. QED  BY <2>1, <2>2 DEF Preset
<1>3. preset' \in BOOLEAN /\ (robot = "amor" => preset' = preset)
  BY DEF Preset, TypeInv
<1>4. faults' \in 0..MaxFaults /\ (faults' = MaxFaults => faults = MaxFaults /\ ~Fails)
  BY Faulty DEF Preset
<1>5. /\ usingThread = "yes" /\ Cart
      /\ Undisturbed' => /\ Undisturbed /\ phase = "running" /\ controlMode # "joint"
                        /\ Ahead' = {"point", "resume", "cartesian"} /\ (robot = "basic" => control = "none")
  <2>1. usingThread = "yes" /\ Cart
    BY <1>1 DEF Places
  <2>2. Undisturbed' => Undisturbed /\ ~Fails
    BY <1>4 DEF Undisturbed, Preset
  <2>3. Undisturbed => phase = "running" /\ controlMode # "joint"
    BY <1>1 DEF Undisturbed, Moded, StopSteps
  <2>4. (Undisturbed /\ robot = "basic") => control = "none"
    BY <1>1, <2>1 DEF Stopped, Configured, Threaded
  <2>5. QED  BY <1>2, <2>1, <2>2, <2>3, <2>4
<1>6. TypeInv'
  BY <1>1, <1>2, <1>3, <1>4, <1>5, KeyboardNumbers DEF TypeInv, Preset
<1>7. Places'
  BY <1>1, <1>2, <1>3, <1>4, <1>5, KeyboardNumbers
    DEF Places, Threaded, Configured, Steps, StopSteps, LastSteps, PointSteps, Preset
<1>8. Rested'
  BY <1>1, <1>2, <1>3, <1>4, <1>5, KeyboardNumbers DEF Rested, Sending, Places, Threaded, Preset
<1>9. Pointed'
  BY <1>1, <1>2, <1>3, <1>4, <1>5, KeyboardNumbers
    DEF Pointed, HasPoint, NoCrash, Rested, Sending, Places, Threaded, TypeInv, Velocities,
        Null, Preset
<1>10. Framed'
  BY <1>1, <1>2, <1>3, <1>4, <1>5, KeyboardNumbers
    DEF Framed, FramesAgree, Rested, Sending, Places, Configured, Threaded, TypeInv, Preset
<1>11. Moded'
  BY <1>1, <1>2, <1>3, <1>4, <1>5, KeyboardNumbers DEF Moded, StopSteps, LastSteps, Preset
<1>12. Stopped'
  BY <1>1, <1>2, <1>3, <1>4, <1>5, KeyboardNumbers
    DEF Stopped, Halted, StillTool, Configured, Threaded, Preset
<1>13. JointsStopped'
  BY <1>1, <1>2, <1>3, <1>4, <1>5, KeyboardNumbers
    DEF JointsStopped, Undisturbed, Places, TypeInv, Preset
<1>14. Alone'
  BY <1>1, <1>2, <1>3, <1>4, <1>5, KeyboardNumbers
    DEF Alone, StillTool, Undisturbed, Stopped, Moded, Places, TypeInv, Configured, Preset
<1>15. Displayed'
  BY <1>1, <1>2, <1>3, <1>4, <1>5, KeyboardNumbers DEF Displayed, Shown, Sent, Told, Preset
<1>16. Quiet'
  BY <1>1, <1>2, <1>3, <1>4, <1>5, KeyboardNumbers
    DEF Quiet, Resting, Sending, Undisturbed, Configured, Threaded, Moded, Stopped, Halted,
        StillTool, StopSteps, Places, TypeInv, Preset
<1>17. QED  BY <1>6, <1>7, <1>8, <1>9, <1>10, <1>11, <1>12, <1>13, <1>14, <1>15, <1>16

\* The thread learns the new velocity.
LEMMA ConfigurePointsStep == IInv /\ ConfigurePoints => IInv'
<1> SUFFICES ASSUME IInv, ConfigurePoints PROVE IInv'
  OBVIOUS
<1> USE DEF IInv
<1>1. /\ Ahead = {"point", "resume", "cartesian"} /\ todo # <<>>
      /\ phase \in {"running", "stopping"}
  BY TailScript, PointsHead DEF ConfigurePoints, Next1, Ahead, Places
<1>2. /\ Script(todo)'
      /\ \/ Ahead' = {"resume", "cartesian"} /\ Done /\ IF tcp THEN deltaX' = cartVels ELSE trajectory' = cartVels
         \/ Ahead' = {} /\ Fails /\ UNCHANGED <<deltaX, trajectory>>
  <2>1. CASE Done /\ IF tcp THEN deltaX' = cartVels ELSE trajectory' = cartVels
    BY <2>1, <1>1, TailScript, PointsHead DEF ConfigurePoints, Next1, Done, Ahead, Places
  <2>2. CASE todo' = Tail(Tail(Tail(todo))) /\ Fails /\ UNCHANGED <<deltaX, trajectory>>
    BY <2>2, <1>1, PointsHead, InEmpty DEF ConfigurePoints, Next1, Ahead, Places
  <2>3. QED  BY <2>1, <2>2 DEF ConfigurePoints
<1>3. deltaX' \in Velocities /\ trajectory' \in Velocities \union {Null} /\ Null \notin Velocities /\ cartVels \in Velocities
  BY KeyboardNumbers DEF ConfigurePoints, TypeInv, Velocities, Null
<1>4. faults' \in 0..MaxFaults /\ (faults' = MaxFaults => faults = MaxFaults /\ ~Fails)
  BY Faulty DEF ConfigurePoints
<1>5. TypeInv'
  BY <1>1, <1>2, <1>3, <1>4, KeyboardNumbers DEF TypeInv, ConfigurePoints
<1>6. Places'
  BY <1>1, <1>2, <1>3, <1>4, KeyboardNumbers
    DEF Places, Threaded, Configured, Steps, StopSteps, LastSteps, PointSteps, ConfigurePoints
<1>7. Rested'
  BY <1>1, <1>2, <1>3, <1>4, KeyboardNumbers DEF Rested, Sending, Places, Threaded,
    ConfigurePoints
<1>8. Pointed'
  BY <1>1, <1>2, <1>3, <1>4, KeyboardNumbers
    DEF Pointed, HasPoint, NoCrash, Rested, Sending, Places, Threaded, TypeInv, Velocities, Null,
        ConfigurePoints
<1>9. Framed'
  BY <1>1, <1>2, <1>3, <1>4, KeyboardNumbers
    DEF Framed, FramesAgree, Rested, Sending, Places, Configured, Threaded, TypeInv,
        ConfigurePoints
<1>10. Moded'
  BY <1>1, <1>2, <1>3, <1>4, KeyboardNumbers DEF Moded, StopSteps, LastSteps, ConfigurePoints
<1>11. Stopped'
  BY <1>1, <1>2, <1>3, <1>4, KeyboardNumbers
    DEF Stopped, Halted, StillTool, Undisturbed, Configured, Threaded, Moded, Places, TypeInv,
        ConfigurePoints
<1>12. JointsStopped'
  BY <1>1, <1>2, <1>3, <1>4, KeyboardNumbers
    DEF JointsStopped, Undisturbed, Places, TypeInv, ConfigurePoints
<1>13. Alone'
  BY <1>1, <1>2, <1>3, <1>4, KeyboardNumbers
    DEF Alone, StillTool, Undisturbed, Stopped, Moded, Places, TypeInv, Configured,
        ConfigurePoints
<1>14. Displayed'
  BY <1>1, <1>2, <1>3, <1>4, KeyboardNumbers
    DEF Displayed, Shown, Sent, Told, Undisturbed, Moded, Stopped, Places, TypeInv, Configured,
        Halted, StillTool, ConfigurePoints
<1>15. Quiet'
  BY <1>1, <1>2, <1>3, <1>4, KeyboardNumbers
    DEF Quiet, Resting, Sending, Undisturbed, Configured, Threaded, Moded, Stopped, Halted,
        StillTool, StopSteps, Places, TypeInv, ConfigurePoints
<1>16. QED  BY <1>5, <1>6, <1>7, <1>8, <1>9, <1>10, <1>11, <1>12, <1>13, <1>14, <1>15

\* The reference frame of the controller is set, or the key is given up.
LEMMA SetFrameStep == IInv /\ SetFrame => IInv'
<1> SUFFICES ASSUME IInv, SetFrame PROVE IInv'
  OBVIOUS
<1> USE DEF IInv
<1>1. /\ Ahead = {"setFrame"} /\ Tail(todo) = <<>> /\ todo # <<>>
      /\ phase \in {"running", "stopping"}
  BY TailScript, LastHead, InEmpty DEF SetFrame, Next1, Ahead, Places, LastSteps
<1>2. /\ Script(todo)'
      /\ \/ /\ Ahead' = IF usingThread = "yes" THEN {"useTcpFrame"} ELSE {}
            /\ frame' \in Frames /\ cartFrame' = frame'
         \/ Ahead' = {} /\ UNCHANGED <<frame, cartFrame>>
  <2>1. CASE Done /\ UNCHANGED <<frame, cartFrame>>
    BY <2>1, <1>1, InEmpty DEF Done, Ahead
  <2>2. CASE /\ frame' = Other(cartFrame) /\ cartFrame' = frame'
             /\ todo' = (IF usingThread = "yes" THEN <<"useTcpFrame">> ELSE <<>>) \o Tail(todo)
    <3>1. Script(<<"useTcpFrame">>) /\ In(<<"useTcpFrame">>) = {"useTcpFrame"}
      BY Literal DEF Steps, LastSteps
    <3>2. <<"useTcpFrame">> \o <<>> = <<"useTcpFrame">> /\ <<>> \o <<>> = <<>>
      OBVIOUS
    <3>3. frame' \in Frames
      BY <2>2 DEF Other, Frames
    <3>4. QED  BY <2>2, <3>1, <3>2, <3>3, <1>1, InEmpty DEF Ahead
  <2>3. QED  BY <2>1, <2>2 DEF SetFrame
<1>3. faults' \in 0..MaxFaults /\ (faults' = MaxFaults => faults = MaxFaults /\ ~Fails)
  BY Faulty DEF SetFrame
<1>4. TypeInv'
  BY <1>1, <1>2, <1>3, KeyboardNumbers DEF TypeInv, SetFrame
<1>5. Places'
  BY <1>1, <1>2, <1>3, KeyboardNumbers
    DEF Places, Threaded, Configured, Steps, StopSteps, LastSteps, PointSteps, SetFrame
<1>6. Rested'
  BY <1>1, <1>2, <1>3, KeyboardNumbers DEF Rested, Sending, Places, Threaded, SetFrame
<1>7. Pointed'
  BY <1>1, <1>2, <1>3, KeyboardNumbers
    DEF Pointed, HasPoint, NoCrash, Rested, Sending, Places, Threaded, TypeInv, Velocities, Null,
        SetFrame
<1>8. Framed'
  BY <1>1, <1>2, <1>3, KeyboardNumbers
    DEF Framed, FramesAgree, Rested, Sending, Places, Configured, Threaded, TypeInv, SetFrame
<1>9. Moded'
  BY <1>1, <1>2, <1>3, KeyboardNumbers DEF Moded, StopSteps, LastSteps, SetFrame
<1>10. Stopped'
  BY <1>1, <1>2, <1>3, KeyboardNumbers
    DEF Stopped, Halted, StillTool, Undisturbed, Configured, Threaded, Moded, Places, TypeInv,
        SetFrame
<1>11. JointsStopped'
  BY <1>1, <1>2, <1>3, KeyboardNumbers DEF JointsStopped, Undisturbed, Places, TypeInv, SetFrame
<1>12. Alone'
  BY <1>1, <1>2, <1>3, KeyboardNumbers
    DEF Alone, StillTool, Undisturbed, Stopped, Moded, Places, TypeInv, Configured, SetFrame
<1>13. Displayed'
  BY <1>1, <1>2, <1>3, KeyboardNumbers
    DEF Displayed, Shown, Sent, Told, Undisturbed, Moded, Stopped, Places, TypeInv, Configured,
        Halted, StillTool, SetFrame
<1>14. Quiet'
  BY <1>1, <1>2, <1>3, KeyboardNumbers
    DEF Quiet, Resting, Sending, Undisturbed, Configured, Threaded, Moded, Stopped, Halted,
        StillTool, StopSteps, Places, TypeInv, SetFrame
<1>15. QED  BY <1>4, <1>5, <1>6, <1>7, <1>8, <1>9, <1>10, <1>11, <1>12, <1>13, <1>14

\* Configuration of the joints.
LEMMA ConfigureBoardStep == IInv /\ ConfigureBoard => IInv'
<1> SUFFICES ASSUME IInv, ConfigureBoard PROVE IInv'
  OBVIOUS
<1> USE DEF IInv
<1>1. /\ phase = "configure" /\ Script(todo)' /\ todo' = <<>> /\ Ahead = {} /\ Ahead' = {}
      /\ usingThread = "unset" /\ ~Cart' /\ controlMode = "none" /\ joints = 0 /\ ~crashed
  BY InEmpty DEF ConfigureBoard, Abort, Ahead, Places
<1>2. devices' \subseteq {"board", "asked", "cart"} /\ phase' \in {"configure", "failed"}
  BY DEF ConfigureBoard, Abort, TypeInv
<1>3. TypeInv'
  BY <1>1, <1>2, KeyboardNumbers DEF ConfigureBoard, TypeInv
<1>4. Places'
  BY <1>1, <1>2, KeyboardNumbers
    DEF Places, Threaded, Configured, Steps, StopSteps, LastSteps, PointSteps, ConfigureBoard
<1>5. Rested'
  BY <1>1, <1>2, KeyboardNumbers DEF Rested, Sending, Places, Threaded, ConfigureBoard
<1>6. Pointed'
  BY <1>1, <1>2, KeyboardNumbers
    DEF Pointed, HasPoint, NoCrash, Rested, Sending, Places, Threaded, TypeInv, Velocities, Null,
        ConfigureBoard
<1>7. Framed'
  BY <1>1, <1>2, KeyboardNumbers
    DEF Framed, FramesAgree, Rested, Sending, Places, Configured, Threaded, TypeInv,
        ConfigureBoard
<1>8. Moded'
  BY <1>1, <1>2, KeyboardNumbers DEF Moded, StopSteps, LastSteps, ConfigureBoard
<1>9. Stopped'
  BY <1>1, <1>2, KeyboardNumbers
    DEF Stopped, Halted, StillTool, Undisturbed, Configured, Threaded, Moded, Places, TypeInv,
        ConfigureBoard
<1>10. JointsStopped'
  BY <1>1, <1>2, KeyboardNumbers DEF JointsStopped, Undisturbed, Places, TypeInv, ConfigureBoard
<1>11. Alone'
  BY <1>1, <1>2, KeyboardNumbers
    DEF Alone, StillTool, Undisturbed, Stopped, Moded, Places, TypeInv, Configured,
        ConfigureBoard
<1>12. Displayed'
  BY <1>1, <1>2, KeyboardNumbers
    DEF Displayed, Shown, Sent, Told, Undisturbed, Moded, Stopped, Places, TypeInv, Configured,
        Halted, StillTool, ConfigureBoard
<1>13. Quiet'
  BY <1>1, <1>2, KeyboardNumbers
    DEF Quiet, Resting, Sending, Undisturbed, Configured, Threaded, Moded, Stopped, Halted,
        StillTool, StopSteps, Places, TypeInv, ConfigureBoard
<1>14. QED  BY <1>3, <1>4, <1>5, <1>6, <1>7, <1>8, <1>9, <1>10, <1>11, <1>12, <1>13

\* Configuration of the controller and the thread.
LEMMA ConfigureCartesianStep == IInv /\ ConfigureCartesian => IInv'
<1> SUFFICES ASSUME IInv, ConfigureCartesian PROVE IInv'
  OBVIOUS
<1> USE DEF IInv
<1>1. /\ phase = "configure" /\ Ahead = {} /\ usingThread = "unset" /\ ~Cart /\ thread = "none"
      /\ run = "idle"
      /\ controlMode = "none" /\ joints = 0 /\ ~crashed /\ ~interrupted
  BY InEmpty DEF ConfigureCartesian, Ahead, Places, Threaded
<1>2. /\ phase' \in {"running", "failed"} /\ devices' \subseteq {"board", "asked", "cart"}
      /\ usingThread' \in {"unset", "yes", "no"}
      /\ (phase' = "running" /\ Cart') => usingThread' # "unset" /\ cartFrame' = frame
      /\ cartFrame' \in Frames /\ tcp' \in BOOLEAN
      /\ ~Cart' => UNCHANGED <<usingThread, thread, tcp>>
  BY <1>1 DEF ConfigureCartesian, StartSuspended, TypeInv
<1>3. /\ thread' = IF phase' = "running" /\ Cart' /\ usingThread' = "yes" THEN "suspended" ELSE "none"
      /\ thread' = "suspended" => tcp' = (frame = "TCP")
  BY <1>1 DEF ConfigureCartesian, StartSuspended
<1>4. /\ Script(todo)' /\ (phase' = "failed" => todo' = <<>>)
      /\ Ahead' = IF phase' = "failed" THEN {} ELSE IF ~Cart' THEN {"boardStop", "clear"}
                   ELSE {"stopControl", "stopReply", "clear"} \union (IF usingThread' = "yes" THEN {"suspend"} ELSE {})
  <2>1. CASE phase' = "failed"
    BY <2>1, InEmpty DEF ConfigureCartesian, Ahead
  <2>2. CASE phase' = "running" /\ ~Cart'
    <3>1. Script(<<"boardStop", "clear">>) /\ In(<<"boardStop", "clear">>) = {"boardStop", "clear"}
      BY Pair DEF Steps, StopSteps, Then
    <3>2. todo' = <<"boardStop", "clear">>
      BY <2>2 DEF ConfigureCartesian
    <3>3. QED  BY <2>2, <3>1, <3>2 DEF Ahead
  <2>3. CASE phase' = "running" /\ Cart'
    <3>1. todo' = (IF usingThread' = "yes" THEN <<"suspend">> ELSE <<>>) \o StopReplyClear
      BY <2>3 DEF ConfigureCartesian, StopReplyClear
    <3>2. QED  BY <2>3, <3>1, Pausing DEF Ahead
  <2>4. QED  BY <2>1, <2>2, <2>3, <1>2
<1>5. TypeInv'
  <2>1. UNCHANGED <<controlMode, cartVels, jointVels, dir, grip, deltaX, trajectory, run, point, wire, robot,
                    control, preset, frame, speed, target, joints, faults, crashed, late, lost, interrupted>>
    BY DEF ConfigureCartesian
  <2>2. QED  BY <1>1, <1>2, <1>3, <1>4, KeyboardNumbers, <2>1 DEF TypeInv
<1>6. Places'
  <2>1. UNCHANGED <<controlMode, run, frame, joints, crashed, interrupted>>
    BY DEF ConfigureCartesian
  <2>2. QED  BY <1>1, <1>2, <1>3, <1>4, KeyboardNumbers, <2>1 DEF Places, Threaded, Configured
<1>7. Rested'
  BY <1>1, <1>2, <1>3, <1>4, KeyboardNumbers DEF Rested, Sending, Places, Threaded,
    ConfigureCartesian
<1>8. Pointed'
  <2>1. UNCHANGED <<run, crashed, late, trajectory>>
    BY DEF ConfigureCartesian
  <2>2. QED  BY <1>1, <1>2, <1>3, <1>4, KeyboardNumbers, <2>1 DEF Pointed, NoCrash
<1>9. Framed'
  <2>1. UNCHANGED <<run, point, wire, frame, target, late>>
    BY DEF ConfigureCartesian
  <2>2. QED  BY <1>1, <1>2, <1>3, <1>4, KeyboardNumbers, <2>1 DEF Framed, FramesAgree
<1>10. Moded'
  BY <1>1, <1>2, <1>3, <1>4, KeyboardNumbers DEF Moded, StopSteps, LastSteps, ConfigureCartesian
<1>11. Stopped'
  BY <1>1, <1>2, <1>3, <1>4, KeyboardNumbers
    DEF Stopped, Halted, StillTool, Undisturbed, Configured, Threaded, Moded, Places, TypeInv,
        ConfigureCartesian
<1>12. JointsStopped'
  BY <1>1, <1>2, <1>3, <1>4, KeyboardNumbers
    DEF JointsStopped, Undisturbed, Places, TypeInv, ConfigureCartesian
<1>13. Alone'
  BY <1>1, <1>2, <1>3, <1>4, KeyboardNumbers
    DEF Alone, StillTool, Undisturbed, Stopped, Moded, Places, TypeInv, Configured,
        ConfigureCartesian
<1>14. Displayed'
  BY <1>1, <1>2, <1>3, <1>4, KeyboardNumbers
    DEF Displayed, Shown, Sent, Told, Undisturbed, Moded, Stopped, Places, TypeInv, Configured,
        Halted, StillTool, ConfigureCartesian
<1>15. Quiet'
  BY <1>1, <1>2, <1>3, <1>4, KeyboardNumbers
    DEF Quiet, Resting, Sending, Undisturbed, Configured, Threaded, Moded, Stopped, Halted,
        StillTool, StopSteps, Places, TypeInv, ConfigureCartesian
<1>16. QED  BY <1>5, <1>6, <1>7, <1>8, <1>9, <1>10, <1>11, <1>12, <1>13, <1>14, <1>15

\* The program closes.
LEMMA CloseStep == IInv /\ Close => IInv'
<1> SUFFICES ASSUME IInv, Close PROVE IInv'
  OBVIOUS
<1> USE DEF IInv
<1>1. /\ Script(todo)' /\ Ahead = {} /\ Ahead' = {} /\ todo = <<>>
      /\ phase \in {"stopping", "failed"}
      /\ phase' = (IF phase = "stopping" THEN "closed" ELSE "aborted")
  BY Same, Idle DEF Close, Places
<1>2. /\ (thread' = "deleted" /\ Threaded /\ run = "idle" /\ crashed' = crashed)
         \/ (~Threaded /\ thread' = thread /\ (crashed' = crashed \/ (crashed' = TRUE /\ usingThread = "unset")))
  BY DEF Close, Threaded
<1>3. crashed' \in BOOLEAN
  BY <1>2 DEF TypeInv
<1>4. TypeInv'
  <2>1. UNCHANGED <<devices, usingThread, members, points, ticking, robot, remote, faults, late, lost,
                    interrupted>>
    BY DEF Close
  <2>2. QED  BY <1>1, <1>2, <1>3, KeyboardNumbers, <2>1 DEF TypeInv
<1>5. Places'
  BY <1>1, <1>2, <1>3, KeyboardNumbers
    DEF Places, Threaded, Configured, Steps, StopSteps, LastSteps, PointSteps, Close
<1>6. Rested'
  BY <1>1, <1>2, <1>3, KeyboardNumbers DEF Rested, Sending, Places, Threaded, Close
<1>7. Pointed'
  BY <1>1, <1>2, <1>3, KeyboardNumbers
    DEF Pointed, HasPoint, NoCrash, Rested, Sending, Places, Threaded, TypeInv, Velocities,
        Null, Close
<1>8. Framed'
  BY <1>1, <1>2, <1>3, KeyboardNumbers
    DEF Framed, FramesAgree, Rested, Sending, Places, Configured, Threaded, TypeInv, Close
<1>9. Moded'
  BY <1>1, <1>2, <1>3, KeyboardNumbers DEF Moded, StopSteps, LastSteps, Close
<1>10. Stopped'
  BY <1>1, <1>2, <1>3, KeyboardNumbers
    DEF Stopped, Halted, StillTool, Undisturbed, Configured, Threaded, Moded, Places, TypeInv,
        Close
<1>11. JointsStopped'
  BY <1>1, <1>2, <1>3, KeyboardNumbers DEF JointsStopped, Undisturbed, Places, TypeInv, Close
<1>12. Alone'
  BY <1>1, <1>2, <1>3, KeyboardNumbers
    DEF Alone, StillTool, Undisturbed, Stopped, Moded, Places, TypeInv, Configured, Close
<1>13. Displayed'
  BY <1>1, <1>2, <1>3, KeyboardNumbers
    DEF Displayed, Shown, Sent, Told, Undisturbed, Moded, Stopped, Places, TypeInv, Configured,
        Halted, StillTool, Close
<1>14. Quiet'
  BY <1>1, <1>2, <1>3, KeyboardNumbers
    DEF Quiet, Resting, Sending, Undisturbed, Configured, Threaded, Moded, Stopped, Halted,
        StillTool, StopSteps, Places, TypeInv, Close
<1>15. QED  BY <1>4, <1>5, <1>6, <1>7, <1>8, <1>9, <1>10, <1>11, <1>12, <1>13, <1>14

\* The invariant holds at start-up.
LEMMA Initially == Init => IInv
<1> SUFFICES ASSUME Init PROVE IInv
  OBVIOUS
<1>1. Script(todo) /\ Ahead = {}
  BY InEmpty DEF Init, Ahead
<1>2. TypeInv
  <2>1. 0 \in Velocities /\ cartFrame \in Frames
    BY KeyboardNumbers DEF Init, Velocities, Frames
  <2>2. faults \in 0..MaxFaults /\ speed \in Int /\ joints \in Int /\ control \in {"none", "movj", "movv"}
    BY KeyboardNumbers DEF Init
  <2>3. grip \in BOOLEAN /\ tcp \in BOOLEAN /\ point \in BOOLEAN /\ preset \in BOOLEAN
    BY DEF Init
  <2>4. QED  BY <2>1, <2>2, <2>3 DEF Init, TypeInv
<1>3. Places
  BY <1>1, KeyboardNumbers
    DEF Init, Places, Threaded, Configured, Steps, StopSteps, LastSteps, PointSteps
<1>4. Rested
  BY <1>1, KeyboardNumbers DEF Init, Rested, Sending, Places, Threaded
<1>5. Pointed
  BY <1>1, KeyboardNumbers
    DEF Init, Pointed, HasPoint, NoCrash, Rested, Sending, Places, Threaded, TypeInv,
        Velocities, Null
<1>6. Framed
  BY <1>1, KeyboardNumbers
    DEF Init, Framed, FramesAgree, Rested, Sending, Places, Configured, Threaded, TypeInv,
        NoTarget
<1>7. Moded
  BY <1>1, KeyboardNumbers DEF Init, Moded, StopSteps, LastSteps
<1>8. Stopped
  BY <1>1, KeyboardNumbers
    DEF Init, Stopped, Halted, StillTool, Undisturbed, Configured, Threaded, Moded, Places,
        TypeInv
<1>9. JointsStopped
  BY <1>1, KeyboardNumbers DEF Init, JointsStopped, Undisturbed, Places, TypeInv
<1>10. Alone
  BY <1>1, KeyboardNumbers
    DEF Init, Alone, StillTool, Undisturbed, Stopped, Moded, Places, TypeInv, Configured
<1>11. Displayed
  BY <1>1, KeyboardNumbers
    DEF Init, Displayed, Shown, Sent, Told, Undisturbed, Moded, Stopped, Places, TypeInv,
        Configured, Halted, StillTool
<1>12. Quiet
  BY <1>1, KeyboardNumbers DEF Init, Quiet, Resting, Configured
<1>13. QED
  BY <1>2, <1>3, <1>4, <1>5, <1>6, <1>7, <1>8, <1>9, <1>10, <1>11, <1>12 DEF IInv

\* Every step of the program, its thread, its user and the robot keeps the invariant.
LEMMA Preserved == IInv /\ [Next]_vars => IInv'
<1> SUFFICES ASSUME IInv, [Next]_vars PROVE IInv'
  OBVIOUS
<1>1. CASE Next
  BY <1>1, ConfigureBoardStep, ConfigureCartesianStep, CloseStep, SignalStep, JointKeyStep,
     CartesianKeyStep, ToggleKeyStep, ToolKeyStep, StopKeyStep, EscapeKeyStep, StopActuatorStep,
     SuspendStep, StopControlStep, StopReplyStep, BoardStopStep, ClearStep, VelocityModeStep,
     VelocityMoveStep, AdjustStep, CartesianModeStep, ZeroTwistStep, MovvStep, PresetStep,
     ConfigurePointsStep, ResumeStep, SetFrameStep, UseTcpFrameStep, ActuateToolStep,
     RunBeginStep, RunReadStep, RunSendStep, TakeMoviStep, TakeTwistStep, LoseStep, ArriveStep,
     AbandonStep
    DEF Next
<1>2. CASE UNCHANGED vars
  BY <1>2
    DEF vars, IInv, TypeInv, Places, Rested, Sending, Pointed, Framed, Moded, Stopped,
        JointsStopped,
        Alone, Displayed, Ahead, Threaded, Configured, HasPoint, NoCrash, FramesAgree,
        StillTool, Halted, Undisturbed, Shown, Sent, Told, Quiet, Resting
<1>3. QED  BY <1>1, <1>2

-----------------------------------------------------------------------------
\* The invariant holds in every reachable state.
THEOREM Inductive == Spec => []IInv
BY Initially, Preserved, PTL DEF Spec

\* Every variable of the program and of the robot keeps its type.
THEOREM KeyboardTypes == Spec => []TypeInv
<1>1. IInv => TypeInv
  BY DEF IInv
<1>2. QED  BY <1>1, Inductive, PTL

\* The thread never asks for a point before there is a trajectory, and close uses only
\* what configure assigned, unless an iteration outlasts a stop or configure ended early
\* (LinearTrajectoryThread::run, KeyboardController::close).
THEOREM NoCrashAlways == Spec => []NoCrash
<1>1. IInv => NoCrash
  BY DEF IInv, Pointed
<1>2. QED  BY <1>1, Inductive, PTL

\* Every point is executed in the frame it was computed for, unless an iteration outlasts
\* a stop: a change of frame finds the thread at rest (toggleReferenceFrame,
\* LinearTrajectoryThread::useTcpFrame).
THEOREM FramesAgreeAlways == Spec => []FramesAgree
<1>1. IInv => FramesAgree
  BY DEF IInv, Framed
<1>2. QED  BY <1>1, Inductive, PTL

\* Once a stop has been handled, the robot rests until the next key: joints and tool have
\* no velocity, and a movi of the thread is executed only by AmorCartesianControl, if the
\* iteration that sends it, the movi or the movement outlasted the stop (issueStop,
\* LinearTrajectoryThread::run).
THEOREM StoppedIsStillAlways == Spec => []StoppedIsStill
<1>1. IInv => StoppedIsStill
  BY Idle
    DEF IInv, StoppedIsStill, NoStray, Stopped, JointsStopped, Configured, Halted, StillTool,
        Quiet, Resting, TypeInv
<1>2. QED  BY <1>1, Inductive, PTL

\* Between keys the velocity on display is the one that the robot was told, and the thread
\* ticks exactly if there is one (incrementOrDecrementCartesianVelocity).  Without the
\* thread, a velocity back at zero is left out for BasicCartesianControl, and for
\* AmorCartesianControl while the final twist is on its way or if one was lost.
THEOREM ShownIsCommandedAlways == Spec => []ShownIsCommanded
<1>1. IInv => ShownIsCommanded
  BY Idle DEF IInv, ShownIsCommanded, Displayed, Places, Shown, Sent, Told, TypeInv
<1>2. QED  BY <1>1, Inductive, PTL

\* Joints never move while the tool has a velocity or follows a movi, but for a movi that
\* AmorCartesianControl executes because it outlasted the stop in between: a key of one
\* mode stops the other first.
THEOREM OneModeAlways == Spec => []OneMode
<1>1. IInv => OneMode
  <2>1. SUFFICES ASSUME IInv, joints # 0, Cart, Undisturbed
                 PROVE  speed = 0 /\ NoStray
    BY DEF OneMode
  <2>2. Configured
    BY <2>1 DEF IInv, Places
  <2>3. QED
    BY <2>1, <2>2 DEF IInv, NoStray, Alone, StillTool, Quiet, Resting, TypeInv
<1>2. QED  BY <1>1, Inductive, PTL

\* A program that was not cut short leaves no thread and no velocity behind, and no movi in
\* execution but one on AmorCartesianControl that outlasted a stop (interruptModule, close).
THEOREM ExitAtRestAlways == Spec => []ExitAtRest
<1>1. IInv => ExitAtRest
  BY Idle
    DEF IInv, ExitAtRest, NoStray, Places, Stopped, JointsStopped, Configured, Halted,
        StillTool, Threaded, TypeInv, Quiet, Resting
<1>2. QED  BY <1>1, Inductive, PTL

=============================================================================
