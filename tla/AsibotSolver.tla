----------------------------- MODULE AsibotSolver -----------------------------
(***************************************************************************)
(* The solver of the ASIBOT robot: forward and inverse kinematics in       *)
(* closed form, the choice among the four poses of the arm that reach a    *)
(* target, and the two Jacobians.                                          *)
(*                                                                         *)
(* Joints move in quarter turns, so that every sine is an integer, and     *)
(* lengths are in units of 0.1 m.  Targets are poses of the hand that the  *)
(* conversion to Euler angles represents: in front of the robot and        *)
(* pointing away from its axis.  Each operation is atomic: what it returns *)
(* when the tool changes half way is not modelled.                         *)
(***************************************************************************)
EXTENDS ScrewTheory

CONSTANTS AsibotLimits,   \* limits a configuration may give: <<qMin, qMax>>
          AsibotTools,    \* frames that may be appended
          HandPoses,      \* joint positions of the poses asked for
          Guesses         \* joint positions of the robot when asked

VARIABLES asibot,         \* [open, limits, hasFrame, frameTcp]
          reply           \* what the last call was given and returned

asibotVars == <<asibot, reply>>

(* DEFAULT_A0 and so on; the two arms are equally long. *)
A0 == 3
A1 == 4
A2 == 4
A3 == 3

ez == <<0, 0, 1>>
ey == <<0, 1, 0>>

Abs(n) == IF n < 0 THEN -n ELSE n

(* atan2, of points on the axes of the plane. *)
Atan2(y, x) == IF x # 0 \/ y = 0 THEN IF x < 0 THEN 2 ELSE 0 ELSE IF y < 0 THEN -1 ELSE 1

EulerZYZ(alpha, beta, gamma) == Compose(Compose(Rotation(ez, alpha), Rotation(ey, beta)), Rotation(ez, gamma))

(* The last two Euler angles; the third is zero when only its sum or       *)
(* difference with the first is known.                                     *)
DecodeEulerYZ(F) ==
    IF F.z[3] = 1 THEN <<0, 0>>
    ELSE IF F.z[3] = -1 THEN <<2, 0>>
    ELSE <<1, Atan2(F.y[3], -F.x[3])>>

---------------------------------------------------------------------------
(* Forward kinematics: how far the links from the i-th on reach forward    *)
(* and up.  The azimuth is that of the position, wherever joint 1 is.      *)

Forward(q, i) ==
    (IF i = 2 THEN A1 * Sin(q[2]) ELSE 0) + (IF i <= 3 THEN A2 * Sin(q[2] + q[3]) ELSE 0)
        + A3 * Sin(q[2] + q[3] + q[4])

Upward(q, i) ==
    (IF i = 2 THEN A1 * Cos(q[2]) ELSE 0) + (IF i <= 3 THEN A2 * Cos(q[2] + q[3]) ELSE 0)
        + A3 * Cos(q[2] + q[3] + q[4])

FwdKin(q) ==
    LET prP == Forward(q, 2)
        p == <<prP * Cos(q[1]), prP * Sin(q[1]), Upward(q, 2) + A0>>
        F == [EulerZYZ(Atan2(p[2], p[1]), q[2] + q[3] + q[4], q[5]) EXCEPT !.p = p]
    IN  IF asibot.hasFrame THEN Compose(F, asibot.frameTcp) ELSE F

---------------------------------------------------------------------------
(* The four poses of the arm. *)

NormalizeAngle(q) == IF q > 2 THEN q - 4 ELSE IF q <= -2 THEN q + 4 ELSE q

StoreAngles(q, orient, elb) == [q |-> [i \in 1 .. 5 |-> NormalizeAngle(q[i])], orient |-> orient, elb |-> elb]

CheckJointsInLimits(pose) == \A i \in 1 .. 5 : pose.q[i] \in asibot.limits[1][i] .. asibot.limits[2][i]

(* Of the four poses, those within limits. *)
Valid(all) == [i \in {k \in 1 .. 4 : CheckJointsInLimits(all[k])} |-> all[i]]

(* Mutant: the hand is not turned when joint 1 is. *)
ConfigureKeepingRoll(q1, q2u, q2d, q3, q4u, q4d, q5) ==
    Valid(<<StoreAngles(<<q1, q2u, q3, q4u, q5>>, "FORWARD", "UP"),
            StoreAngles(<<q1, q2d, -q3, q4d, q5>>, "FORWARD", "DOWN"),
            StoreAngles(<<q1 + 2, -q2u, -q3, -q4u, q5>>, "REVERSED", "UP"),
            StoreAngles(<<q1 + 2, -q2d, q3, -q4d, q5>>, "REVERSED", "DOWN")>>)

(* Elbow up or down, joint 1 forward or reversed. *)
Configure(q1, q2u, q2d, q3, q4u, q4d, q5) ==
    Valid(<<StoreAngles(<<q1, q2u, q3, q4u, q5>>, "FORWARD", "UP"),
            StoreAngles(<<q1, q2d, -q3, q4d, q5>>, "FORWARD", "DOWN"),
            StoreAngles(<<q1 + 2, -q2u, -q3, -q4u, q5 + 2>>, "REVERSED", "UP"),
            StoreAngles(<<q1 + 2, -q2d, q3, -q4d, q5 + 2>>, "REVERSED", "DOWN")>>)

GetDiffs(guess, pose) == [i \in 1 .. 5 |-> Abs(guess[i] - pose.q[i])]

Displacement(guess, pose) ==
    LET d == GetDiffs(guess, pose) IN d[1] + d[2] + d[3] + d[4] + d[5]

Travel(guess, pose) == GetDiffs(guess, pose)[2]

(* Of poses of equal displacement only the first counts: they share a key. *)
Keys(poses, guess) ==
    {i \in DOMAIN poses :
        \A j \in DOMAIN poses : j < i => Displacement(guess, poses[j]) # Displacement(guess, poses[i])}

LeastOf(keys, poses, guess) ==
    CHOOSE i \in keys : \A j \in keys : Displacement(guess, poses[i]) <= Displacement(guess, poses[j])

(* The pose of least displacement, or the second best if it is the other   *)
(* elbow of the same side and moves joint 2 less, or as much and is up.    *)
FindOptimalConfiguration(poses, guess) ==
    LET keys == Keys(poses, guess)
        first == LeastOf(keys, poses, guess)
        best == poses[first]
        next == poses[LeastOf(keys \ {first}, poses, guess)]
    IN  IF keys # {first} /\ next.orient = best.orient
           /\ (Travel(guess, next) < Travel(guess, best)
                \/ (Travel(guess, next) = Travel(guess, best) /\ next.elb = "UP"))
        THEN next ELSE best

(* Inverse kinematics of a pose in the base frame: the angles of the elbow *)
(* triangle, whose cosine at the elbow is 1 (stretched) or 0.              *)
Solve(x, guess) ==
    LET F    == IF asibot.hasFrame THEN Compose(x, Invert(asibot.frameTcp)) ELSE x
        yz   == DecodeEulerYZ(F)
        ozd  == Atan2(F.p[2], F.p[1])
        prPd == Abs(F.p[1]) + Abs(F.p[2])
        phPd == F.p[3] - A0
        prWd == prPd - A3 * Sin(yz[1])
        phWd == phPd - A3 * Cos(yz[1])
        len2 == phWd * phWd + prWd * prWd
        ct2  == (len2 - A1 * A1 - A2 * A2) \div (2 * A1 * A2)
        st2  == 1 - ct2
        t1(e) == Atan2(((A1 + A2 * ct2) * prWd - e * A2 * st2 * phWd) \div len2,
                       ((A1 + A2 * ct2) * phWd + e * A2 * st2 * prWd) \div len2)
        t2   == Atan2(st2, ct2)
        poses == Configure(ozd, t1(1), t1(-1), t2, yz[1] - t1(1) - t2, yz[1] - t1(-1) + t2, yz[2])
    IN  IF prPd * prPd + phPd * phPd > (A1 + A2 + A3) * (A1 + A2 + A3) \/ len2 > (A1 + A2) * (A1 + A2)
        THEN [kind |-> "out of reach"]
        ELSE IF DOMAIN poses = {} THEN [kind |-> "out of limits"]
        ELSE [kind |-> "joints", q |-> FindOptimalConfiguration(poses, guess).q, poses |-> poses]

---------------------------------------------------------------------------
(* The Jacobians, a column for each joint: linear and angular velocity.    *)

ComputeBaseFrameDiffInvKin(q) ==
    LET oy == q[2] + q[3] + q[4]
    IN  [i \in 1 .. 5 |->
            CASE i = 1 -> [v |-> <<-Sin(q[1]) * Forward(q, 2), Cos(q[1]) * Forward(q, 2), 0>>, w |-> ez]
              [] i = 5 -> [v |-> Zero, w |-> <<Cos(q[1]) * Sin(oy), Sin(q[1]) * Sin(oy), Cos(oy)>>]
              [] OTHER -> [v |-> <<Cos(q[1]) * Upward(q, i), Sin(q[1]) * Upward(q, i), -Forward(q, i)>>,
                           w |-> <<-Sin(q[1]), Cos(q[1]), 0>>]]

ComputeTcpFrameDiffInvKin(q) ==
    LET oy == q[2] + q[3] + q[4]
        far(i)  == A3 + (IF i <= 3 THEN A2 * Cos(q[4]) ELSE 0) + (IF i = 2 THEN A1 * Cos(q[3] + q[4]) ELSE 0)
        side(i) == (IF i <= 3 THEN A2 * Sin(q[4]) ELSE 0) + (IF i = 2 THEN A1 * Sin(q[3] + q[4]) ELSE 0)
    IN  [i \in 1 .. 5 |->
            CASE i = 1 -> [v |-> <<Sin(q[5]) * Forward(q, 2), Cos(q[5]) * Forward(q, 2), 0>>,
                           w |-> <<-Sin(oy) * Cos(q[5]), Sin(oy) * Sin(q[5]), Cos(oy)>>]
              [] i = 5 -> [v |-> Zero, w |-> ez]
              [] OTHER -> [v |-> <<Cos(q[5]) * far(i), -Sin(q[5]) * far(i), side(i)>>,
                           w |-> <<Sin(q[5]), Cos(q[5]), 0>>]]

(* Mutant: the velocity of the hand, whatever the tool. *)
JacobianOfHand(q, frame) ==
    IF frame = "BASE_FRAME" THEN ComputeBaseFrameDiffInvKin(q) ELSE ComputeTcpFrameDiffInvKin(q)

(* With a tool, the velocity of its tip; the offset is turned by the pose  *)
(* of the tip, in either frame.                                            *)
Jacobian(q, frame) ==
    LET J == IF frame = "BASE_FRAME" THEN ComputeBaseFrameDiffInvKin(q) ELSE ComputeTcpFrameDiffInvKin(q)
        offset == Turn(FwdKin(q), asibot.frameTcp.p)
    IN  IF asibot.hasFrame
        THEN [i \in 1 .. 5 |-> [J[i] EXCEPT !.v = Plus(@, Cross(J[i].w, offset))]]
        ELSE J

---------------------------------------------------------------------------
(* The robot itself. *)

Hand(q) ==
    LET H(axis, k, length) == Compose(Rotation(axis, k), Translate(Times(length, ez)))
    IN  Compose(Compose(Compose(Compose(H(ez, q[1], A0), H(ey, q[2], A1)), H(ey, q[3], A2)), H(ey, q[4], A3)),
                Rotation(ez, q[5]))

Tip(q) == Compose(Hand(q), asibot.frameTcp)

(* The axis of each joint and a point of it. *)
JointAxis(q, i) == CASE i = 1 -> ez
                     [] i = 5 -> Hand(q).z
                     [] OTHER -> Turn(Rotation(ez, q[1]), ey)

JointPoint(q, i) ==
    LET E == Rotation(ez, q[1])
    IN  CASE i = 1 -> Zero
          [] i = 2 -> <<0, 0, A0>>
          [] i = 3 -> Plus(<<0, 0, A0>>, Turn(E, <<A1 * Sin(q[2]), 0, A1 * Cos(q[2])>>))
          [] OTHER -> Minus(Hand(q).p, Times(A3, Hand(q).z))

---------------------------------------------------------------------------
(* What is asked for: the hand is in front of the robot and does not point *)
(* back at its axis, and the arm is not folded up.  The robot is in front  *)
(* of itself when it is asked.                                             *)
Posture(q) == (\A i \in 1 .. 5 : q[i] \in Int) /\ Forward(q, 2) > 0

ASSUME HandPosesAssumption ==
    \A q \in HandPoses : Posture(q) /\ Cos(q[3]) >= 0 /\ (q[2] + q[3] + q[4]) % 4 \in 0 .. 2
ASSUME GuessesAssumption == \A guess \in Guesses : Posture(guess)
ASSUME AsibotToolsAssumption == AsibotTools \subseteq Rigid

---------------------------------------------------------------------------
NoReply == [call |-> "none"]

AsibotClosed == [open |-> FALSE, limits |-> <<<<>>, <<>>>>, hasFrame |-> FALSE, frameTcp |-> Identity]

AsibotOff == asibot = AsibotClosed /\ reply = NoReply

(* Limits of the wrong size, or crossed, are refused. *)
AsibotOpen ==
    \E limits \in AsibotLimits :
        /\ ~asibot.open /\ reply = NoReply
        /\ IF Len(limits[1]) = 5 /\ Len(limits[2]) = 5 /\ \A i \in 1 .. 5 : limits[1][i] <= limits[2][i]
           THEN asibot' = [asibot EXCEPT !.open = TRUE, !.limits = limits]
           ELSE UNCHANGED asibot
        /\ reply' = [call |-> "open"]

AsibotAppendLink ==
    \E tool \in AsibotTools :
        /\ asibot.open /\ reply = NoReply /\ ~asibot.hasFrame   \* bound: one tool at a time
        /\ asibot' = [asibot EXCEPT !.hasFrame = TRUE, !.frameTcp = Compose(@, tool)]
        /\ reply' = [call |-> "appendLink"]

AsibotRestoreOriginalChain ==
    /\ asibot.hasFrame /\ reply = NoReply
    /\ asibot' = [asibot EXCEPT !.hasFrame = FALSE, !.frameTcp = Identity]
    /\ reply' = [call |-> "restoreOriginalChain"]

AsibotFwdKin ==
    \E q \in HandPoses :
        /\ asibot.open /\ reply = NoReply
        /\ reply' = [call |-> "fwdKin", q |-> q, x |-> FwdKin(q)]
        /\ UNCHANGED asibot

(* The pose the tool has at q, in the base frame or from where it is now.  *)
AsibotInvKin ==
    \E q \in HandPoses, guess \in Guesses, frame \in {"BASE_FRAME", "TCP_FRAME"} :
        LET xd == IF frame = "BASE_FRAME" THEN Tip(q) ELSE Compose(Invert(Tip(guess)), Tip(q))
            x  == IF frame = "BASE_FRAME" THEN xd ELSE Compose(FwdKin(guess), xd)
        IN  /\ asibot.open /\ reply = NoReply
            /\ reply' = [call |-> "invKin", q |-> q, guess |-> guess, answer |-> Solve(x, guess)]
            /\ UNCHANGED asibot

AsibotDiffInvKin ==
    \E q \in HandPoses, frame \in {"BASE_FRAME", "TCP_FRAME"} :
        /\ asibot.open /\ reply = NoReply
        /\ reply' = [call |-> "diffInvKin", q |-> q, frame |-> frame, J |-> Jacobian(q, frame)]
        /\ UNCHANGED asibot

AsibotClose ==
    /\ asibot.open /\ reply = NoReply
    /\ asibot' = AsibotClosed
    /\ UNCHANGED reply

(* The caller has read what was returned. *)
AsibotReturn ==
    /\ reply # NoReply
    /\ reply' = NoReply
    /\ UNCHANGED asibot

AsibotNext ==
    \/ AsibotOpen \/ AsibotAppendLink \/ AsibotRestoreOriginalChain
    \/ AsibotFwdKin \/ AsibotInvKin \/ AsibotDiffInvKin \/ AsibotClose \/ AsibotReturn

AsibotSpec == AsibotOff /\ [][AsibotNext]_asibotVars

---------------------------------------------------------------------------
(* Properties. *)

(* The pose chosen moves the robot least, or is the other elbow of one     *)
(* that does and moves joint 2 no more than that (the doc of               *)
(* AsibotConfiguration.hpp:123-132); then only poses that move the robot   *)
(* least move it less.                                                     *)
Preferred(a, guess) ==
    LET all == {a.poses[i] : i \in DOMAIN a.poses}
        Less(p, r) == Displacement(guess, p) < Displacement(guess, r)
        least == {p \in all : ~\E r \in all : Less(r, p)}
    IN  \E pose \in all :
            /\ pose.q = a.q
            /\ \/ pose \in least
               \/ \E best \in least : /\ best.orient = pose.orient /\ best.elb # pose.elb
                                       /\ Travel(guess, pose) <= Travel(guess, best)
            /\ \A other \in all : Less(other, pose) => other \in least

(* The joints returned are within the limits and bring the hand to where   *)
(* it was asked, its roll included unless it points straight up or down;   *)
(* of the poses that do the preferred one is chosen (invKin of             *)
(* ICartesianSolverImpl.cpp:308-412).  Forward kinematics agrees.          *)
HandReachesTarget ==
    /\ reply.call = "fwdKin" => reply.x = Tip(reply.q)
    /\ reply.call = "invKin" =>
        LET a == reply.answer
        IN  /\ a.kind # "out of reach"
            /\ a.kind = "joints" =>
                /\ \A i \in 1 .. 5 : a.q[i] \in asibot.limits[1][i] .. asibot.limits[2][i]
                /\ Hand(a.q).p = Hand(reply.q).p
                /\ Hand(a.q).z = Hand(reply.q).z
                /\ Hand(reply.q).z[3] = 0 => Hand(a.q) = Hand(reply.q)
                /\ Preferred(a, reply.guess)

(* The columns are the velocities the joints give the tip of the tool,     *)
(* seen from the frame asked for.                                          *)
ColumnsAreVelocities ==
    LET q == reply.q
        Seen(u) == IF reply.frame = "BASE_FRAME" THEN u ELSE TurnBack(Tip(q), u)
    IN  \A i \in 1 .. 5 :
            LET axis == JointAxis(q, i)
            IN  reply.J[i] = [v |-> Seen(Cross(axis, Minus(Tip(q).p, JointPoint(q, i)))), w |-> Seen(axis)]

(* So they are without a tool, in both frames; and in the base frame with  *)
(* a tool that does not turn its own displacement, because it does not     *)
(* turn the hand, turns it about that line or does not displace it         *)
(* (ICartesianSolverImpl.cpp:79-182 and 416-479).  With other tools, and   *)
(* with any tool in the frame of the tip, the code corrects for the tool in*)
(* the wrong frame, and they are not.                                      *)
JacobianIsVelocity ==
    reply.call = "diffInvKin"
        /\ (asibot.hasFrame => /\ reply.frame = "BASE_FRAME"
                               /\ Turn(asibot.frameTcp, asibot.frameTcp.p) = asibot.frameTcp.p)
        => ColumnsAreVelocities
=============================================================================
