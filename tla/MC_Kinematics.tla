---- MODULE MC_Kinematics ----
EXTENDS KdlSolver, AsibotSolver, KdlTrajectory

L(a, alpha, d, offset) == [group |-> "link", a |-> a, alpha |-> alpha, d |-> d, offset |-> offset]
X(kind, axis) == [group |-> "xyzLink", kind |-> kind, axis |-> axis, xyz |-> Zero]
R(h0, links, hn, strategy) == [h0 |-> h0, links |-> links, hn |-> hn, limits |-> TRUE, strategy |-> strategy]
Least == "leastOverallAngularDisplacement"
ex == <<1, 0, 0>>
I == Identity

\* the robots of tests/testScrewTheory.cpp, lengths rounded
Arm == R(I, <<L(0, -1, 0, 0), L(0, -1, 0, -1), L(0, -1, -32, -1),
              L(0, 1, 0, 0), L(0, -1, -24, 0), L(-8, 0, 0, -1)>>, I, Least)
Leg == R(I, <<L(0, 1, 0, 0), L(0, 1, 0, 1), L(-32, 0, 0, 0),
              L(-32, 0, 8, 0), L(0, -1, 0, 0), L(-16, 0, 0, 0)>>, I, "humanoidGait")
Irb == R(Rotation(ex, -1), <<L(0, 1, 32, 0), L(32, 0, 0, 1), L(8, 1, 0, 0),
                             L(0, -1, 32, 0), L(0, 1, 0, -1), L(0, 0, 16, 0)>>, Rotation(ez, 1), Least)
Scara == R(Rotation(ex, -1), <<L(32, 0, 0, 0), L(24, 2, 0, 0), X("translation", ez), L(0, 0, -16, 0)>>, I, Least)

\* small ones
Gantry == R(I, <<X("translation", ex), X("translation", ey), X("translation", ez)>>, I, Least)
Cylinder == R(I, <<X("rotation", ez), X("translation", ey), X("translation", ex)>>, I, Least)
One == R(I, <<L(8, 0, 0, 0)>>, I, "humanoidGait")
Two == R(I, <<L(-8, 0, 0, 0), L(-16, 0, 0, 0)>>, I, Least)
Missing == R(I, <<L(8, 0, 0, 0), [group |-> "missing"]>>, I, Least)
Unrecognized == R(I, <<[group |-> "unrecognized"], L(8, 0, 0, 0)>>, I, Least)

Unlimited == [Two EXCEPT !.limits = FALSE]
Unsupported == [Two EXCEPT !.strategy = "other"]

MCRobots == {Arm, Leg, Irb, Scara, Gantry, Cylinder, One, Two, Missing, Unrecognized, Unlimited, Unsupported}
MCDraws == {<<>>, <<-1, -1, -1, -1, -1, -1>>, <<3, -5, 7, -1, 2, -9>>}
MCTools == {Translate(<<-8, 0, 0>>), Compose(Translate(<<32, 0, 0>>), Rotation(ex, 1))}

MCHandPoses == {q \in {0, 1, 2} \X (-1 .. 2) \X (-1 .. 1) \X (-1 .. 2) \X (-1 .. 0) :
                    Forward(q, 2) > 0 /\ (q[2] + q[3] + q[4]) % 4 \in 0 .. 2}
MCGuesses == {<<0, 1, 0, 0, 0>>, <<-1, 0, 1, 0, -1>>, <<2, 2, -1, 0, 2>>, <<-2, -2, -1, 0, 2>>}
MCLimits == {<<<<-2, -2, -2, -2, -2>>, <<2, 2, 2, 2, 2>>>>, <<<<-1, -1, -2, -1, -2>>, <<1, 1, 2, 1, 2>>>>,
             <<<<0, 0>>, <<0, 0>>>>}
MCAsibotTools == {Compose(Translate(<<0, 0, 2>>), Rotation(ez, 1)), Compose(Translate(<<1, 0, 2>>), Rotation(ez, 1))}

\* the libraries share no state: a behaviour is of one of them
VARIABLE library
vars == <<solverVars, asibotVars, trajectoryVars, library>>

Init == SolverOff /\ AsibotOff /\ TrajectoryOff /\ library \in {"solver", "asibot", "trajectory"}

Next ==
    /\ UNCHANGED library
    /\ \/ library = "solver" /\ SolverNext /\ UNCHANGED <<asibotVars, trajectoryVars>>
       \/ library = "asibot" /\ AsibotNext /\ UNCHANGED <<solverVars, trajectoryVars>>
       \/ library = "trajectory" /\ TrajectoryNext /\ UNCHANGED <<solverVars, asibotVars>>

Spec == Init /\ [][Next]_vars
====
