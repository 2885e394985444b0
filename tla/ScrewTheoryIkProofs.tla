-------------------------- MODULE ScrewTheoryIkProofs --------------------------
(***************************************************************************)
(* For any robots and tools: the subproblems the search takes are solved   *)
(* in a form their equations have.                                         *)
(*                                                                         *)
(* The argument has three parts.  What the search has seen of the axes     *)
(* when it takes a subproblem (Taken), and what a whole sequence of them   *)
(* that solves every joint tells of the joints left at each step           *)
(* (Solvable).  That the equation of a subproblem then holds, with the     *)
(* terms in the state the problem brings them to (EquationTaken).  And     *)
(* that the search and the problem do keep such a history (HistoryInv).    *)
(***************************************************************************)
EXTENDS KinematicsProofs, FiniteSetTheorems

(* The one coordinate along which an axis runs: the others are those of    *)
(* its points.                                                             *)
Along(e) == CHOOSE w \in 1 .. 3 : e.axis[w] # 0

LEMMA AlongParts ==
  ASSUME NEW e \in Exps
  PROVE  /\ Along(e) \in 1 .. 3 /\ e.axis[Along(e)] \in {1, -1}
         /\ \A i \in 1 .. 3 : i # Along(e) => e.axis[i] = 0
<1>1. \E w \in 1 .. 3 : e.axis[w] \in {1, -1} /\ \A i \in 1 .. 3 : i # w => e.axis[i] = 0
  BY DEF Exps, Units
<1> QED BY <1>1 DEF Along

(* A point is on an axis when it has the coordinates across it.            *)
LEMMA OnAxis ==
  ASSUME NEW e \in Exps, NEW p \in Vectors
  PROVE  LiesOnAxis(e, p) <=> \A i \in 1 .. 3 : i # Along(e) => p[i] = e.origin[i]
<1> DEFINE o == e.origin
           d == Minus(p, o)
<1>1. e.origin \in Vectors /\ e.axis \in Units
  BY DEF Exps
<1>2. p[1] \in Int /\ p[2] \in Int /\ p[3] \in Int /\ o[1] \in Int /\ o[2] \in Int /\ o[3] \in Int
  BY <1>1, VectorType
<1>3. d[1] = p[1] - o[1] /\ d[2] = p[2] - o[2] /\ d[3] = p[3] - o[3]
  BY DEF Minus
<1>4. /\ d[1] \in Int /\ d[2] \in Int /\ d[3] \in Int
      /\ (d[1] = 0 <=> p[1] = o[1]) /\ (d[2] = 0 <=> p[2] = o[2]) /\ (d[3] = 0 <=> p[3] = o[3])
  <2> HIDE DEF d
  <2> QED BY <1>2, <1>3
<1> HIDE DEF d
<1>5. LiesOnAxis(e, p) <=> Cross(d, e.axis) = Zero
  BY DEF LiesOnAxis, d
<1>6. \A x \in Int : x * 0 = 0 /\ x * 1 = x /\ x * (-1) = -x /\ 0 - x = -x /\ x - 0 = x
          /\ (-x = 0 <=> x = 0)
  OBVIOUS
<1>7. Cross(d, e.axis) = Zero <=> \A i \in 1 .. 3 : i # Along(e) => d[i] = 0
  <2> DEFINE u == e.axis
  <2> HIDE DEF u
  <2>1. Cross(d, u) = Zero <=> /\ d[2] * u[3] - d[3] * u[2] = 0
                               /\ d[3] * u[1] - d[1] * u[3] = 0
                               /\ d[1] * u[2] - d[2] * u[1] = 0
    BY DEF Cross, Zero, u
  <2>2. CASE Along(e) = 1
    <3>1. u[2] = 0 /\ u[3] = 0 /\ u[1] \in {1, -1}
      BY <2>2, AlongParts DEF u
    <3>2. d[1] * u[2] = 0 /\ d[1] * u[3] = 0 /\ d[2] * u[3] = 0 /\ d[3] * u[2] = 0
      BY <1>4, <1>6, <3>1
    <3>3. (d[2] * u[1] = 0 <=> d[2] = 0) /\ (d[3] * u[1] = 0 <=> d[3] = 0)
          /\ d[2] * u[1] \in Int /\ d[3] * u[1] \in Int
      BY <1>4, <1>6, <3>1
    <3>4. Cross(d, u) = Zero <=> d[2] = 0 /\ d[3] = 0
      BY <1>6, <2>1, <3>2, <3>3
    <3>5. (\A i \in 1 .. 3 : i # 1 => d[i] = 0) <=> d[2] = 0 /\ d[3] = 0
      OBVIOUS
    <3> QED BY <2>2, <3>4, <3>5 DEF u
  <2>3. CASE Along(e) = 2
    <3>1. u[1] = 0 /\ u[3] = 0 /\ u[2] \in {1, -1}
      BY <2>3, AlongParts DEF u
    <3>2. d[2] * u[1] = 0 /\ d[2] * u[3] = 0 /\ d[1] * u[3] = 0 /\ d[3] * u[1] = 0
      BY <1>4, <1>6, <3>1
    <3>3. (d[1] * u[2] = 0 <=> d[1] = 0) /\ (d[3] * u[2] = 0 <=> d[3] = 0)
          /\ d[1] * u[2] \in Int /\ d[3] * u[2] \in Int
      BY <1>4, <1>6, <3>1
    <3>4. Cross(d, u) = Zero <=> d[1] = 0 /\ d[3] = 0
      BY <1>6, <2>1, <3>2, <3>3
    <3>5. (\A i \in 1 .. 3 : i # 2 => d[i] = 0) <=> d[1] = 0 /\ d[3] = 0
      OBVIOUS
    <3> QED BY <2>3, <3>4, <3>5 DEF u
  <2>4. CASE Along(e) = 3
    <3>1. u[1] = 0 /\ u[2] = 0 /\ u[3] \in {1, -1}
      BY <2>4, AlongParts DEF u
    <3>2. d[3] * u[1] = 0 /\ d[3] * u[2] = 0 /\ d[1] * u[2] = 0 /\ d[2] * u[1] = 0
      BY <1>4, <1>6, <3>1
    <3>3. (d[1] * u[3] = 0 <=> d[1] = 0) /\ (d[2] * u[3] = 0 <=> d[2] = 0)
          /\ d[1] * u[3] \in Int /\ d[2] * u[3] \in Int
      BY <1>4, <1>6, <3>1
    <3>4. Cross(d, u) = Zero <=> d[1] = 0 /\ d[2] = 0
      BY <1>6, <2>1, <3>2, <3>3
    <3>5. (\A i \in 1 .. 3 : i # 3 => d[i] = 0) <=> d[1] = 0 /\ d[2] = 0
      OBVIOUS
    <3> QED BY <2>4, <3>4, <3>5 DEF u
  <2> QED BY <2>2, <2>3, <2>4, AlongParts DEF u
<1> QED BY <1>4, <1>5, <1>7

(* Axes are parallel when they run along the same coordinate, and perpen-  *)
(* dicular when they do not.                                               *)
LEMMA Directions ==
  ASSUME NEW e \in Exps, NEW f \in Exps
  PROVE  /\ ParallelAxes(e, f) <=> Along(e) = Along(f)
         /\ PerpendicularAxes(e, f) <=> Along(e) # Along(f)
<1> DEFINE u == e.axis
           v == f.axis
<1>1. /\ ParallelAxes(e, f) <=> /\ u[2] * v[3] - u[3] * v[2] = 0
                                /\ u[3] * v[1] - u[1] * v[3] = 0
                                /\ u[1] * v[2] - u[2] * v[1] = 0
      /\ PerpendicularAxes(e, f) <=> u[1] * v[1] + u[2] * v[2] + u[3] * v[3] = 0
  BY DEF ParallelAxes, PerpendicularAxes, Cross, Dot, Zero
<1>2. u \in Units /\ v \in Units
  BY DEF Exps
<1>3. /\ Along(e) = 1 => u[1] \in {1, -1} /\ u[2] = 0 /\ u[3] = 0
      /\ Along(e) = 2 => u[2] \in {1, -1} /\ u[1] = 0 /\ u[3] = 0
      /\ Along(e) = 3 => u[3] \in {1, -1} /\ u[1] = 0 /\ u[2] = 0
      /\ Along(f) = 1 => v[1] \in {1, -1} /\ v[2] = 0 /\ v[3] = 0
      /\ Along(f) = 2 => v[2] \in {1, -1} /\ v[1] = 0 /\ v[3] = 0
      /\ Along(f) = 3 => v[3] \in {1, -1} /\ v[1] = 0 /\ v[2] = 0
  BY AlongParts
<1>4. Along(e) \in {1, 2, 3} /\ Along(f) \in {1, 2, 3}
  BY AlongParts
<1> HIDE DEF u, v
<1>5. CASE Along(e) = 1
  BY <1>1, <1>3, <1>4, <1>5
<1>6. CASE Along(e) = 2
  BY <1>1, <1>3, <1>4, <1>6
<1>7. CASE Along(e) = 3
  BY <1>1, <1>3, <1>4, <1>7
<1> QED BY <1>4, <1>5, <1>6, <1>7

(* The point of one axis nearest to another, when they are not parallel.   *)
LEMMA NearestAt ==
  ASSUME NEW e \in Exps, NEW f \in Exps, ~ParallelAxes(e, f)
  PROVE  /\ NearestPoint(e, f) \in Vectors
         /\ \A i \in 1 .. 3 : NearestPoint(e, f)[i] = IF i = Along(e) THEN f.origin[i] ELSE e.origin[i]
<1> DEFINE o == e.origin
           d == Minus(f.origin, o)
           c == Cross(e.axis, f.axis)
           t == Dot(c, Cross(d, f.axis))
<1>1. o \in Vectors /\ f.origin \in Vectors /\ e.axis \in Vectors /\ f.axis \in Vectors
  BY UnitType DEF Exps
<1>2. d \in Vectors /\ c \in Vectors
  BY <1>1, MinusType, CrossType
<1>3. t \in Int /\ NearestPoint(e, f) = Plus(o, Times(t, e.axis))
  BY <1>1, <1>2, CrossType, DotType DEF NearestPoint
<1>4. NearestPoint(e, f) \in Vectors
  BY <1>1, <1>3, TimesType, PlusType
<1>5. \A i \in 1 .. 3 : NearestPoint(e, f)[i] = o[i] + t * e.axis[i]
  BY <1>3, PlusAt, TimesAt
<1>6. \A i \in 1 .. 3 : o[i] \in Int /\ f.origin[i] \in Int /\ d[i] \in Int /\ d[i] = f.origin[i] - o[i]
  BY <1>1, <1>2, VectorAt, MinusAt
<1>7. /\ Along(e) # Along(f) /\ Along(e) \in {1, 2, 3} /\ Along(f) \in {1, 2, 3}
      /\ e.axis[Along(e)] \in {1, -1} /\ \A i \in 1 .. 3 : i # Along(e) => e.axis[i] = 0
      /\ f.axis[Along(f)] \in {1, -1} /\ \A i \in 1 .. 3 : i # Along(f) => f.axis[i] = 0
  BY Directions, AlongParts
<1>8. /\ c[1] = e.axis[2] * f.axis[3] - e.axis[3] * f.axis[2]
      /\ c[2] = e.axis[3] * f.axis[1] - e.axis[1] * f.axis[3]
      /\ c[3] = e.axis[1] * f.axis[2] - e.axis[2] * f.axis[1]
      /\ t = c[1] * (d[2] * f.axis[3] - d[3] * f.axis[2]) + c[2] * (d[3] * f.axis[1] - d[1] * f.axis[3])
              + c[3] * (d[1] * f.axis[2] - d[2] * f.axis[1])
  BY DEF Cross, Dot
<1>9. t * e.axis[Along(e)] = d[Along(e)]
  <2> DEFINE a == e.axis
             b == f.axis
             k == Along(e)
  <2>1. d[1] \in Int /\ d[2] \in Int /\ d[3] \in Int
    BY <1>6
  <2>2. a \in Units /\ b \in Units
    BY DEF Exps
  <2>3. Along(f) = 1 \/ Along(f) = 2 \/ Along(f) = 3
    BY <1>7
  <2>4. /\ c[1] = a[2] * b[3] - a[3] * b[2]
        /\ c[2] = a[3] * b[1] - a[1] * b[3]
        /\ c[3] = a[1] * b[2] - a[2] * b[1]
        /\ t = c[1] * (d[2] * b[3] - d[3] * b[2]) + c[2] * (d[3] * b[1] - d[1] * b[3])
                + c[3] * (d[1] * b[2] - d[2] * b[1])
    BY <1>8
  <2>5. /\ k # Along(f) /\ k \in {1, 2, 3}
        /\ a[k] \in {1, -1} /\ \A i \in 1 .. 3 : i # k => a[i] = 0
        /\ b[Along(f)] \in {1, -1} /\ \A i \in 1 .. 3 : i # Along(f) => b[i] = 0
    BY <1>7
  <2> SUFFICES t * a[k] = d[k]
    OBVIOUS
  <2> HIDE DEF a, b, c, d, t, k, o
  <2>6. CASE a[1] = 1 /\ a[2] = 0 /\ a[3] = 0 /\ k = 1
    <3>1. CASE b[1] = 0 /\ b[2] = 1 /\ b[3] = 0
      <4>1. c[1] = 0 /\ c[2] = 0 /\ c[3] = 1
        BY <2>6, <3>1, <2>4
      <4> QED BY <2>6, <3>1, <2>1, <2>4, <4>1
    <3>2. CASE b[1] = 0 /\ b[2] = -1 /\ b[3] = 0
      <4>1. c[1] = 0 /\ c[2] = 0 /\ c[3] = -1
        BY <2>6, <3>2, <2>4
      <4> QED BY <2>6, <3>2, <2>1, <2>4, <4>1
    <3>3. CASE b[1] = 0 /\ b[2] = 0 /\ b[3] = 1
      <4>1. c[1] = 0 /\ c[2] = -1 /\ c[3] = 0
        BY <2>6, <3>3, <2>4
      <4> QED BY <2>6, <3>3, <2>1, <2>4, <4>1
    <3>4. CASE b[1] = 0 /\ b[2] = 0 /\ b[3] = -1
      <4>1. c[1] = 0 /\ c[2] = 1 /\ c[3] = 0
        BY <2>6, <3>4, <2>4
      <4> QED BY <2>6, <3>4, <2>1, <2>4, <4>1
    <3> QED BY <2>3, <2>5, <2>6, <3>1, <3>2, <3>3, <3>4
  <2>7. CASE a[1] = -1 /\ a[2] = 0 /\ a[3] = 0 /\ k = 1
    <3>1. CASE b[1] = 0 /\ b[2] = 1 /\ b[3] = 0
      <4>1. c[1] = 0 /\ c[2] = 0 /\ c[3] = -1
        BY <2>7, <3>1, <2>4
      <4> QED BY <2>7, <3>1, <2>1, <2>4, <4>1
    <3>2. CASE b[1] = 0 /\ b[2] = -1 /\ b[3] = 0
      <4>1. c[1] = 0 /\ c[2] = 0 /\ c[3] = 1
        BY <2>7, <3>2, <2>4
      <4> QED BY <2>7, <3>2, <2>1, <2>4, <4>1
    <3>3. CASE b[1] = 0 /\ b[2] = 0 /\ b[3] = 1
      <4>1. c[1] = 0 /\ c[2] = 1 /\ c[3] = 0
        BY <2>7, <3>3, <2>4
      <4> QED BY <2>7, <3>3, <2>1, <2>4, <4>1
    <3>4. CASE b[1] = 0 /\ b[2] = 0 /\ b[3] = -1
      <4>1. c[1] = 0 /\ c[2] = -1 /\ c[3] = 0
        BY <2>7, <3>4, <2>4
      <4> QED BY <2>7, <3>4, <2>1, <2>4, <4>1
    <3> QED BY <2>3, <2>5, <2>7, <3>1, <3>2, <3>3, <3>4
  <2>8. CASE a[1] = 0 /\ a[2] = 1 /\ a[3] = 0 /\ k = 2
    <3>1. CASE b[1] = 1 /\ b[2] = 0 /\ b[3] = 0
      <4>1. c[1] = 0 /\ c[2] = 0 /\ c[3] = -1
        BY <2>8, <3>1, <2>4
      <4> QED BY <2>8, <3>1, <2>1, <2>4, <4>1
    <3>2. CASE b[1] = -1 /\ b[2] = 0 /\ b[3] = 0
      <4>1. c[1] = 0 /\ c[2] = 0 /\ c[3] = 1
        BY <2>8, <3>2, <2>4
      <4> QED BY <2>8, <3>2, <2>1, <2>4, <4>1
    <3>3. CASE b[1] = 0 /\ b[2] = 0 /\ b[3] = 1
      <4>1. c[1] = 1 /\ c[2] = 0 /\ c[3] = 0
        BY <2>8, <3>3, <2>4
      <4> QED BY <2>8, <3>3, <2>1, <2>4, <4>1
    <3>4. CASE b[1] = 0 /\ b[2] = 0 /\ b[3] = -1
      <4>1. c[1] = -1 /\ c[2] = 0 /\ c[3] = 0
        BY <2>8, <3>4, <2>4
      <4> QED BY <2>8, <3>4, <2>1, <2>4, <4>1
    <3> QED BY <2>3, <2>5, <2>8, <3>1, <3>2, <3>3, <3>4
  <2>9. CASE a[1] = 0 /\ a[2] = -1 /\ a[3] = 0 /\ k = 2
    <3>1. CASE b[1] = 1 /\ b[2] = 0 /\ b[3] = 0
      <4>1. c[1] = 0 /\ c[2] = 0 /\ c[3] = 1
        BY <2>9, <3>1, <2>4
      <4> QED BY <2>9, <3>1, <2>1, <2>4, <4>1
    <3>2. CASE b[1] = -1 /\ b[2] = 0 /\ b[3] = 0
      <4>1. c[1] = 0 /\ c[2] = 0 /\ c[3] = -1
        BY <2>9, <3>2, <2>4
      <4> QED BY <2>9, <3>2, <2>1, <2>4, <4>1
    <3>3. CASE b[1] = 0 /\ b[2] = 0 /\ b[3] = 1
      <4>1. c[1] = -1 /\ c[2] = 0 /\ c[3] = 0
        BY <2>9, <3>3, <2>4
      <4> QED BY <2>9, <3>3, <2>1, <2>4, <4>1
    <3>4. CASE b[1] = 0 /\ b[2] = 0 /\ b[3] = -1
      <4>1. c[1] = 1 /\ c[2] = 0 /\ c[3] = 0
        BY <2>9, <3>4, <2>4
      <4> QED BY <2>9, <3>4, <2>1, <2>4, <4>1
    <3> QED BY <2>3, <2>5, <2>9, <3>1, <3>2, <3>3, <3>4
  <2>10. CASE a[1] = 0 /\ a[2] = 0 /\ a[3] = 1 /\ k = 3
    <3>1. CASE b[1] = 1 /\ b[2] = 0 /\ b[3] = 0
      <4>1. c[1] = 0 /\ c[2] = 1 /\ c[3] = 0
        BY <2>10, <3>1, <2>4
      <4> QED BY <2>10, <3>1, <2>1, <2>4, <4>1
    <3>2. CASE b[1] = -1 /\ b[2] = 0 /\ b[3] = 0
      <4>1. c[1] = 0 /\ c[2] = -1 /\ c[3] = 0
        BY <2>10, <3>2, <2>4
      <4> QED BY <2>10, <3>2, <2>1, <2>4, <4>1
    <3>3. CASE b[1] = 0 /\ b[2] = 1 /\ b[3] = 0
      <4>1. c[1] = -1 /\ c[2] = 0 /\ c[3] = 0
        BY <2>10, <3>3, <2>4
      <4> QED BY <2>10, <3>3, <2>1, <2>4, <4>1
    <3>4. CASE b[1] = 0 /\ b[2] = -1 /\ b[3] = 0
      <4>1. c[1] = 1 /\ c[2] = 0 /\ c[3] = 0
        BY <2>10, <3>4, <2>4
      <4> QED BY <2>10, <3>4, <2>1, <2>4, <4>1
    <3> QED BY <2>3, <2>5, <2>10, <3>1, <3>2, <3>3, <3>4
  <2>11. CASE a[1] = 0 /\ a[2] = 0 /\ a[3] = -1 /\ k = 3
    <3>1. CASE b[1] = 1 /\ b[2] = 0 /\ b[3] = 0
      <4>1. c[1] = 0 /\ c[2] = -1 /\ c[3] = 0
        BY <2>11, <3>1, <2>4
      <4> QED BY <2>11, <3>1, <2>1, <2>4, <4>1
    <3>2. CASE b[1] = -1 /\ b[2] = 0 /\ b[3] = 0
      <4>1. c[1] = 0 /\ c[2] = 1 /\ c[3] = 0
        BY <2>11, <3>2, <2>4
      <4> QED BY <2>11, <3>2, <2>1, <2>4, <4>1
    <3>3. CASE b[1] = 0 /\ b[2] = 1 /\ b[3] = 0
      <4>1. c[1] = 1 /\ c[2] = 0 /\ c[3] = 0
        BY <2>11, <3>3, <2>4
      <4> QED BY <2>11, <3>3, <2>1, <2>4, <4>1
    <3>4. CASE b[1] = 0 /\ b[2] = -1 /\ b[3] = 0
      <4>1. c[1] = -1 /\ c[2] = 0 /\ c[3] = 0
        BY <2>11, <3>4, <2>4
      <4> QED BY <2>11, <3>4, <2>1, <2>4, <4>1
    <3> QED BY <2>3, <2>5, <2>11, <3>1, <3>2, <3>3, <3>4
  <2> QED BY <2>5, <2>6, <2>7, <2>8, <2>9, <2>10, <2>11
<1> HIDE DEF t, d, o
<1>10. ASSUME NEW i \in 1 .. 3
       PROVE  NearestPoint(e, f)[i] = IF i = Along(e) THEN f.origin[i] ELSE o[i]
  <2>1. CASE i = Along(e)
    BY <2>1, <1>5, <1>6, <1>9
  <2>2. CASE i # Along(e)
    <3>1. e.axis[i] = 0
      BY <2>2, AlongParts
    <3>2. t * 0 = 0 /\ o[i] + 0 = o[i]
      BY <1>3, <1>6
    <3> QED BY <2>2, <3>1, <3>2, <1>5
  <2> QED BY <2>1, <2>2
<1> QED BY <1>4, <1>10 DEF o

(* Two axes are one line when they have the same points.                   *)
Aligned(e, f) == \A r \in Vectors : LiesOnAxis(e, r) <=> LiesOnAxis(f, r)

(* Parallel axes with a point in common are one line.                      *)
LEMMA AlignedParallel ==
  ASSUME NEW e \in Exps, NEW f \in Exps, NEW p \in Vectors, LiesOnAxis(e, p), LiesOnAxis(f, p),
         ParallelAxes(e, f)
  PROVE  Aligned(e, f)
<1>1. Along(e) = Along(f)
  BY Directions
<1>2. \A i \in 1 .. 3 : i # Along(e) => p[i] = e.origin[i] /\ p[i] = f.origin[i]
  BY <1>1, OnAxis
<1>3. ASSUME NEW r \in Vectors PROVE LiesOnAxis(e, r) <=> LiesOnAxis(f, r)
  BY <1>1, <1>2, OnAxis
<1> QED BY <1>3 DEF Aligned

(* So are axes with two points in common.                                  *)
LEMMA AlignedTwice ==
  ASSUME NEW e \in Exps, NEW f \in Exps, NEW p \in Vectors, NEW q \in Vectors, p # q,
         LiesOnAxis(e, p), LiesOnAxis(f, p), LiesOnAxis(e, q), LiesOnAxis(f, q)
  PROVE  Aligned(e, f)
<1>1. PICK i \in 1 .. 3 : p[i] # q[i]
  BY VectorEq
<1>2. i = Along(e) /\ i = Along(f)
  BY <1>1, OnAxis
<1>3. ParallelAxes(e, f)
  BY <1>2, Directions
<1> QED BY <1>3, AlignedParallel

(* Axes that are one line are parallel and colinear.                       *)
LEMMA AlignedColinear ==
  ASSUME NEW e \in Exps, NEW f \in Exps, Aligned(e, f)
  PROVE  ParallelAxes(e, f) /\ ColinearAxes(e, f)
<1> DEFINE o == f.origin
           q == Plus(o, f.axis)
<1>1. o \in Vectors /\ f.axis \in Vectors /\ q \in Vectors
  BY UnitType, PlusType DEF Exps
<1>2. \A i \in 1 .. 3 : q[i] = o[i] + f.axis[i] /\ o[i] \in Int
  BY <1>1, PlusAt, VectorAt
<1>3. f.axis[Along(f)] \in {1, -1} /\ Along(f) \in 1 .. 3
          /\ \A i \in 1 .. 3 : i # Along(f) => f.axis[i] = 0
  BY AlongParts
<1> HIDE DEF q
<1>4. \A i \in 1 .. 3 : i # Along(f) => q[i] = o[i]
  BY <1>2, <1>3
<1>5. LiesOnAxis(f, o) /\ LiesOnAxis(f, q)
  BY <1>1, <1>4, OnAxis
<1>6. LiesOnAxis(e, o) /\ LiesOnAxis(e, q)
  BY <1>1, <1>5 DEF Aligned
<1>7. q[Along(f)] # o[Along(f)]
  BY <1>2, <1>3
<1>8. Along(e) = Along(f)
  BY <1>1, <1>3, <1>6, <1>7, OnAxis
<1> QED BY <1>6, <1>8, Directions DEF ColinearAxes

(* Axes with a point in common that are not parallel intersect.            *)
LEMMA Meet ==
  ASSUME NEW e \in Exps, NEW f \in Exps, NEW k \in Vectors,
         LiesOnAxis(e, k), LiesOnAxis(f, k), ~ParallelAxes(e, f)
  PROVE  IntersectingAxes(e, f)
<1>1. Along(e) # Along(f)
  BY Directions
<1>2. ~ParallelAxes(f, e)
  BY <1>1, Directions
<1>3. \A i \in 1 .. 3 : (i # Along(e) => k[i] = e.origin[i]) /\ (i # Along(f) => k[i] = f.origin[i])
  BY OnAxis
<1>4. \A i \in 1 .. 3 : NearestPoint(e, f)[i] = NearestPoint(f, e)[i]
  BY <1>1, <1>2, <1>3, NearestAt
<1>5. NearestPoint(e, f) \in Vectors /\ NearestPoint(f, e) \in Vectors
  BY <1>2, NearestAt
<1> QED BY <1>4, <1>5, VectorEq DEF IntersectingAxes

(* Joints do not move at once in a plane and in its normal.                *)
LEMMA NoPlaneAndNormal ==
  ASSUME NEW e \in Exps, NEW f \in Exps
  PROVE  ~(PlanarMovement(e, f) /\ NormalPlaneMovement(e, f))
BY Directions DEF PlanarMovement, NormalPlaneMovement

---------------------------------------------------------------------------
(* The known joints when a step is taken: those of the steps before it.    *)
Learnt(steps, c) == UNION {ToSet(steps[d].ids) : d \in 1 .. c - 1}
Left(E, steps, c) == 1 .. Len(E) \ Learnt(steps, c)

(* From j to the last joint of U, every joint leaves the point where it    *)
(* is; so does every joint from the first of U to j.                       *)
Covered(E, U, j, p)  == \A i \in j .. Len(E) : (\E u \in U : i <= u) => Fixes(E[i], p)
Shielded(E, U, j, k) == \A i \in 1 .. j : (\E u \in U : u <= i) => Fixes(E[i], k)

(* The first two unknown joints turn about axes that meet.                 *)
Wrist(E, U, y) ==
  /\ y \in U /\ y + 1 \in U /\ \A u \in U : y <= u
  /\ Turns(E[y]) /\ Turns(E[y + 1])
  /\ ~ParallelAxes(E[y + 1], E[y]) /\ IntersectingAxes(E[y + 1], E[y])

(* What the builder has seen when it takes a subproblem, U being the joints*)
(* that are unknown: about the first of them,                              *)
Alone(E, U, m, p) ==
  /\ m \in U /\ ~Covered(E, U, m, p)
  /\ \A u \in U \ {m} : m < u /\ Covered(E, U, u, p)

(* the first two,                                                          *)
Pair(E, U, m, p) ==
  /\ m \in U /\ m + 1 \in U /\ ~Covered(E, U, m + 1, p)
  /\ \A u \in U \ {m, m + 1} : m + 1 < u /\ Covered(E, U, u, p)
  /\ ~(Turns(E[m]) /\ Turns(E[m + 1]) /\ ColinearAxes(E[m + 1], E[m]))

(* a translation before, or after, joints that move in its normal plane,   *)
Ends(E, U, f, l, p) ==
  /\ f \in U /\ l \in U /\ f < l
  /\ \A u \in U : f <= u /\ (l < u => Covered(E, U, u, p))
Leads(E, U, f, l, p) ==
  /\ Ends(E, U, f, l, p) /\ Slides(E[f])
  /\ \A j \in f + 1 .. l - 1 : PlanarMovement(E[j], E[j + 1])
  /\ NormalPlaneMovement(E[f], E[f + 1])
Trails(E, U, f, l, p) ==
  /\ Ends(E, U, f, l, p) /\ Slides(E[l])
  /\ \A j \in f .. l - 2 : PlanarMovement(E[j], E[j + 1])
  /\ NormalPlaneMovement(E[l - 1], E[l])

(* or any of them, the first two being no wrist with it for the second.    *)
Middle(E, U, m, p, k) ==
  /\ m \in U /\ ~Fixes(E[m], p) /\ ~Fixes(E[m], k)
  /\ Covered(E, U, m + 1, p) /\ Shielded(E, U, m - 1, k)
  /\ ~Wrist(E, U, m - 1)

Taken(E, U, s) ==
  LET m == s.ids[1]
      p == s.points[1]
      k == s.points[2]
  IN  /\ p \in Vectors
      /\ \/ s.kind \in {"PadenKahanOne", "PardosGotorOne"} /\ s.ids = <<m>> /\ Alone(E, U, m, p)
         \/ s.kind = "PardosGotorOne" /\ s.ids = <<m>> /\ \E l \in U : Leads(E, U, m, l, p)
         \/ s.kind = "PardosGotorOne" /\ s.ids = <<m>> /\ \E f \in U : Trails(E, U, f, m, p)
         \/ s.kind \in {"PadenKahanTwo", "PardosGotorTwo", "PardosGotorFour"} /\ s.ids = <<m, m + 1>>
            /\ Pair(E, U, m, p)
         \/ s.kind \in {"PadenKahanThree", "PardosGotorThree"} /\ s.ids = <<m>> /\ k \in Vectors
            /\ Middle(E, U, m, p, k)

History(E, steps) == \A c \in 1 .. Len(steps) : Taken(E, Left(E, steps, c), steps[c])

(* A joint among those that leave the point where it is turns about it.    *)
LEMMA CoveredAt ==
  ASSUME NEW E \in Seq(Exps), NEW U, NEW j \in Int, NEW p, Covered(E, U, j, p),
         NEW i \in 1 .. Len(E), j <= i, NEW u \in U, i <= u
  PROVE  Fixes(E[i], p) /\ Turns(E[i]) /\ LiesOnAxis(E[i], p)
<1>1. i \in j .. Len(E)
  OBVIOUS
<1> QED BY <1>1 DEF Covered, Fixes

(* So does one among those on the other side.                              *)
LEMMA ShieldedAt ==
  ASSUME NEW E \in Seq(Exps), NEW U, NEW j \in Int, NEW k, Shielded(E, U, j, k),
         NEW i \in 1 .. Len(E), i <= j, NEW u \in U, u <= i
  PROVE  Fixes(E[i], k) /\ Turns(E[i]) /\ LiesOnAxis(E[i], k)
<1>1. i \in 1 .. j
  OBVIOUS
<1> QED BY <1>1 DEF Shielded, Fixes

(* Of fewer joints, from further on, the same holds.                       *)
LEMMA CoveredLess ==
  ASSUME NEW E \in Seq(Exps), NEW U, NEW W, U \subseteq W, NEW j \in Int, NEW i \in Int, j <= i, NEW p,
         Covered(E, W, j, p)
  PROVE  Covered(E, U, i, p)
<1>1. \A x \in i .. Len(E) : x \in j .. Len(E)
  OBVIOUS
<1> QED BY <1>1 DEF Covered

(* Of fewer joints the same holds on the other side.                       *)
LEMMA ShieldedLess ==
  ASSUME NEW E, NEW U, NEW W, U \subseteq W, NEW j, NEW k, Shielded(E, W, j, k)
  PROVE  Shielded(E, U, j, k)
BY DEF Shielded

(* The joints of a subproblem, one or two.                                 *)
LEMMA Ids ==
  /\ \A m : ToSet(<<m>>) = {m}
  /\ \A m, l : ToSet(<<m, l>>) = {m, l}
<1>1. \A m : DOMAIN <<m>> = {1}
  OBVIOUS
<1>2. \A m, l : DOMAIN <<m, l>> = {1, 2}
  OBVIOUS
<1> QED BY <1>1, <1>2 DEF ToSet

(* The ways to take a subproblem, told by its joints.                      *)
TakenBy(E, U, s, m, p) ==
  \/ ToSet(s.ids) = {m} /\ Alone(E, U, m, p)
  \/ ToSet(s.ids) = {m} /\ \E l \in U : Leads(E, U, m, l, p)
  \/ ToSet(s.ids) = {m} /\ \E f \in U : Trails(E, U, f, m, p)
  \/ ToSet(s.ids) = {m, m + 1} /\ Pair(E, U, m, p)
  \/ ToSet(s.ids) = {m} /\ \E k \in Vectors : Middle(E, U, m, p, k)

(* What was taken was taken in one of these ways.                          *)
LEMMA TakenCases ==
  ASSUME NEW E, NEW U, NEW s, Taken(E, U, s)
  PROVE  \E m \in U, p \in Vectors : TakenBy(E, U, s, m, p)
<1> DEFINE m == s.ids[1]
           p == s.points[1]
           k == s.points[2]
<1>1. p \in Vectors
  BY DEF Taken
<1>2. CASE s.ids = <<m>> /\ Alone(E, U, m, p)
  <2>1. m \in U
    BY <1>2 DEF Alone
  <2> QED BY <1>1, <1>2, <2>1, Ids DEF TakenBy
<1>3. CASE s.ids = <<m>> /\ \E l \in U : Leads(E, U, m, l, p)
  <2>1. m \in U
    BY <1>3 DEF Leads, Ends
  <2> QED BY <1>1, <1>3, <2>1, Ids DEF TakenBy
<1>4. CASE s.ids = <<m>> /\ \E f \in U : Trails(E, U, f, m, p)
  <2>1. m \in U
    BY <1>4 DEF Trails, Ends
  <2> QED BY <1>1, <1>4, <2>1, Ids DEF TakenBy
<1>5. CASE s.ids = <<m, m + 1>> /\ Pair(E, U, m, p)
  <2>1. m \in U
    BY <1>5 DEF Pair
  <2> QED BY <1>1, <1>5, <2>1, Ids DEF TakenBy
<1>6. CASE s.ids = <<m>> /\ k \in Vectors /\ Middle(E, U, m, p, k)
  <2>1. m \in U
    BY <1>6 DEF Middle
  <2> QED BY <1>1, <1>6, <2>1, Ids DEF TakenBy
<1> QED BY <1>2, <1>3, <1>4, <1>5, <1>6 DEF Taken

(* Its joints were unknown.                                                *)
LEMMA TakenLeft ==
  ASSUME NEW E, NEW U, NEW s, Taken(E, U, s)
  PROVE  ToSet(s.ids) \subseteq U
BY TakenCases DEF Pair, TakenBy

(* A joint that was solved while one before it was not.                    *)
Late(E, U, i, p, k) ==
  /\ ~Fixes(E[i], p) /\ ~Fixes(E[i], k)
  /\ Covered(E, U, i + 1, p) /\ Shielded(E, U, i - 1, k)
  /\ i - 1 \in U /\ Turns(E[i - 1]) /\ Turns(E[i])
        /\ ~ParallelAxes(E[i], E[i - 1]) /\ IntersectingAxes(E[i], E[i - 1])
     => \E x \in 1 .. i - 2 : \A j \in x .. i - 1 : Fixes(E[j], k)

LateSlide(E, U, i) ==
  /\ Slides(E[i])
  /\ \A y \in U : y < i => /\ \A j \in y .. i - 2 : PlanarMovement(E[j], E[j + 1])
                           /\ NormalPlaneMovement(E[i - 1], E[i])

(* What is known of a set of joints that are unknown somewhere in a        *)
(* history that solves them all: how the others were solved, and that no   *)
(* two of them are the ends of joints that turn about one line.            *)
Solvable(E, U) ==
  /\ U \subseteq 1 .. Len(E)
  /\ \A i \in 1 .. Len(E) \ U : \A y \in U : y < i =>
       (\E p, k \in Vectors : Late(E, U, i, p, k)) \/ LateSlide(E, U, i)
  /\ \A x \in 1 .. Len(E) \ U : \A y \in U : x < y /\ Turns(E[x]) =>
       \E p \in Vectors : Covered(E, U, y, p)
  /\ \A y, x \in U : y < x =>
       ~\A i, j \in y .. x : Turns(E[i]) /\ Aligned(E[i], E[j])

(* A joint solved while one before it is unknown was solved in one of two  *)
(* ways: from both sides, or as a translation after a plane.               *)
LEMMA TakenLate ==
  ASSUME NEW E \in Seq(Exps), NEW W \in SUBSET (1 .. Len(E)), NEW s, Taken(E, W, s),
         NEW U \in SUBSET (W \ ToSet(s.ids)), NEW i \in ToSet(s.ids), NEW y \in U, y < i
  PROVE  (\E p, k \in Vectors : Late(E, U, i, p, k)) \/ LateSlide(E, U, i)
<1>1. PICK m \in W, p \in Vectors : TakenBy(E, W, s, m, p)
  BY TakenCases
<1>2. Len(E) \in Nat /\ m \in 1 .. Len(E) /\ y \in 1 .. Len(E) /\ y \in W /\ U \subseteq W
  OBVIOUS
<1>3. CASE ToSet(s.ids) = {m} /\ Alone(E, W, m, p)
  BY <1>2, <1>3 DEF Alone
<1>4. CASE ToSet(s.ids) = {m} /\ \E l \in W : Leads(E, W, m, l, p)
  BY <1>2, <1>4 DEF Leads, Ends
<1>5. CASE ToSet(s.ids) = {m, m + 1} /\ Pair(E, W, m, p)
  BY <1>2, <1>5 DEF Pair
<1>6. CASE ToSet(s.ids) = {m} /\ \E f \in W : Trails(E, W, f, m, p)
  <2>1. PICK f \in W : Trails(E, W, f, m, p)
    BY <1>6
  <2>2. i = m /\ f \in 1 .. Len(E)
    BY <1>6
  <2>3. ASSUME NEW z \in U, z < i, NEW j \in z .. i - 2 PROVE j \in f .. m - 2
    <3>1. f <= z /\ z \in Int
      BY <1>2, <2>1 DEF Trails, Ends
    <3> QED BY <2>2, <3>1
  <2>4. LateSlide(E, U, i)
    BY <2>1, <2>2, <2>3 DEF LateSlide, Trails
  <2> QED BY <2>4
<1>7. CASE ToSet(s.ids) = {m} /\ \E k \in Vectors : Middle(E, W, m, p, k)
  <2>1. PICK k \in Vectors : Middle(E, W, m, p, k)
    BY <1>7
  <2>2. i = m
    BY <1>7
  <2>3. Covered(E, U, i + 1, p)
    <3>1. i + 1 \in Int /\ i + 1 <= i + 1
      BY <1>2, <2>2
    <3> QED BY <1>2, <2>1, <2>2, <3>1, CoveredLess DEF Middle
  <2>4. Shielded(E, U, i - 1, k)
    BY <1>2, <2>1, <2>2, ShieldedLess DEF Middle
  <2>5. ASSUME i - 1 \in U, Turns(E[i - 1]), Turns(E[i]),
               ~ParallelAxes(E[i], E[i - 1]), IntersectingAxes(E[i], E[i - 1])
        PROVE  \E x \in 1 .. i - 2 : \A j \in x .. i - 1 : Fixes(E[j], k)
    <3>1. (i - 1) + 1 = i
      BY <1>2, <2>2
    <3>2. PICK x \in W : ~(i - 1 <= x)
      BY <1>2, <2>1, <2>2, <2>5, <3>1 DEF Middle, Wrist
    <3>3. x \in 1 .. i - 2
      BY <1>2, <2>2, <3>2
    <3>4. ASSUME NEW j \in x .. i - 1 PROVE Fixes(E[j], k)
      <4>1. j \in 1 .. Len(E) /\ j <= i - 1 /\ x <= j /\ i - 1 \in Int
        BY <1>2, <2>2, <3>3
      <4>2. Shielded(E, W, i - 1, k)
        BY <2>1, <2>2 DEF Middle
      <4> QED BY <3>2, <4>1, <4>2, ShieldedAt
    <3> QED BY <3>3, <3>4
  <2>6. Late(E, U, i, p, k)
    BY <2>1, <2>2, <2>3, <2>4, <2>5 DEF Late, Middle
  <2> QED BY <2>6
<1> QED BY <1>1, <1>3, <1>4, <1>5, <1>6, <1>7 DEF TakenBy

(* A rotation solved while a joint after it is unknown: from that joint on *)
(* a point stays where it is.                                              *)
LEMMA TakenEarly ==
  ASSUME NEW E \in Seq(Exps), NEW W \in SUBSET (1 .. Len(E)), NEW s, Taken(E, W, s),
         NEW U \in SUBSET (W \ ToSet(s.ids)), NEW x \in ToSet(s.ids), NEW y \in U, x < y, Turns(E[x])
  PROVE  \E p \in Vectors : Covered(E, U, y, p)
<1>1. PICK m \in W, p \in Vectors : TakenBy(E, W, s, m, p)
  BY TakenCases
<1>2. Len(E) \in Nat /\ m \in 1 .. Len(E) /\ y \in 1 .. Len(E) /\ y \in W \ ToSet(s.ids)
          /\ U \subseteq W
  OBVIOUS
<1>3. ~(Turns(E[x]) /\ Slides(E[x]))
  BY DEF Turns, Slides
<1>4. ASSUME NEW j \in Int, j <= y, Covered(E, W, j, p) PROVE Covered(E, U, y, p)
  <2>1. y \in Int
    BY <1>2
  <2> QED BY <1>2, <1>4, <2>1, CoveredLess
<1>5. CASE ToSet(s.ids) = {m} /\ Alone(E, W, m, p)
  <2>1. Covered(E, W, y, p)
    BY <1>2, <1>5 DEF Alone
  <2> QED BY <1>2, <1>4, <2>1
<1>6. CASE ToSet(s.ids) = {m} /\ \E l \in W : Leads(E, W, m, l, p)
  BY <1>3, <1>6 DEF Leads
<1>7. CASE ToSet(s.ids) = {m} /\ \E f \in W : Trails(E, W, f, m, p)
  BY <1>3, <1>7 DEF Trails
<1>8. CASE ToSet(s.ids) = {m, m + 1} /\ Pair(E, W, m, p)
  <2>1. Covered(E, W, y, p)
    BY <1>2, <1>8 DEF Pair
  <2> QED BY <1>2, <1>4, <2>1
<1>9. CASE ToSet(s.ids) = {m} /\ \E k \in Vectors : Middle(E, W, m, p, k)
  <2>1. Covered(E, W, m + 1, p)
    BY <1>9 DEF Middle
  <2>2. m + 1 <= y /\ m + 1 \in Int
    BY <1>2, <1>9
  <2> QED BY <1>4, <2>1, <2>2
<1> QED BY <1>1, <1>5, <1>6, <1>7, <1>8, <1>9 DEF TakenBy

(* Of two joints that are the ends of joints turning about one line, none  *)
(* is solved while the other is unknown, nor both at once.                 *)
LEMMA TakenStuck ==
  ASSUME NEW E \in Seq(Exps), NEW W \in SUBSET (1 .. Len(E)), NEW s, Taken(E, W, s),
         NEW y \in W, NEW x \in W, y < x,
         \A i, j \in y .. x : Turns(E[i]) /\ Aligned(E[i], E[j])
  PROVE  y \notin ToSet(s.ids) /\ x \notin ToSet(s.ids)
<1>1. PICK m \in W, p \in Vectors : TakenBy(E, W, s, m, p)
  BY TakenCases
<1>2. /\ Len(E) \in Nat /\ m \in 1 .. Len(E) /\ y \in 1 .. Len(E) /\ x \in 1 .. Len(E)
      /\ \A i \in y .. x : i \in 1 .. Len(E) /\ E[i] \in Exps
  OBVIOUS
<1>3. Turns(E[x]) /\ Turns(E[y]) /\ ~Slides(E[x]) /\ ~Slides(E[y])
  BY <1>2 DEF Turns, Slides
<1>4. \A q \in Vectors : \A i, j \in y .. x : Fixes(E[i], q) => Fixes(E[j], q)
  BY <1>2 DEF Aligned, Fixes
<1>5. ASSUME NEW j \in Int, y <= j, Covered(E, W, x, p) PROVE Covered(E, W, j, p)
  <2> SUFFICES ASSUME NEW i \in j .. Len(E), NEW u \in W, i <= u PROVE Fixes(E[i], p)
    BY DEF Covered
  <2>1. i \in 1 .. Len(E)
    BY <1>2, <1>5
  <2>2. CASE x <= i
    BY <1>2, <1>5, <2>1, <2>2, CoveredAt
  <2>3. CASE i < x
    <3>1. Fixes(E[x], p)
      BY <1>2, <1>5, CoveredAt
    <3>2. i \in y .. x /\ x \in y .. x
      BY <1>2, <1>5, <2>1, <2>3
    <3> QED BY <1>4, <3>1, <3>2
  <2> QED BY <1>2, <2>1, <2>2, <2>3
<1>6. CASE ToSet(s.ids) = {m} /\ Alone(E, W, m, p)
  <2>1. y # x /\ (m = x => ~(m < y)) /\ m \in Int
    BY <1>2
  <2>2. m # x
    BY <1>6, <2>1 DEF Alone
  <2>3. m # y
    BY <1>2, <1>5, <1>6, <2>1 DEF Alone
  <2> QED BY <1>6, <2>2, <2>3
<1>7. CASE ToSet(s.ids) = {m} /\ \E l \in W : Leads(E, W, m, l, p)
  BY <1>3, <1>7 DEF Leads
<1>8. CASE ToSet(s.ids) = {m} /\ \E f \in W : Trails(E, W, f, m, p)
  BY <1>3, <1>8 DEF Trails
<1>9. CASE ToSet(s.ids) = {m, m + 1} /\ Pair(E, W, m, p)
  <2>1. m + 1 \in Int /\ m < m + 1
    BY <1>2
  <2>2. ~(y = m /\ x = m + 1)
    <3> SUFFICES ASSUME y = m, x = m + 1 PROVE FALSE
      OBVIOUS
    <3>1. m \in y .. x /\ m + 1 \in y .. x
      BY <1>2
    <3>2. E[m] \in Exps /\ E[m + 1] \in Exps /\ Turns(E[m]) /\ Turns(E[m + 1])
              /\ Aligned(E[m + 1], E[m])
      BY <1>2, <3>1
    <3>3. ColinearAxes(E[m + 1], E[m])
      BY <3>2, AlignedColinear
    <3> QED BY <1>9, <3>2, <3>3 DEF Pair
  <2>3. ~(y \in {m, m + 1} /\ x \notin {m, m + 1})
    <3> SUFFICES ASSUME y \in {m, m + 1}, x \notin {m, m + 1} PROVE FALSE
      OBVIOUS
    <3>1. Covered(E, W, x, p) /\ ~Covered(E, W, m + 1, p)
      BY <1>9 DEF Pair
    <3>2. y <= m + 1
      BY <1>2
    <3> QED BY <1>5, <2>1, <3>1, <3>2
  <2>4. y \in {m, m + 1} \/ m + 1 < y
    BY <1>9 DEF Pair
  <2>5. x \in {m, m + 1} => y \in {m, m + 1}
    BY <1>2, <2>4
  <2>6. ~(y = m + 1 /\ x \in {m, m + 1})
    BY <1>2
  <2> QED BY <1>2, <1>9, <2>2, <2>3, <2>5, <2>6
<1>10. CASE ToSet(s.ids) = {m} /\ \E k \in Vectors : Middle(E, W, m, p, k)
  <2>1. PICK k \in Vectors : Middle(E, W, m, p, k)
    BY <1>10
  <2>2. y \in y .. x /\ x \in y .. x
    BY <1>2
  <2>3. m # y
    <3> SUFFICES ASSUME m = y PROVE FALSE
      OBVIOUS
    <3>1. m + 1 \in Int /\ m + 1 <= x /\ Covered(E, W, m + 1, p)
      BY <1>2, <2>1 DEF Middle
    <3>2. Fixes(E[x], p)
      BY <1>2, <3>1, CoveredAt
    <3> QED BY <1>4, <2>1, <2>2, <3>2 DEF Middle
  <2>4. m # x
    <3> SUFFICES ASSUME m = x PROVE FALSE
      OBVIOUS
    <3>1. m - 1 \in Int /\ y <= m - 1 /\ Shielded(E, W, m - 1, k)
      BY <1>2, <2>1 DEF Middle
    <3>2. Fixes(E[y], k)
      BY <1>2, <3>1, ShieldedAt
    <3> QED BY <1>4, <2>1, <2>2, <3>2 DEF Middle
  <2> QED BY <1>10, <2>3, <2>4
<1> QED BY <1>1, <1>6, <1>7, <1>8, <1>9, <1>10 DEF TakenBy

(* What is known before a step stays known.                                *)
LEMMA LeftParts ==
  ASSUME NEW E \in Seq(Exps), NEW steps, Len(steps) \in Nat, NEW c \in 1 .. Len(steps) + 1
  PROVE  /\ Left(E, steps, c) \in SUBSET (1 .. Len(E))
         /\ \A d \in 1 .. c - 1 : /\ d \in 1 .. Len(steps)
                                  /\ Left(E, steps, c)
                                        \in SUBSET (Left(E, steps, d) \ ToSet(steps[d].ids))
         /\ \A i \in 1 .. Len(E) \ Left(E, steps, c) : \E d \in 1 .. c - 1 : i \in ToSet(steps[d].ids)
<1>1. \A d \in 1 .. c - 1 : d \in 1 .. Len(steps) /\ \A e \in 1 .. d - 1 : e \in 1 .. c - 1
  OBVIOUS
<1>2. \A d \in 1 .. c - 1 : Learnt(steps, d) \subseteq Learnt(steps, c)
          /\ ToSet(steps[d].ids) \subseteq Learnt(steps, c)
  BY <1>1 DEF Learnt
<1>3. \A i \in Learnt(steps, c) : \E d \in 1 .. c - 1 : i \in ToSet(steps[d].ids)
  BY DEF Learnt
<1> QED BY <1>1, <1>2, <1>3 DEF Left

(* Whatever is left at a step of a history that solves all joints is       *)
(* solvable.                                                               *)
LEMMA LeftIsSolvable ==
  ASSUME NEW E \in Seq(Exps), NEW steps, Len(steps) \in Nat, History(E, steps),
         Left(E, steps, Len(steps) + 1) = {}, NEW c \in 1 .. Len(steps) + 1
  PROVE  Solvable(E, Left(E, steps, c))
<1> DEFINE U == Left(E, steps, c)
           L == Len(steps)
<1>1. U \in SUBSET (1 .. Len(E))
  BY LeftParts
<1>2. ASSUME NEW i \in 1 .. Len(E) \ U
      PROVE  \E d \in 1 .. L : /\ i \in ToSet(steps[d].ids) /\ Taken(E, Left(E, steps, d), steps[d])
                               /\ Left(E, steps, d) \in SUBSET (1 .. Len(E))
                               /\ U \in SUBSET (Left(E, steps, d) \ ToSet(steps[d].ids))
  <2>1. PICK d \in 1 .. c - 1 : i \in ToSet(steps[d].ids)
    BY LeftParts
  <2>2. d \in 1 .. L /\ d \in 1 .. L + 1 /\ U \in SUBSET (Left(E, steps, d) \ ToSet(steps[d].ids))
    BY LeftParts
  <2> QED BY <2>1, <2>2, LeftParts DEF History
<1>3. ASSUME NEW i \in 1 .. Len(E) \ U, NEW y \in U, y < i
      PROVE  (\E p, k \in Vectors : Late(E, U, i, p, k)) \/ LateSlide(E, U, i)
  BY <1>2, <1>3, TakenLate
<1>4. ASSUME NEW x \in 1 .. Len(E) \ U, NEW y \in U, x < y, Turns(E[x])
      PROVE  \E p \in Vectors : Covered(E, U, y, p)
  BY <1>2, <1>4, TakenEarly
<1>5. ASSUME NEW y \in U, NEW x \in U, y < x, \A i, j \in y .. x : Turns(E[i]) /\ Aligned(E[i], E[j])
      PROVE  FALSE
  <2> DEFINE W(d) == Left(E, steps, d)
  <2>1. ASSUME NEW d \in 1 .. L, y \in W(d), x \in W(d)
        PROVE  y \in W(d + 1) /\ x \in W(d + 1)
    <3>1. W(d) \in SUBSET (1 .. Len(E)) /\ Taken(E, W(d), steps[d])
      BY LeftParts DEF History
    <3>2. y \notin ToSet(steps[d].ids) /\ x \notin ToSet(steps[d].ids)
      BY <1>5, <2>1, <3>1, TakenStuck
    <3>3. \A e \in 1 .. (d + 1) - 1 : e = d \/ e \in 1 .. d - 1
      OBVIOUS
    <3>4. Learnt(steps, d + 1) \subseteq Learnt(steps, d) \cup ToSet(steps[d].ids)
      BY <3>3 DEF Learnt
    <3> QED BY <2>1, <3>2, <3>4 DEF Left
  <2>2. 0 .. L \subseteq {d \in 0 .. L : d + 1 >= c => y \in W(d + 1) /\ x \in W(d + 1)}
    <3> DEFINE T1 == {d \in 0 .. L : d + 1 >= c => y \in W(d + 1) /\ x \in W(d + 1)}
    <3>1. 0 \in T1
      OBVIOUS
    <3>2. ASSUME NEW d \in 1 .. L, d - 1 \in T1 PROVE d \in T1
      <4>1. (d - 1) + 1 = d /\ d \in 0 .. L
        OBVIOUS
      <4>2. CASE c <= d
        BY <2>1, <3>2, <4>1, <4>2
      <4>3. CASE d < c
        <5>1. d + 1 >= c => d + 1 = c
          BY <4>3
        <5> QED BY <4>1, <5>1
      <4> QED BY <4>2, <4>3
    <3> HIDE DEF T1
    <3>3. 0 .. L \subseteq T1
      BY <3>1, <3>2, Interval
    <3> QED BY <3>3 DEF T1
  <2>3. L \in 0 .. L /\ L + 1 >= c
    OBVIOUS
  <2> QED BY <2>2, <2>3
<1> QED BY <1>1, <1>3, <1>4, <1>5 DEF Solvable

(* Two unknown joints are not the ends of joints that are one line.        *)
LEMMA OneLine ==
  ASSUME NEW e \in Exps, NEW f \in Exps, NEW p \in Vectors, NEW q \in Vectors, p # q,
         Fixes(e, p), Fixes(f, p), Fixes(e, q), Fixes(f, q)
  PROVE  Aligned(e, f) /\ \A r \in Vectors : Fixes(e, r) => Fixes(f, r)
<1>1. Aligned(e, f)
  BY AlignedTwice DEF Fixes
<1> QED BY <1>1 DEF Aligned, Fixes

(* Joints that follow each other and turn about one point are a wrist, or  *)
(* one line.                                                               *)
LEMMA WristMade ==
  ASSUME NEW e \in Exps, NEW f \in Exps, NEW k \in Vectors, Fixes(e, k), Fixes(f, k),
         NEW r \in Vectors, Fixes(f, r), ~Fixes(e, r)
  PROVE  Turns(e) /\ Turns(f) /\ ~ParallelAxes(e, f) /\ IntersectingAxes(e, f)
<1>1. Turns(e) /\ Turns(f) /\ LiesOnAxis(e, k) /\ LiesOnAxis(f, k)
  BY DEF Fixes
<1>2. ~Aligned(e, f)
  BY <1>1 DEF Aligned, Fixes
<1>3. ~ParallelAxes(e, f)
  BY <1>1, <1>2, AlignedParallel
<1> QED BY <1>1, <1>3, Meet

(* Nor are they the ends of joints that all turn about two points.         *)
LEMMA StuckTwice ==
  ASSUME NEW E \in Seq(Exps), NEW U, Solvable(E, U), NEW m \in U, NEW v \in U, m < v,
         NEW p \in Vectors, NEW q \in Vectors, p # q,
         \A j \in m .. v : Fixes(E[j], p) /\ Fixes(E[j], q)
  PROVE  FALSE
<1>1. \A j \in m .. v : E[j] \in Exps
  BY DEF Solvable
<1>2. ASSUME NEW i \in m .. v, NEW j \in m .. v PROVE Turns(E[i]) /\ Aligned(E[i], E[j])
  BY <1>1, OneLine DEF Fixes
<1> QED BY <1>2 DEF Solvable

(* The joints in the plane of a translation keep along it.                 *)
LEMMA InPlane ==
  ASSUME NEW E \in Seq(Exps), NEW x \in 1 .. Len(E), NEW y \in 1 .. Len(E),
         \A j \in x .. y - 1 : PlanarMovement(E[j], E[j + 1]), \A j \in x .. y : Turns(E[j])
  PROVE  \A i, j \in x .. y : Along(E[i]) = Along(E[j])
<1>1. Len(E) \in Nat /\ \A j \in x .. y : j \in 1 .. Len(E) /\ E[j] \in Exps
  OBVIOUS
<1> DEFINE T == {d \in 0 .. Len(E) : x + d <= y => Along(E[x + d]) = Along(E[x])}
<1>2. 0 \in T
  BY <1>1
<1>3. ASSUME NEW d \in 1 .. Len(E), d - 1 \in T PROVE d \in T
  <2> SUFFICES ASSUME x + d <= y PROVE Along(E[x + d]) = Along(E[x])
    OBVIOUS
  <2>1. /\ x + (d - 1) \in x .. y - 1 /\ (x + (d - 1)) + 1 = x + d /\ x + d \in x .. y
        /\ x + (d - 1) \in x .. y /\ x + (d - 1) <= y
    BY <1>1
  <2>2. ParallelAxes(E[x + (d - 1)], E[x + d])
    BY <2>1 DEF PlanarMovement, Turns
  <2>3. E[x + d] \in Exps /\ E[x + (d - 1)] \in Exps
    BY <1>1, <2>1
  <2>4. Along(E[x + (d - 1)]) = Along(E[x + d])
    BY <2>2, <2>3, Directions
  <2>5. Along(E[x + (d - 1)]) = Along(E[x])
    BY <1>3, <2>1
  <2> QED BY <2>4, <2>5
<1>4. 0 .. Len(E) \subseteq T
  <2> HIDE DEF T
  <2> QED BY <1>1, <1>2, <1>3, Interval
<1>5. ASSUME NEW j \in x .. y PROVE Along(E[j]) = Along(E[x])
  <2>1. j - x \in 0 .. Len(E) /\ x + (j - x) = j /\ j <= y
    BY <1>1
  <2>2. j - x \in T
    BY <1>4, <2>1
  <2> QED BY <2>1, <2>2
<1> QED BY <1>5

(* When two joints are unknown the last two are not both known.            *)
LEMMA LastTwo ==
  ASSUME NEW E \in Seq(Exps), NEW U, Solvable(E, U), NEW m \in U, NEW v \in U, m < v,
         Len(E) \notin U, Len(E) - 1 \notin U
  PROVE  FALSE
<1> DEFINE n == Len(E)
<1>1. n \in Nat /\ m \in 1 .. n /\ v \in 1 .. n - 2 /\ U \subseteq 1 .. n
  BY DEF Solvable
<1>2. /\ n \in 1 .. n \ U /\ n - 1 \in 1 .. n \ U /\ m < n /\ m < n - 1
      /\ \A j \in m .. v : j \in 1 .. n /\ j <= n - 2 /\ m <= j
  BY <1>1
<1>3. (\E p, k \in Vectors : Late(E, U, n, p, k)) \/ LateSlide(E, U, n)
  BY <1>2 DEF Solvable
<1>4. (\E p, k \in Vectors : Late(E, U, n - 1, p, k)) \/ LateSlide(E, U, n - 1)
  BY <1>2 DEF Solvable
<1>5. ASSUME NEW p \in Vectors, NEW k \in Vectors, Late(E, U, n - 1, p, k)
      PROVE  ~Fixes(E[n - 1], k) /\ \A j \in m .. n - 2 : Fixes(E[j], k)
  <2>1. (n - 1) - 1 = n - 2 /\ \A j \in m .. n - 2 : j \in 1 .. n /\ j <= n - 2 /\ m <= j
    BY <1>1
  <2>2. Shielded(E, U, n - 2, k) /\ ~Fixes(E[n - 1], k) /\ n - 2 \in Int
    BY <1>1, <1>5, <2>1 DEF Late
  <2> QED BY <2>1, <2>2, ShieldedAt
<1>6. ASSUME NEW p \in Vectors, NEW k \in Vectors, Late(E, U, n, p, k)
      PROVE  \A j \in m .. n - 1 : Fixes(E[j], k)
  <2>1. \A j \in m .. n - 1 : j \in 1 .. n /\ j <= n - 1 /\ m <= j
    BY <1>1
  <2>2. Shielded(E, U, n - 1, k) /\ n - 1 \in Int
    BY <1>1, <1>6 DEF Late
  <2> QED BY <2>1, <2>2, ShieldedAt
<1>7. CASE \E p, k \in Vectors : Late(E, U, n, p, k)
  <2>1. PICK k \in Vectors : \A j \in m .. n - 1 : Fixes(E[j], k)
    BY <1>6, <1>7
  <2>2. n - 1 \in m .. n - 1 /\ \A j \in m .. v : j \in m .. n - 1 /\ j \in m .. n - 2
    BY <1>1, <1>2
  <2>3. ~LateSlide(E, U, n - 1)
    BY <2>1, <2>2 DEF Fixes, Turns, LateSlide, Slides
  <2>4. PICK h \in Vectors : ~Fixes(E[n - 1], h) /\ \A j \in m .. n - 2 : Fixes(E[j], h)
    BY <1>4, <1>5, <2>3
  <2>5. k # h
    BY <2>1, <2>2, <2>4
  <2> QED BY <2>1, <2>2, <2>4, <2>5, StuckTwice
<1>8. CASE LateSlide(E, U, n) /\ \E p, k \in Vectors : Late(E, U, n - 1, p, k)
  <2>1. PICK k \in Vectors : \A j \in m .. n - 2 : Fixes(E[j], k)
    BY <1>5, <1>8
  <2>2. \A j \in m .. n - 2 : PlanarMovement(E[j], E[j + 1])
    BY <1>2, <1>8 DEF LateSlide
  <2>3. \A j \in m .. n - 2 : Turns(E[j])
    BY <2>1 DEF Fixes
  <2>4. \A i, j \in m .. n - 2 : Along(E[i]) = Along(E[j])
    <3>1. n - 2 \in 1 .. n /\ \A j \in m .. (n - 2) - 1 : j \in m .. n - 2
      BY <1>1
    <3> QED BY <1>1, <2>2, <2>3, <3>1, InPlane
  <2>6. \A j \in m .. v : j \in m .. n - 2 /\ E[j] \in Exps
    BY <1>1
  <2>7. ASSUME NEW i \in m .. v, NEW j \in m .. v PROVE Turns(E[i]) /\ Aligned(E[i], E[j])
    <3>1. Fixes(E[i], k) /\ Fixes(E[j], k) /\ ParallelAxes(E[i], E[j]) /\ E[i] \in Exps /\ E[j] \in Exps
      BY <2>1, <2>4, <2>6, Directions
    <3> QED BY <3>1, AlignedParallel DEF Fixes
  <2> QED BY <2>7 DEF Solvable
<1>9. CASE LateSlide(E, U, n) /\ LateSlide(E, U, n - 1)
  <2>1. n - 2 \in m .. n - 2 /\ (n - 2) + 1 = n - 1 /\ (n - 1) - 1 = n - 2 /\ n - 2 \in 1 .. n
    BY <1>1
  <2>2. PlanarMovement(E[n - 2], E[n - 1])
    BY <1>2, <1>9, <2>1 DEF LateSlide
  <2>3. NormalPlaneMovement(E[n - 2], E[n - 1])
    BY <1>2, <1>9, <2>1 DEF LateSlide
  <2>4. E[n - 2] \in Exps /\ E[n - 1] \in Exps
    BY <1>2, <2>1
  <2> QED BY <2>2, <2>3, <2>4, NoPlaneAndNormal
<1> QED BY <1>3, <1>4, <1>7, <1>8, <1>9

(* Between an unknown joint and a known one that turns about a point, with *)
(* another point that all of them turn about, there is no other joint.     *)
LEMMA NextTo ==
  ASSUME NEW E \in Seq(Exps), NEW U, Solvable(E, U), NEW y \in U, NEW i \in 1 .. Len(E), y < i,
         NEW p \in Vectors, NEW q \in Vectors, p # q,
         \A j \in y .. i - 1 : Fixes(E[j], p) /\ Fixes(E[j], q)
  PROVE  i = y + 1
<1> SUFFICES ASSUME y + 1 # i PROVE FALSE
  OBVIOUS
<1> DEFINE x == y + 1
<1>1. Len(E) \in Nat /\ y \in 1 .. Len(E) /\ x \in 1 .. Len(E) /\ y < x /\ x \in y .. i - 1
          /\ y \in y .. i - 1
  BY DEF Solvable
<1>2. E[x] \in Exps /\ E[y] \in Exps /\ Fixes(E[x], p) /\ Fixes(E[y], p) /\ Fixes(E[x], q)
          /\ Fixes(E[y], q)
  BY <1>1
<1>3. CASE x \in U
  <2>1. \A j \in y .. x : j \in y .. i - 1
    BY <1>1
  <2> QED BY <1>1, <1>3, <2>1, StuckTwice
<1>4. CASE x \notin U
  <2>1. ~LateSlide(E, U, x)
    BY <1>2 DEF Fixes, Turns, LateSlide, Slides
  <2>2. PICK r \in Vectors, k \in Vectors : Late(E, U, x, r, k)
    BY <1>1, <1>4, <2>1 DEF Solvable
  <2>3. Shielded(E, U, x - 1, k) /\ ~Fixes(E[x], k) /\ x - 1 \in Int /\ y <= x - 1
    BY <1>1, <2>2 DEF Late
  <2>4. Fixes(E[y], k)
    BY <1>1, <2>3, ShieldedAt
  <2> QED BY <1>2, <2>3, <2>4, OneLine
<1> QED BY <1>3, <1>4

(* A joint that was solved late, and those before it, are no wrist: there  *)
(* is one more joint before them that is known, and a point that from them *)
(* on every joint turns about.                                             *)
LEMMA Behind ==
  ASSUME NEW E \in Seq(Exps), NEW U, Solvable(E, U), NEW y \in U, NEW i \in 1 .. Len(E), i = y + 1,
         NEW p \in Vectors, NEW k \in Vectors, Late(E, U, i, p, k), Fixes(E[y], k),
         NEW h \in Vectors, Fixes(E[i], h), Fixes(E[y], h)
  PROVE  \/ \E x \in U : x < y /\ \A j \in x .. y : Fixes(E[j], k)
         \/ \E r \in Vectors : Covered(E, U, y, r)
<1>1. /\ Len(E) \in Nat /\ y \in 1 .. Len(E) /\ i - 1 = y /\ i - 2 = y - 1
      /\ E[y] \in Exps /\ E[i] \in Exps /\ ~Fixes(E[i], k)
  BY DEF Solvable, Late
<1>2. Turns(E[i]) /\ Turns(E[y]) /\ ~ParallelAxes(E[i], E[y]) /\ IntersectingAxes(E[i], E[y])
  BY <1>1, WristMade
<1>3. PICK x \in 1 .. i - 2 : \A j \in x .. i - 1 : Fixes(E[j], k)
  BY <1>1, <1>2 DEF Late
<1>4. x \in 1 .. Len(E) /\ x < y /\ x \in x .. i - 1
  BY <1>1
<1>5. CASE x \in U
  BY <1>1, <1>3, <1>4, <1>5
<1>6. CASE x \notin U
  <2>1. Turns(E[x])
    BY <1>3, <1>4 DEF Fixes
  <2> QED BY <1>4, <1>6, <2>1 DEF Solvable
<1> QED BY <1>5, <1>6

(* No known joint that moves the point is before an unknown joint and a    *)
(* known one that leave it where it is: the joints would all turn about    *)
(* one line.                                                               *)
LEMMA Hidden ==
  ASSUME NEW E \in Seq(Exps), NEW U, Solvable(E, U), NEW m \in U, \A u \in U : m <= u,
         NEW i \in 1 .. Len(E) \ U, m < i, NEW p \in Vectors, ~Fixes(E[i], p),
         NEW a \in U, i < a, NEW b \in 1 .. Len(E) \ U, a < b, NEW u \in U, b < u, Covered(E, U, a, p)
  PROVE  FALSE
<1>1. /\ Len(E) \in Nat /\ m \in 1 .. Len(E) /\ a \in 1 .. Len(E) /\ u \in 1 .. Len(E) /\ m < a /\ m < b
      /\ \A j \in 1 .. Len(E) : E[j] \in Exps
  BY DEF Solvable
<1>2. Fixes(E[a], p) /\ Fixes(E[b], p)
  <2>1. a <= a /\ a <= b /\ b <= u /\ a <= u /\ a \in Int
    BY <1>1
  <2> QED BY <1>1, <2>1, CoveredAt
<1>3. PICK p2 \in Vectors, k2 \in Vectors : Late(E, U, b, p2, k2)
  <2>1. ~LateSlide(E, U, b)
    BY <1>2 DEF Fixes, Turns, LateSlide, Slides
  <2> QED BY <1>1, <2>1 DEF Solvable
<1>4. ~Fixes(E[b], k2) /\ \A j \in m .. b - 1 : Fixes(E[j], k2)
  <2>1. b - 1 \in Int /\ \A j \in m .. b - 1 : j \in 1 .. Len(E) /\ j <= b - 1 /\ m <= j
    BY <1>1
  <2>2. Shielded(E, U, b - 1, k2) /\ ~Fixes(E[b], k2)
    BY <1>3 DEF Late
  <2> QED BY <2>1, <2>2, ShieldedAt
<1>5. Fixes(E[i], k2) /\ Fixes(E[a], k2) /\ \A j \in m .. i - 1 : Fixes(E[j], k2)
  <2>1. i \in m .. b - 1 /\ a \in m .. b - 1 /\ \A j \in m .. i - 1 : j \in m .. b - 1
    BY <1>1
  <2> QED BY <1>4, <2>1
<1>6. PICK p1 \in Vectors, k1 \in Vectors : Late(E, U, i, p1, k1)
  <2>1. ~LateSlide(E, U, i)
    BY <1>5 DEF Fixes, Turns, LateSlide, Slides
  <2> QED BY <1>1, <2>1 DEF Solvable
<1>7. ~Fixes(E[i], p1) /\ ~Fixes(E[i], k1) /\ Fixes(E[a], p1) /\ \A j \in m .. i - 1 : Fixes(E[j], k1)
  <2>1. /\ i - 1 \in Int /\ i + 1 \in Int /\ i + 1 <= a /\ a <= u
        /\ \A j \in m .. i - 1 : j \in 1 .. Len(E) /\ j <= i - 1 /\ m <= j
    BY <1>1
  <2>2. Shielded(E, U, i - 1, k1) /\ ~Fixes(E[i], k1) /\ ~Fixes(E[i], p1) /\ Covered(E, U, i + 1, p1)
    BY <1>6 DEF Late
  <2>3. Fixes(E[a], p1)
    BY <1>1, <2>1, <2>2, CoveredAt
  <2> QED BY <2>1, <2>2, <2>3, ShieldedAt
<1>8. k1 # k2
  BY <1>5, <1>7
<1>9. i = m + 1
  <2>1. i \in 1 .. Len(E) /\ \A j \in m .. i - 1 : Fixes(E[j], k1) /\ Fixes(E[j], k2)
    BY <1>5, <1>7
  <2> QED BY <2>1, <1>3, <1>6, <1>8, NextTo
<1>10. Fixes(E[m], k1) /\ Fixes(E[m], k2)
  <2>1. m \in m .. i - 1
    BY <1>1
  <2> QED BY <1>5, <1>7, <2>1
<1>11. PICK r \in Vectors : Covered(E, U, m, r)
  <2>1. \A x \in U : ~(x < m)
    BY <1>1 DEF Solvable
  <2> QED BY <1>5, <1>6, <1>9, <1>10, <2>1, Behind
<1>12. Fixes(E[i], r) /\ Fixes(E[a], r) /\ Fixes(E[b], r)
  <2>1. m \in Int /\ m <= i /\ i <= u /\ m <= a /\ a <= u /\ m <= b /\ b <= u
    BY <1>1
  <2> QED BY <1>1, <1>11, <2>1, CoveredAt
<1>13. r # k2
  BY <1>4, <1>12
<1>14. Fixes(E[i], p1)
  BY <1>1, <1>5, <1>7, <1>12, <1>13, OneLine
<1> QED BY <1>7, <1>14

(* No known joint is between two unknown ones when the joints from the     *)
(* first up to the second leave a point where it is that the second moves. *)
LEMMA Stranded ==
  ASSUME NEW E \in Seq(Exps), NEW U, Solvable(E, U), NEW m \in U, NEW k \in Vectors, ~Fixes(E[m], k),
         Shielded(E, U, m - 1, k), NEW i \in 1 .. Len(E) \ U, i < m, NEW y \in U, y < i
  PROVE  FALSE
<1>1. /\ Len(E) \in Nat /\ m \in 1 .. Len(E) /\ y \in 1 .. Len(E)
      /\ \A j \in 1 .. Len(E) : E[j] \in Exps
  BY DEF Solvable
<1>2. Fixes(E[i], k) /\ \A x \in U : \A j \in x .. m - 1 : Fixes(E[j], k)
  <2>1. m - 1 \in Int /\ i <= m - 1 /\ y <= i
    BY <1>1
  <2>2. ASSUME NEW x \in U, NEW j \in x .. m - 1 PROVE j \in 1 .. Len(E) /\ j <= m - 1 /\ x <= j
    BY <1>1 DEF Solvable
  <2> QED BY <2>1, <2>2, ShieldedAt
<1>3. PICK p1 \in Vectors, k1 \in Vectors : Late(E, U, i, p1, k1)
  <2>1. ~LateSlide(E, U, i)
    BY <1>2 DEF Fixes, Turns, LateSlide, Slides
  <2> QED BY <1>1, <2>1 DEF Solvable
<1>4. ~Fixes(E[i], k1) /\ \A j \in y .. i - 1 : Fixes(E[j], k1)
  <2>1. i - 1 \in Int /\ \A j \in y .. i - 1 : j \in 1 .. Len(E) /\ j <= i - 1 /\ y <= j
    BY <1>1
  <2>2. Shielded(E, U, i - 1, k1) /\ ~Fixes(E[i], k1)
    BY <1>3 DEF Late
  <2> QED BY <2>1, <2>2, ShieldedAt
<1>5. k # k1
  BY <1>2, <1>4
<1>6. \A j \in y .. i - 1 : Fixes(E[j], k) /\ Fixes(E[j], k1)
  <2>1. \A j \in y .. i - 1 : j \in y .. m - 1
    BY <1>1
  <2> QED BY <1>2, <1>4, <2>1
<1>7. i = y + 1
  <2>1. i \in 1 .. Len(E)
    OBVIOUS
  <2> QED BY <2>1, <1>3, <1>5, <1>6, NextTo
<1>8. Fixes(E[y], k) /\ Fixes(E[y], k1)
  <2>1. y \in y .. i - 1
    BY <1>1
  <2> QED BY <1>6, <2>1
<1>9. CASE \E x \in U : x < y /\ \A j \in x .. y : Fixes(E[j], k1)
  <2>1. PICK x \in U : x < y /\ \A j \in x .. y : Fixes(E[j], k1)
    BY <1>9
  <2>2. \A j \in x .. y : j \in x .. m - 1
    BY <1>1, <1>7 DEF Solvable
  <2> QED BY <1>2, <1>5, <2>1, <2>2, StuckTwice
<1>10. CASE \E r \in Vectors : Covered(E, U, y, r)
  <2>1. PICK r \in Vectors : Covered(E, U, y, r)
    BY <1>10
  <2>2. y \in Int /\ y <= y /\ y <= i /\ i <= m /\ y <= m
    BY <1>1
  <2>3. Fixes(E[y], r) /\ Fixes(E[i], r) /\ Fixes(E[m], r)
    BY <1>1, <2>1, <2>2, CoveredAt
  <2>4. r # k
    BY <2>3
  <2>5. Fixes(E[i], k1)
    BY <1>1, <1>2, <1>8, <2>3, <2>4, OneLine
  <2> QED BY <1>4, <2>5
<1> QED BY <1>2, <1>3, <1>7, <1>8, <1>9, <1>10, Behind

---------------------------------------------------------------------------
(* The terms when the joints of U are unknown, those of V still without a  *)
(* value: the known ones at either end are computed, at the end the last   *)
(* one only.                                                               *)
TermState(n, U, V, t) ==
  /\ V \subseteq U /\ DOMAIN t = 1 .. n
  /\ \A i \in 1 .. n :
       /\ t[i] = "computed" <=> (\A j \in 1 .. i : j \notin U) \/ (i = n /\ n \notin U)
       /\ t[i] = "unknown" <=> i \in V
       /\ t[i] \in {"unknown", "known", "computed"}

(* What is applied to the point is known, and no unknown term with a known *)
(* one beyond it comes after.                                              *)
LEMMA AppliedParts ==
  ASSUME NEW n \in Nat, NEW t, DOMAIN t = 1 .. n, NEW i \in TransformPoint(t)
  PROVE  /\ i \in 1 .. n /\ t[i] = "known"
         /\ \A a \in i + 1 .. n : \A b \in a + 1 .. n : ~(t[a] = "unknown" /\ t[b] = "known")
<1>1. i \in 1 .. n /\ t[i] = "known"
  BY DEF TransformPoint
<1>2. ASSUME NEW a \in i + 1 .. n, NEW b \in a + 1 .. n, t[a] = "unknown", t[b] = "known" PROVE FALSE
  <2>1. /\ a \in i + 1 .. Len(t) /\ b \in a + 1 .. Len(t)
    BY <1>1
  <2> QED BY <1>2, <2>1 DEF TransformPoint
<1> QED BY <1>1, <1>2

(* A known term that is not applied has such a term after it.              *)
LEMMA AppliedMade ==
  ASSUME NEW n \in Nat, NEW U, NEW V, NEW t, TermState(n, U, V, t), NEW i \in 1 .. n, t[i] = "known",
         i \notin TransformPoint(t)
  PROVE  \E a \in i + 1 .. n : \E b \in a + 1 .. n : t[a] = "unknown" /\ t[b] = "known"
<1>1. DOMAIN t = 1 .. n /\ Len(t) = n
  BY DEF TermState
<1>2. PICK a \in i + 1 .. n :
           \/ t[a] = "unknown"  /\ \E b \in a + 1 .. n : t[b] = "known"
           \/ t[a] = "computed" /\ \E b \in a + 1 .. n : t[b] # "computed"
  BY <1>1 DEF TransformPoint
<1>3. CASE t[a] = "computed" /\ \E b \in a + 1 .. n : t[b] # "computed"
  <2>1. PICK y \in 1 .. i : y \in U
    BY DEF TermState
  <2>2. a \in 1 .. n /\ y \in 1 .. a /\ a # n
    BY <1>3
  <2> QED BY <1>3, <2>1, <2>2 DEF TermState
<1> QED BY <1>2, <1>3

(* A subproblem about m and joints up to top: the unknown joints further   *)
(* on leave the point where it is.                                         *)
Settled(E, U, V, t, p, m, top, ids) ==
  /\ TermState(Len(E), U, V, t) /\ m \in U /\ top \in Int /\ m <= top
  /\ \A x \in ids : x \in Int /\ x <= top
  /\ \A u \in U : top < u => u \in V /\ Covered(E, U, u, p)
  /\ (\A u \in U : m <= u) \/ Covered(E, U, top + 1, p)

(* Every known term after the joints of a subproblem is applied to the     *)
(* point, or, the point being as it was, leaves it where it is.            *)
LEMMA AccountedFor ==
  ASSUME NEW E \in Seq(Exps), NEW U, Solvable(E, U), NEW V, NEW t,
         NEW p \in Vectors, NEW m, NEW top, NEW ids, Settled(E, U, V, t, p, m, top, ids),
         NEW i \in 1 .. Len(E), top < i, t[i] # "computed"
  PROVE  \/ i \in TransformPoint(t) \ ids
         \/ Fixes(E[i], p) /\ \A j \in TransformPoint(t) \ ids : j > i => Fixes(E[j], p)
<1>0. /\ TermState(Len(E), U, V, t) /\ m \in U /\ top \in Int /\ m <= top
      /\ \A x \in ids : x \in Int /\ x <= top
      /\ \A u \in U : top < u => u \in V /\ Covered(E, U, u, p)
      /\ (\A u \in U : m <= u) \/ Covered(E, U, top + 1, p)
  BY DEF Settled
<1> DEFINE n == Len(E)
<1>1. n \in Nat /\ U \subseteq 1 .. n /\ V \subseteq U /\ DOMAIN t = 1 .. n /\ i \notin ids /\ m < i
  BY <1>0 DEF Solvable, TermState
<1>2. ASSUME NEW j \in 1 .. n, top < j, t[j] = "known"
      PROVE  j \notin U /\ ((\E v \in U : m < v) => \E u \in U : j < u)
  <2>1. j \notin U
    BY <1>0, <1>2 DEF TermState
  <2>2. j # n
    BY <1>0, <1>2, <2>1 DEF TermState
  <2>3. ASSUME NEW v \in U, m < v, \A u \in U : ~(j < u) PROVE FALSE
    <3>1. n \notin U /\ n - 1 \notin U
      BY <1>0, <1>1, <2>1, <2>2, <2>3
    <3> QED BY <1>0, <2>3, <3>1, LastTwo
  <2> QED BY <1>0, <2>1, <2>3
<1>3. ASSUME NEW a \in U, top < a, NEW j \in TransformPoint(t), a < j PROVE Fixes(E[j], p)
  <2>1. j \in 1 .. n /\ t[j] = "known" /\ a \in 1 .. n /\ top < j /\ m < a
    BY <1>0, <1>1, <1>3, AppliedParts
  <2>2. PICK u \in U : j < u
    BY <1>0, <1>2, <1>3, <2>1
  <2>3. Covered(E, U, a, p) /\ a <= j /\ j <= u /\ a \in Int
    BY <1>0, <1>1, <1>3, <2>1, <2>2
  <2> QED BY <1>0, <2>1, <2>2, <2>3, CoveredAt
<1>4. CASE i \in U
  <2>1. Fixes(E[i], p)
    <3>1. Covered(E, U, i, p) /\ i <= i /\ i \in Int
      BY <1>0, <1>4
    <3> QED BY <1>0, <1>4, <3>1, CoveredAt
  <2> QED BY <1>0, <1>3, <1>4, <2>1
<1>5. CASE i \notin U /\ i \notin TransformPoint(t)
  <2>1. t[i] = "known"
    BY <1>0, <1>5 DEF TermState
  <2>2. PICK a \in i + 1 .. n : \E b \in a + 1 .. n : t[a] = "unknown" /\ t[b] = "known"
    BY <1>0, <1>1, <1>5, <2>1, AppliedMade
  <2>3. PICK b \in a + 1 .. n : t[a] = "unknown" /\ t[b] = "known"
    BY <1>0, <2>2
  <2>4. a \in U /\ a \in 1 .. n /\ b \in 1 .. n /\ i < a /\ a < b /\ top < a /\ top < b /\ m < a
    BY <1>0, <1>1, <2>3 DEF TermState
  <2>5. PICK u \in U : b < u
    BY <1>0, <1>2, <2>3, <2>4
  <2>6. b \notin U /\ Covered(E, U, a, p)
    BY <1>0, <1>2, <2>3, <2>4
  <2>7. Fixes(E[i], p)
    <3> SUFFICES ASSUME ~Fixes(E[i], p) PROVE FALSE
      BY <1>0
    <3>1. CASE \A v \in U : m <= v
      <4>1. i \in 1 .. Len(E) \ U /\ b \in 1 .. Len(E) \ U
        BY <1>0, <1>5, <2>4, <2>6
      <4> QED BY <1>0, <1>1, <2>4, <2>5, <2>6, <3>1, <4>1, Hidden
    <3>2. CASE Covered(E, U, top + 1, p)
      <4>1. top + 1 \in Int /\ top + 1 <= i /\ i <= a
        BY <1>0, <2>4
      <4> QED BY <1>0, <2>4, <3>2, <4>1, CoveredAt
    <3> QED BY <1>0, <3>1, <3>2
  <2>8. ASSUME NEW j \in TransformPoint(t), j > i PROVE Fixes(E[j], p)
    <3>1. /\ j \in 1 .. n /\ t[j] = "known"
          /\ \A c \in j + 1 .. n : \A d \in c + 1 .. n : ~(t[c] = "unknown" /\ t[d] = "known")
      BY <1>0, <1>1, AppliedParts
    <3>2. ~(j < a)
      <4>1. j < a => a \in j + 1 .. n
        BY <1>0, <2>4, <3>1
      <4> QED BY <1>0, <2>3, <3>1, <4>1
    <3>3. j # a
      BY <1>0, <2>3, <3>1
    <3>4. a < j
      BY <1>0, <2>4, <3>1, <3>2, <3>3
    <3> QED BY <1>0, <1>3, <2>4, <3>4
  <2> QED BY <1>0, <2>7, <2>8
<1>6. CASE i \in TransformPoint(t)
  BY <1>0, <1>1, <1>6
<1> QED BY <1>0, <1>4, <1>5, <1>6

(* What the terms before the joints of a subproblem are.                   *)
LEMMA BeforeThem ==
  ASSUME NEW n \in Nat, NEW U \in SUBSET (1 .. n), NEW V, NEW t, TermState(n, U, V, t),
         NEW i \in 1 .. n, t[i] # "computed"
  PROVE  (\E y \in U : y <= i) /\ i \in DOMAIN t
BY DEF TermState

(* The terms that are applied to the point.                                *)
LEMMA AppliedOn ==
  ASSUME NEW n \in Nat, NEW U \in SUBSET (1 .. n), NEW V, NEW t, TermState(n, U, V, t), NEW ids,
         U \ ids \subseteq V
  PROVE  \A j \in TransformPoint(t) \ ids : j \in 1 .. n \ U /\ t[j] # "computed"
<1> SUFFICES ASSUME NEW j \in TransformPoint(t) \ ids PROVE j \in 1 .. n \ U /\ t[j] # "computed"
  OBVIOUS
<1>1. j \in 1 .. n /\ t[j] = "known"
  BY AppliedParts DEF TermState
<1> QED BY <1>1 DEF TermState

(* The first unknown joint, the others leaving the point where it is.      *)
LEMMA EquationAlone ==
  ASSUME NEW poe, poe.exps \in Seq(Exps), NEW U, Solvable(poe.exps, U), NEW V, NEW t,
         TermState(Len(poe.exps), U, V, t), NEW s, NEW m, NEW p \in Vectors, s.ids = <<m>>,
         s.points[1] = p,
         U \ {m} \subseteq V, Alone(poe.exps, U, m, p), s.kind \in {"PadenKahanOne", "PardosGotorOne"}
  PROVE  EquationHolds(poe, t, s)
<1> DEFINE E == poe.exps
           applied == TransformPoint(t) \ ToSet(s.ids)
           on == {i \in DOMAIN t : t[i] # "computed"} \ ToSet(s.ids)
<1>1. /\ Len(E) \in Nat /\ U \in SUBSET (1 .. Len(E)) /\ m \in U /\ \A u \in U : m <= u
      /\ ToSet(s.ids) = {m} /\ s.ids[1] = m /\ DOMAIN t = 1 .. Len(E) /\ m \in Int
  BY Ids DEF Solvable, Alone, TermState
<1>2. ASSUME NEW i \in on PROVE i > m
  <2>1. i \in 1 .. Len(E) /\ t[i] # "computed" /\ i # m /\ i \in Int
    BY <1>1
  <2>2. PICK y \in U : y <= i
    BY <1>1, <2>1, BeforeThem
  <2>3. m <= y /\ y \in Int
    BY <1>1
  <2> HIDE DEF E
  <2> QED BY <1>1, <2>1, <2>2, <2>3
<1>3. applied \subseteq on
  <2>1. U \ ToSet(s.ids) \subseteq V
    BY <1>1
  <2> QED BY <1>1, <2>1, AppliedOn
<1>4. ASSUME NEW i \in on PROVE i \in applied
                 \/ (Fixes(E[i], p) /\ \A j \in applied : j > i => Fixes(E[j], p))
  <2>1. i \in 1 .. Len(E) /\ m < i /\ t[i] # "computed"
    BY <1>1, <1>2
  <2>2. \A u \in U : m < u => u \in V /\ Covered(E, U, u, p)
    BY <1>1 DEF Alone
  <2>3. \A x \in ToSet(s.ids) : x \in Int /\ x <= m
    BY <1>1
  <2>4. Settled(E, U, V, t, p, m, m, ToSet(s.ids))
    BY <1>1, <2>2, <2>3 DEF Settled
  <2> QED BY <2>1, <2>4, AccountedFor
<1> HIDE DEF applied, on
<1>5. \A i \in on : ~(i < m)
  BY <1>1, <1>2 DEF on
<1> QED BY <1>1, <1>2, <1>3, <1>4, <1>5 DEF EquationHolds, applied, on

(* The first two unknown joints.                                           *)
LEMMA EquationPair ==
  ASSUME NEW poe, poe.exps \in Seq(Exps), NEW U, Solvable(poe.exps, U), NEW V, NEW t,
         TermState(Len(poe.exps), U, V, t), NEW s, NEW m, NEW p \in Vectors, s.ids = <<m, m + 1>>,
         s.points[1] = p,
         U \ {m, m + 1} \subseteq V, Pair(poe.exps, U, m, p),
         s.kind \in {"PadenKahanTwo", "PardosGotorTwo", "PardosGotorFour"}
  PROVE  EquationHolds(poe, t, s)
<1> DEFINE E == poe.exps
           applied == TransformPoint(t) \ ToSet(s.ids)
           on == {i \in DOMAIN t : t[i] # "computed"} \ ToSet(s.ids)
<1>1. /\ Len(E) \in Nat /\ U \in SUBSET (1 .. Len(E)) /\ m \in U /\ m + 1 \in U
      /\ ToSet(s.ids) = {m, m + 1} /\ s.ids[1] = m /\ DOMAIN t = 1 .. Len(E) /\ m \in Int
  BY Ids DEF Solvable, Pair, TermState
<1>2. \A u \in U : m <= u
  BY <1>1 DEF Pair
<1>3. \A i \in on : i > m + 1 /\ i > m
  BY <1>1, <1>2, BeforeThem
<1>4. applied \subseteq on
  <2>1. U \ ToSet(s.ids) \subseteq V
    BY <1>1
  <2> QED BY <1>1, <2>1, AppliedOn
<1>5. ASSUME NEW i \in on PROVE i \in applied
                 \/ (Fixes(E[i], p) /\ \A j \in applied : j > i => Fixes(E[j], p))
  <2>0. PICK top \in Int : top = m + 1
    BY <1>1
  <2>1. i \in 1 .. Len(E) /\ top < i /\ t[i] # "computed" /\ m <= top
    BY <1>1, <1>3, <2>0
  <2>2. \A u \in U : top < u => u \in V /\ Covered(E, U, u, p)
    BY <1>1, <2>0 DEF Pair
  <2>3. \A x \in ToSet(s.ids) : x \in Int /\ x <= top
    BY <1>1, <2>0
  <2>4. Settled(E, U, V, t, p, m, top, ToSet(s.ids))
    BY <1>1, <1>2, <2>0, <2>1, <2>2, <2>3 DEF Settled
  <2> QED BY <2>1, <2>4, AccountedFor
<1> HIDE DEF applied, on
<1>6. \A i \in on : ~(i < m)
  BY <1>1, <1>3 DEF on
<1> QED BY <1>1, <1>3, <1>4, <1>5, <1>6 DEF EquationHolds, applied, on

(* Any unknown joint, between the points of either side.                   *)
LEMMA EquationMiddle ==
  ASSUME NEW poe, poe.exps \in Seq(Exps), NEW U, Solvable(poe.exps, U), NEW V, NEW t,
         TermState(Len(poe.exps), U, V, t), NEW s, NEW m, NEW p \in Vectors, NEW k \in Vectors,
         s.ids = <<m>>, s.points[1] = p, s.points[2] = k,
         U \ {m} \subseteq V, Middle(poe.exps, U, m, p, k),
         s.kind \in {"PadenKahanThree", "PardosGotorThree"}
  PROVE  EquationHolds(poe, t, s)
<1> DEFINE E == poe.exps
           applied == TransformPoint(t) \ ToSet(s.ids)
           on == {i \in DOMAIN t : t[i] # "computed"} \ ToSet(s.ids)
<1>1. /\ Len(E) \in Nat /\ U \in SUBSET (1 .. Len(E)) /\ m \in U
      /\ ToSet(s.ids) = {m} /\ s.ids[1] = m /\ DOMAIN t = 1 .. Len(E) /\ m \in Int
  BY Ids DEF Solvable, Middle, TermState
<1>2. applied \subseteq on /\ \A j \in applied : j \in 1 .. Len(E) \ U
  <2>1. U \ ToSet(s.ids) \subseteq V
    BY <1>1
  <2> QED BY <1>1, <2>1, AppliedOn
<1>3. \A i \in on : i \in 1 .. Len(E) /\ t[i] # "computed" /\ i # m /\ \E y \in U : y <= i
  BY <1>1, BeforeThem
<1>4. ASSUME NEW i \in on, i < m PROVE Fixes(E[i], k) /\ i \notin applied
  <2>1. PICK y \in U : y <= i
    BY <1>3
  <2>2. Shielded(E, U, m - 1, k) /\ ~Fixes(E[m], k) /\ m - 1 \in Int /\ i <= m - 1 /\ i \in 1 .. Len(E)
    BY <1>1, <1>3, <1>4 DEF Middle
  <2>3. Fixes(E[i], k)
    BY <2>1, <2>2, ShieldedAt
  <2>4. i \notin applied
    <3> SUFFICES ASSUME i \in applied PROVE FALSE
      OBVIOUS
    <3>1. i \in 1 .. Len(E) \ U /\ y < i
      BY <1>1, <1>2, <2>1, <2>2
    <3> QED BY <1>1, <1>4, <2>1, <2>2, <3>1, Stranded
  <2> QED BY <2>3, <2>4
<1>5. ASSUME NEW i \in on, i > m
      PROVE  i \in applied \/ (Fixes(E[i], p) /\ \A j \in applied : j > i => Fixes(E[j], p))
  <2>1. i \in 1 .. Len(E) /\ m < i /\ t[i] # "computed"
    BY <1>1, <1>3, <1>5
  <2>2. \A x \in ToSet(s.ids) : x \in Int /\ x <= m
    BY <1>1
  <2>3. Covered(E, U, m + 1, p)
    BY DEF Middle
  <2>4. ASSUME NEW u \in U, m < u PROVE u \in V /\ Covered(E, U, u, p)
    <3>1. u \in V /\ u \in Int /\ m + 1 \in Int /\ m + 1 <= u
      BY <1>1, <2>4
    <3> QED BY <2>3, <3>1, CoveredLess
  <2>5. Settled(E, U, V, t, p, m, m, ToSet(s.ids))
    BY <1>1, <2>2, <2>3, <2>4 DEF Settled
  <2> QED BY <2>1, <2>5, AccountedFor
<1> HIDE DEF applied, on
<1>6. \A j \in applied : j > m
  BY <1>1, <1>2, <1>3, <1>4
<1> QED BY <1>1, <1>2, <1>4, <1>5, <1>6 DEF EquationHolds, applied, on

(* A translation at either end: the joints in its plane keep along it, but *)
(* for the case the property leaves out.                                   *)
LEMMA EquationEnd ==
  ASSUME NEW poe, poe.exps \in Seq(Exps), NEW U, Solvable(poe.exps, U), NEW V, NEW t,
         TermState(Len(poe.exps), U, V, t), NEW s, NEW m, NEW p \in Vectors, s.ids = <<m>>,
         s.points[1] = p,
         U \ {m} \subseteq V, s.kind = "PardosGotorOne",
         NEW f, NEW l, Ends(poe.exps, U, f, l, p), m \in {f, l},
         \A i \in f .. l : i # m /\ Turns(poe.exps[i]) => KeepsAlong(poe.exps[i], poe.exps[m].axis),
         ~\E i \in DOMAIN t : t[i] # "computed" /\ i # m /\ Slides(poe.exps[i])
  PROVE  EquationHolds(poe, t, s)
<1> DEFINE E == poe.exps
           applied == TransformPoint(t) \ ToSet(s.ids)
           on == {i \in DOMAIN t : t[i] # "computed"} \ ToSet(s.ids)
<1>1. /\ Len(E) \in Nat /\ U \in SUBSET (1 .. Len(E)) /\ f \in U /\ l \in U /\ f < l /\ m \in U
      /\ ToSet(s.ids) = {m} /\ s.ids[1] = m /\ DOMAIN t = 1 .. Len(E) /\ m \in Int /\ f \in Int
             /\ l \in Int
      /\ \A u \in U : f <= u /\ (l < u => Covered(E, U, u, p))
  BY Ids DEF Solvable, Ends, TermState
<1>2. \A i \in on : i \in 1 .. Len(E) /\ t[i] # "computed" /\ i # m /\ f <= i
  BY <1>1, BeforeThem
<1>3. ASSUME NEW i \in on PROVE E[i] \in Exps /\ Turns(E[i])
  <2>1. i \in 1 .. Len(E) /\ E[i] \in Exps /\ i \in DOMAIN t /\ t[i] # "computed" /\ i # m
    BY <1>1, <1>2
  <2>2. ~Slides(E[i])
    BY <2>1
  <2> QED BY <2>1, <2>2 DEF Exps, Turns, Slides
<1>4. \A i \in on : i <= l => KeepsAlong(E[i], E[m].axis)
  BY <1>1, <1>2, <1>3
<1>5. ASSUME NEW i \in on, ~(i <= l)
      PROVE  i > m /\ (i \in applied \/ (Fixes(E[i], p) /\ \A j \in applied : j > i => Fixes(E[j], p)))
  <2>1. i \in 1 .. Len(E) /\ l < i /\ t[i] # "computed" /\ i > m
    BY <1>1, <1>2, <1>5
  <2>2. \A u \in U : l < u => u \in V /\ Covered(E, U, u, p)
    BY <1>1
  <2>3. \A x \in ToSet(s.ids) : x \in Int /\ x <= l
    BY <1>1
  <2>4. Settled(E, U, V, t, p, f, l, ToSet(s.ids))
    BY <1>1, <2>2, <2>3 DEF Settled
  <2> QED BY <2>1, <2>4, AccountedFor
<1> HIDE DEF applied, on
<1>6. \A i \in on : \/ KeepsAlong(E[i], E[m].axis)
                    \/ i > m /\ (i \in applied
                           \/ (Fixes(E[i], p) /\ \A j \in applied : j > i => Fixes(E[j], p)))
  BY <1>4, <1>5
<1> QED BY <1>1, <1>6 DEF EquationHolds, applied, on

(* The translation is the first unknown joint,                             *)
LEMMA EquationLeads ==
  ASSUME NEW poe, poe.exps \in Seq(Exps), NEW U, Solvable(poe.exps, U), NEW V, NEW t,
         TermState(Len(poe.exps), U, V, t), NEW s, NEW m, NEW p \in Vectors, s.ids = <<m>>,
         s.points[1] = p,
         U \ {m} \subseteq V, s.kind = "PardosGotorOne", NEW l \in U, Leads(poe.exps, U, m, l, p),
         ~\E i \in DOMAIN t : t[i] # "computed" /\ i # m /\ Slides(poe.exps[i])
  PROVE  EquationHolds(poe, t, s)
<1> DEFINE E == poe.exps
<1>1. /\ Len(E) \in Nat /\ U \in SUBSET (1 .. Len(E)) /\ m \in 1 .. Len(E) /\ l \in 1 .. Len(E)
             /\ m < l /\ m \in U
      /\ DOMAIN t = 1 .. Len(E) /\ \A i \in 1 .. Len(E) : E[i] \in Exps
  BY DEF Solvable, Leads, Ends, TermState
<1>2. ASSUME NEW i \in m + 1 .. l PROVE Turns(E[i])
  <2>1. i \in 1 .. Len(E) /\ m \in 1 .. i /\ i # m /\ (i = Len(E) => i = l)
    BY <1>1
  <2>2. t[i] # "computed"
    BY <1>1, <2>1 DEF TermState
  <2> QED BY <1>1, <2>1, <2>2 DEF Exps, Turns, Slides
<1>3. \A i, j \in m + 1 .. l : Along(E[i]) = Along(E[j])
  <2>1. m + 1 \in 1 .. Len(E)
    BY <1>1
  <2> QED BY <1>1, <1>2, <2>1, InPlane DEF Leads
<1>4. Along(E[m]) = Along(E[m + 1])
  <2>1. m + 1 \in 1 .. Len(E) /\ m + 1 \in m + 1 .. l
    BY <1>1
  <2>2. Slides(E[m]) /\ Turns(E[m + 1]) /\ NormalPlaneMovement(E[m], E[m + 1])
    BY <1>2, <2>1 DEF Leads
  <2>3. ParallelAxes(E[m], E[m + 1])
    BY <2>2 DEF NormalPlaneMovement, Turns, Slides
  <2> QED BY <1>1, <2>1, <2>3, Directions
<1>5. ASSUME NEW i \in m .. l, i # m, Turns(E[i]) PROVE KeepsAlong(E[i], E[m].axis)
  <2>1. i \in m + 1 .. l /\ m + 1 \in m + 1 .. l /\ i \in 1 .. Len(E)
    BY <1>1, <1>5
  <2>2. Along(E[i]) = Along(E[m])
    BY <1>3, <1>4, <2>1
  <2>3. ParallelAxes(E[i], E[m])
    BY <1>1, <2>1, <2>2, Directions
  <2> QED BY <1>5, <2>3 DEF KeepsAlong, ParallelAxes
<1> QED BY <1>1, <1>5, EquationEnd DEF Leads

(* or the last one that moves the point.                                   *)
LEMMA EquationTrails ==
  ASSUME NEW poe, poe.exps \in Seq(Exps), NEW U, Solvable(poe.exps, U), NEW V, NEW t,
         TermState(Len(poe.exps), U, V, t), NEW s, NEW m, NEW p \in Vectors, s.ids = <<m>>,
         s.points[1] = p,
         U \ {m} \subseteq V, s.kind = "PardosGotorOne", NEW f \in U, Trails(poe.exps, U, f, m, p),
         ~\E i \in DOMAIN t : t[i] # "computed" /\ i # m /\ Slides(poe.exps[i])
  PROVE  EquationHolds(poe, t, s)
<1> DEFINE E == poe.exps
<1>1. /\ Len(E) \in Nat /\ U \in SUBSET (1 .. Len(E)) /\ m \in 1 .. Len(E) /\ f \in 1 .. Len(E)
             /\ f < m /\ m \in U
      /\ DOMAIN t = 1 .. Len(E) /\ \A i \in 1 .. Len(E) : E[i] \in Exps
  BY DEF Solvable, Trails, Ends, TermState
<1>2. ASSUME NEW i \in f .. m - 1 PROVE Turns(E[i])
  <2>1. i \in 1 .. Len(E) /\ f \in 1 .. i /\ i # m /\ i # Len(E)
    BY <1>1
  <2>2. t[i] # "computed"
    BY <1>1, <2>1 DEF TermState
  <2> QED BY <1>1, <2>1, <2>2 DEF Exps, Turns, Slides
<1>3. \A i, j \in f .. m - 1 : Along(E[i]) = Along(E[j])
  <2>1. m - 1 \in 1 .. Len(E) /\ \A j \in f .. (m - 1) - 1 : j \in f .. m - 2
    BY <1>1
  <2> QED BY <1>1, <1>2, <2>1, InPlane DEF Trails
<1>4. Along(E[m]) = Along(E[m - 1])
  <2>1. m - 1 \in 1 .. Len(E) /\ m - 1 \in f .. m - 1
    BY <1>1
  <2>2. Slides(E[m]) /\ Turns(E[m - 1]) /\ NormalPlaneMovement(E[m - 1], E[m])
    BY <1>2, <2>1 DEF Trails
  <2>3. ParallelAxes(E[m - 1], E[m])
    BY <2>2 DEF NormalPlaneMovement, Turns, Slides
  <2> QED BY <1>1, <2>1, <2>3, Directions
<1>5. ASSUME NEW i \in f .. m, i # m, Turns(E[i]) PROVE KeepsAlong(E[i], E[m].axis)
  <2>1. i \in f .. m - 1 /\ m - 1 \in f .. m - 1 /\ i \in 1 .. Len(E)
    BY <1>1, <1>5
  <2>2. Along(E[i]) = Along(E[m])
    BY <1>3, <1>4, <2>1
  <2>3. ParallelAxes(E[i], E[m])
    BY <1>1, <2>1, <2>2, Directions
  <2> QED BY <1>5, <2>3 DEF KeepsAlong, ParallelAxes
<1> QED BY <1>1, <1>5, EquationEnd DEF Trails

(* The equation of every subproblem of a history that solves all joints.   *)
LEMMA EquationTaken ==
  ASSUME NEW poe, poe.exps \in Seq(Exps), NEW U, Solvable(poe.exps, U), NEW V, NEW t,
         TermState(Len(poe.exps), U, V, t), NEW s, Taken(poe.exps, U, s), U \ ToSet(s.ids) \subseteq V,
         ~(s.kind = "PardosGotorOne" /\ \E i \in DOMAIN t : t[i] # "computed" /\ i # s.ids[1]
             /\ Slides(poe.exps[i]))
  PROVE  EquationHolds(poe, t, s)
<1> DEFINE E == poe.exps
           m == s.ids[1]
           p == s.points[1]
           k == s.points[2]
<1>1. p \in Vectors
  BY DEF Taken
<1>2. CASE s.kind \in {"PadenKahanOne", "PardosGotorOne"} /\ s.ids = <<m>> /\ Alone(E, U, m, p)
  <2>1. U \ {m} \subseteq V
    BY <1>2, Ids
  <2> QED BY <1>1, <1>2, <2>1, EquationAlone
<1>3. CASE s.kind = "PardosGotorOne" /\ s.ids = <<m>> /\ \E l \in U : Leads(E, U, m, l, p)
  <2>1. U \ {m} \subseteq V
    BY <1>3, Ids
  <2>2. PICK l \in U : Leads(E, U, m, l, p)
    BY <1>3
  <2> QED BY <1>1, <1>3, <2>1, <2>2, EquationLeads
<1>4. CASE s.kind = "PardosGotorOne" /\ s.ids = <<m>> /\ \E f \in U : Trails(E, U, f, m, p)
  <2>1. U \ {m} \subseteq V
    BY <1>4, Ids
  <2>2. PICK f \in U : Trails(E, U, f, m, p)
    BY <1>4
  <2> QED BY <1>1, <1>4, <2>1, <2>2, EquationTrails
<1>5. CASE /\ s.kind \in {"PadenKahanTwo", "PardosGotorTwo", "PardosGotorFour"} /\ s.ids = <<m, m + 1>>
           /\ Pair(E, U, m, p)
  <2>1. U \ {m, m + 1} \subseteq V
    BY <1>5, Ids
  <2> QED BY <1>1, <1>5, <2>1, EquationPair
<1>6. CASE /\ s.kind \in {"PadenKahanThree", "PardosGotorThree"} /\ s.ids = <<m>> /\ k \in Vectors
           /\ Middle(E, U, m, p, k)
  <2>1. U \ {m} \subseteq V
    BY <1>6, Ids
  <2> QED BY <1>1, <1>6, <2>1, EquationMiddle
<1> QED BY <1>2, <1>3, <1>4, <1>5, <1>6 DEF Taken

---------------------------------------------------------------------------
(* A set of natural numbers has a least one.                               *)
LEMMA LeastNat ==
  ASSUME NEW S \in SUBSET Nat, S # {}
  PROVE  \E x \in S : \A y \in S : x <= y
<1> DEFINE R == OpToRel(<, Nat)
<1>1. PICK x \in S : \A y \in S : ~(<<y, x>> \in R)
  <2> HIDE DEF R
  <2>1. IsWellFoundedOn(R, Nat)
    BY NatLessThanWellFounded DEF R
  <2> QED BY <2>1, WFMin
<1>2. \A y \in S : y < x => <<y, x>> \in R
  BY DEF OpToRel
<1>3. ASSUME NEW y \in S PROVE x <= y
  <2>1. ~(y < x) /\ x \in Nat /\ y \in Nat
    BY <1>1, <1>2
  <2> QED BY <2>1
<1> QED BY <1>1, <1>3

(* The first and the last of some joints.                                  *)
LEMMA Bounds ==
  ASSUME NEW n \in Nat, NEW S \in SUBSET (1 .. n), S # {}
  PROVE  /\ Max(S) \in S /\ \A y \in S : y <= Max(S)
         /\ Min(S) \in S /\ \A y \in S : Min(S) <= y
<1>1. \E x \in S : \A y \in S : x <= y
  BY LeastNat
<1>2. \E x \in S : \A y \in S : x >= y
  <2> DEFINE T == {d \in 0 .. n : n - d \in S}
  <2>1. T \in SUBSET Nat /\ T # {}
    <3>1. PICK x \in S : TRUE
      OBVIOUS
    <3>2. n - x \in 0 .. n /\ n - (n - x) = x
      OBVIOUS
    <3>3. n - x \in T
      BY <3>1, <3>2
    <3>4. \A d \in T : d \in Nat
      OBVIOUS
    <3> HIDE DEF T
    <3> QED BY <3>3, <3>4
  <2>2. PICK d \in T : \A e \in T : d <= e
    <3> HIDE DEF T
    <3> QED BY <2>1, LeastNat
  <2>3. ASSUME NEW y \in S PROVE n - d >= y
    <3>1. n - y \in 0 .. n /\ n - (n - y) = y
      OBVIOUS
    <3>2. d <= n - y
      BY <2>2, <3>1
    <3> QED BY <3>1, <3>2
  <2> QED BY <2>2, <2>3
<1> QED BY <1>1, <1>2 DEF Max, Min

(* What a search works on.                                                 *)
Sought(b) ==
  /\ b.poe.exps \in Seq(Exps) /\ b.known \subseteq 1 .. Len(b.poe.exps)
  /\ b.depth \in {0, 1} /\ b.test[1] \in Vectors /\ b.test[2] \in Vectors
  /\ Unknown(b) # {}

(* The joints of a search.                                                 *)
LEMMA SoughtParts ==
  ASSUME NEW b, Sought(b)
  PROVE  /\ Len(b.poe.exps) \in Nat /\ Unknown(b) \in SUBSET (1 .. Len(b.poe.exps))
         /\ Unknown(b) = 1 .. Len(b.poe.exps) \ b.known
                /\ \A i \in 1 .. Len(b.poe.exps) : b.poe.exps[i] \in Exps
BY DEF Sought, Unknown, Joints

(* The joints moved aside in the first stage are those that leave the      *)
(* first test point where it is up to the last unknown one.                *)
LEMMA CoveredSet ==
  ASSUME NEW b, Sought(b), NEW p, NEW i \in 1 .. Len(b.poe.exps), \E u \in Unknown(b) : i <= u
  PROVE  i \in SimplifyWithPadenKahanOne(b, p) <=> Covered(b.poe.exps, Unknown(b), i, p)
<1> DEFINE E == b.poe.exps
           U == Unknown(b)
           last == Max(U)
<1>1. Len(E) \in Nat /\ U \in SUBSET (1 .. Len(E)) /\ U # {}
  BY SoughtParts DEF Sought
<1>2. last \in U /\ \A u \in U : u <= last
  <2> HIDE DEF U
  <2> QED BY <1>1, Bounds
<1> HIDE DEF last
<1>3. i \in 1 .. last
  BY <1>1, <1>2
<1>4. i \in SimplifyWithPadenKahanOne(b, p) <=> \A j \in i .. last : Fixes(E[j], p)
  BY <1>3 DEF SimplifyWithPadenKahanOne, Fixes, last
<1>5. \A j \in i .. Len(E) : (\E u \in U : j <= u) <=> j \in i .. last
  BY <1>1, <1>2
<1>6. \A j \in i .. last : j \in i .. Len(E)
  BY <1>1, <1>2
<1>7. Covered(E, U, i, p) <=> \A j \in i .. last : Fixes(E[j], p)
  <2> HIDE DEF U, E
  <2> QED BY <1>5, <1>6 DEF Covered
<1> QED BY <1>4, <1>7

(* Those moved aside in the second stage leave the second test point.      *)
LEMMA ShieldedSet ==
  ASSUME NEW b, Sought(b), NEW k, NEW i \in 1 .. Len(b.poe.exps), \E u \in Unknown(b) : u <= i
  PROVE  i \in SimplifyWithPadenKahanThree(b, k) <=> Shielded(b.poe.exps, Unknown(b), i, k)
<1> DEFINE E == b.poe.exps
           U == Unknown(b)
           first == Min(U)
<1>1. Len(E) \in Nat /\ U \in SUBSET (1 .. Len(E)) /\ U # {}
  BY SoughtParts DEF Sought
<1>2. first \in U /\ \A u \in U : first <= u
  <2> HIDE DEF U
  <2> QED BY <1>1, Bounds
<1> HIDE DEF first
<1>3. i \in first .. Len(E)
  BY <1>1, <1>2
<1>4. i \in SimplifyWithPadenKahanThree(b, k) <=> \A j \in first .. i : Fixes(E[j], k)
  BY <1>3 DEF SimplifyWithPadenKahanThree, Fixes, first
<1>5. \A j \in 1 .. i : (\E u \in U : u <= j) <=> j \in first .. i
  BY <1>1, <1>2
<1>6. \A j \in first .. i : j \in 1 .. i
  BY <1>1, <1>2
<1>7. Shielded(E, U, i, k) <=> \A j \in first .. i : Fixes(E[j], k)
  <2> HIDE DEF U, E
  <2> QED BY <1>5, <1>6 DEF Shielded
<1> QED BY <1>4, <1>7

(* What a subproblem is taken for, L being the joints that are left.       *)
SolvedBy(b, L, s) ==
  \/ /\ b.depth = 0 /\ s.points = <<b.test[1]>>
     /\ \E m : L = {m} /\ s.ids = <<m>>
     /\ s.kind \in {"PadenKahanOne", "PardosGotorOne"}
     /\ s.kind = "PadenKahanOne" => \A m \in L : Turns(b.poe.exps[m])
  \/ /\ b.depth = 1 /\ s.points = <<b.test[1], b.test[2]>>
     /\ \E m : /\ L = {m} /\ s.ids = <<m>>
               /\ ~Fixes(b.poe.exps[m], b.test[1]) /\ ~Fixes(b.poe.exps[m], b.test[2])
     /\ s.kind \in {"PadenKahanThree", "PardosGotorThree"}
  \/ /\ b.depth = 0 /\ s.points = <<b.test[1]>>
     /\ \E m : /\ L = {m, m + 1} /\ s.ids = <<m, m + 1>>
               /\ ~(Turns(b.poe.exps[m]) /\ Turns(b.poe.exps[m + 1])
                    /\ ColinearAxes(b.poe.exps[m + 1], b.poe.exps[m]))
     /\ s.kind \in {"PadenKahanTwo", "PardosGotorTwo", "PardosGotorFour"}

(* One joint, or two that follow each other.                               *)
LEMMA Few ==
  ASSUME NEW n \in Nat, NEW S \in SUBSET (1 .. n)
  PROVE  /\ IsFiniteSet(S) /\ Cardinality(S) \in Nat
         /\ Cardinality(S) = 1 => S = {Max(S)}
         /\ Cardinality(S) = 2 /\ Max(S) - 1 \in S => S = {Max(S) - 1, Max(S)}
         /\ \A m : S = {m} => Cardinality(S) = 1 /\ Max(S) = m
         /\ \A m \in Int : S = {m, m + 1} => Cardinality(S) = 2 /\ Max(S) = m + 1
<1>1. IsFiniteSet(S) /\ Cardinality(S) \in Nat
  <2>1. IsFiniteSet(1 .. n)
    BY FS_Interval
  <2>2. IsFiniteSet(S)
    BY <2>1, FS_Subset
  <2> QED BY <2>2, FS_CardinalityType
<1>2. ASSUME Cardinality(S) = 1 PROVE S = {Max(S)}
  <2>1. PICK x : S = {x}
    BY <1>1, <1>2, FS_Singleton
  <2> QED BY <2>1, Bounds
<1>3. ASSUME Cardinality(S) = 2, Max(S) - 1 \in S PROVE S = {Max(S) - 1, Max(S)}
  <2> DEFINE T == S \ {Max(S)}
  <2>1. Max(S) \in S /\ Max(S) \in Int
    <3>1. S # {}
      BY <1>3
    <3>2. Max(S) \in S
      BY <3>1, Bounds
    <3>3. \A x \in S : x \in Int
      OBVIOUS
    <3> QED BY <3>2, <3>3
  <2>2. IsFiniteSet(T) /\ Cardinality(T) = 1
    BY <1>1, <1>3, <2>1, FS_RemoveElement
  <2>3. PICK x : T = {x}
    BY <2>2, FS_Singleton
  <2>4. Max(S) - 1 \in T
    BY <1>3, <2>1
  <2> QED BY <2>1, <2>3, <2>4
<1>4. ASSUME NEW m, S = {m} PROVE Cardinality(S) = 1 /\ Max(S) = m
  BY <1>4, FS_Singleton, Bounds
<1>5. ASSUME NEW m \in Int, S = {m, m + 1} PROVE Cardinality(S) = 2 /\ Max(S) = m + 1
  <2>1. S = {m} \cup {m + 1} /\ m + 1 \notin {m}
    BY <1>5
  <2>2. Cardinality(S) = 2
    <3>1. IsFiniteSet({m}) /\ Cardinality({m}) = 1
      BY FS_Singleton
    <3>2. Cardinality({m} \cup {m + 1}) = Cardinality({m}) + 1
      BY <2>1, <3>1, FS_AddElement
    <3> QED BY <2>1, <3>1, <3>2
  <2>3. Max(S) \in S /\ \A y \in S : y <= Max(S)
    BY <1>5, Bounds
  <2> QED BY <1>5, <2>2, <2>3
<1> QED BY <1>1, <1>2, <1>3, <1>4, <1>5

(* What TrySolve finds was taken for what is left.                         *)
LEMMA TryParts ==
  ASSUME NEW b, Sought(b), NEW Z, NEW s \in TrySolve(b, Z)
  PROVE  /\ SolvedBy(b, Unknown(b) \ Z, s)
         /\ b.depth = 1 => b.known \subseteq Z
<1> DEFINE E == b.poe.exps
           L == Unknown(b) \ Z
           last == Max(L)
<1>1. Len(E) \in Nat /\ L \in SUBSET (1 .. Len(E)) /\ \A i \in L : E[i] \in Exps
  BY SoughtParts
<1>2. b.depth \in {0, 1}
  BY DEF Sought
<1>3. s \in TrySolve(b, Z)
  OBVIOUS
<1>4. CASE Cardinality(L) = 1
  <2>1. L = {last}
    <3> HIDE DEF L, E
    <3> QED BY <1>1, <1>4, Few DEF last
  <2> HIDE DEF last
  <2>2. CASE b.depth = 0
    <3>1. \/ Turns(E[last]) /\ s = Subproblem("PadenKahanOne", <<last>>, <<b.test[1]>>)
          \/ s = Subproblem("PardosGotorOne", <<last>>, <<b.test[1]>>)
      BY <1>3, <1>4, <2>2 DEF TrySolve, last
    <3> HIDE DEF L, E
    <3> QED BY <2>1, <2>2, <3>1 DEF SolvedBy, Subproblem, L, E
  <2>3. CASE b.depth = 1
    <3>1. /\ b.known \ Z = {}
          /\ \/ /\ Turns(E[last]) /\ ~LiesOnAxis(E[last], b.test[1]) /\ ~LiesOnAxis(E[last], b.test[2])
                /\ s = Subproblem("PadenKahanThree", <<last>>, <<b.test[1], b.test[2]>>)
             \/ /\ ~Turns(E[last])
                /\ s = Subproblem("PardosGotorThree", <<last>>, <<b.test[1], b.test[2]>>)
      BY <1>3, <1>4, <2>3 DEF TrySolve, last
    <3>2. ~Fixes(E[last], b.test[1]) /\ ~Fixes(E[last], b.test[2])
      BY <3>1 DEF Fixes
    <3> HIDE DEF L, E
    <3>3. s.points = <<b.test[1], b.test[2]>> /\ s.ids = <<last>>
          /\ s.kind \in {"PadenKahanThree", "PardosGotorThree"}
      BY <3>1 DEF Subproblem
    <3>4. SolvedBy(b, L, s)
      BY <2>1, <2>3, <3>2, <3>3 DEF SolvedBy, E
    <3> QED BY <3>1, <3>4 DEF L
  <2> QED BY <1>2, <2>2, <2>3
<1>5. CASE Cardinality(L) # 1
  <2> DEFINE e == E[last]
             d == E[last - 1]
             pair == <<last - 1, last>>
  <2>1. /\ Cardinality(L) = 2 /\ last - 1 \in L /\ b.depth = 0 /\ e.kind = d.kind
        /\ \/ Slides(e) /\ s = Subproblem("PardosGotorTwo", pair, <<b.test[1]>>)
           \/ ~ColinearAxes(e, d) /\ s = Subproblem("PardosGotorFour", pair, <<b.test[1]>>)
           \/ ~ParallelAxes(e, d) /\ s = Subproblem("PadenKahanTwo", pair, <<b.test[1]>>)
    BY <1>3, <1>5 DEF TrySolve
  <2>2. L = {last - 1, last}
    <3> HIDE DEF L
    <3> QED BY <1>1, <2>1, Few
  <2>3. last \in Int
    <3> HIDE DEF L, last
    <3> QED BY <1>1, <2>2
  <2> HIDE DEF last, L
  <2>4. PICK m \in Int : m = last - 1
    BY <2>3
  <2>5. m + 1 = last
    BY <2>3, <2>4
  <2>6. ~(Turns(E[m]) /\ Turns(E[m + 1]) /\ ColinearAxes(E[m + 1], E[m]))
    BY <2>1, <2>4, <2>5 DEF ColinearAxes, Turns, Slides
  <2>7. L = {m, m + 1} /\ s.ids = <<m, m + 1>> /\ s.points = <<b.test[1]>>
        /\ s.kind \in {"PadenKahanTwo", "PardosGotorTwo", "PardosGotorFour"}
    BY <2>1, <2>2, <2>4, <2>5 DEF Subproblem
  <2>8. SolvedBy(b, L, s)
    BY <2>1, <2>6, <2>7 DEF SolvedBy
  <2> QED BY <2>1, <2>8 DEF L
<1> QED BY <1>4, <1>5

(* The joints the first stage leaves, before it looks for a plane.         *)
Uncovered(b) == {u \in Unknown(b) : ~Covered(b.poe.exps, Unknown(b), u, b.test[1])}

(* A translation found at either end of them.                              *)
PlaneOf(E, f, l) ==
  /\ Slides(E[f]) /\ NormalPlaneMovement(E[f], E[f + 1])
  /\ \A j \in f + 1 .. l - 1 : PlanarMovement(E[j], E[j + 1])
PlaneTo(E, f, l) ==
  /\ Slides(E[l]) /\ NormalPlaneMovement(E[l - 1], E[l])
  /\ \A j \in f .. l - 2 : PlanarMovement(E[j], E[j + 1])

PlaneLeft(b) ==
  \E f, l \in Uncovered(b) :
     /\ f < l /\ \A u \in Uncovered(b) : f <= u /\ u <= l
     /\ \/ Unknown(b) \ Simplify(b) = {f} /\ PlaneOf(b.poe.exps, f, l)
        \/ Unknown(b) \ Simplify(b) = {l} /\ PlaneTo(b.poe.exps, f, l)

(* The first stage leaves the joints that are not covered.                 *)
LEMMA FirstStage ==
  ASSUME NEW b, Sought(b)
  PROVE  Unknown(b) \ (RefreshSimplificationState(b) \cup SimplifyWithPadenKahanOne(b, b.test[1]))
           = Uncovered(b)
<1> DEFINE U == Unknown(b)
           R == RefreshSimplificationState(b)
           S == SimplifyWithPadenKahanOne(b, b.test[1])
<1>1. \A u \in U : u \notin R
  BY DEF RefreshSimplificationState, Unknown
<1>2. ASSUME NEW u \in U PROVE u \in S <=> Covered(b.poe.exps, U, u, b.test[1])
  <2>1. U \in SUBSET (1 .. Len(b.poe.exps)) /\ Len(b.poe.exps) \in Nat
    BY SoughtParts
  <2>2. u \in 1 .. Len(b.poe.exps) /\ u <= u
    BY <2>1
  <2> QED BY <2>2, CoveredSet
<1> QED BY <1>1, <1>2 DEF Uncovered

(* But for a plane that is found, these are the joints left.               *)
LEMMA ZeroStage ==
  ASSUME NEW b, Sought(b), b.depth = 0
  PROVE  /\ Unknown(b) \ Simplify(b) = Uncovered(b) \/ PlaneLeft(b)
         /\ (\A u \in Uncovered(b) : ~Slides(b.poe.exps[u])) => Unknown(b) \ Simplify(b) = Uncovered(b)
<1> DEFINE E == b.poe.exps
           U == Unknown(b)
           L == Uncovered(b)
           right == RefreshSimplificationState(b) \cup SimplifyWithPadenKahanOne(b, b.test[1])
           f == Min(L)
           l == Max(L)
           P == SimplifyWithPardosOne(b, right)
<1>1. U \ right = L
  BY FirstStage
<1>2. Simplify(b) = right \cup P \/ Simplify(b) = right
  BY DEF Simplify
<1>3. Len(E) \in Nat /\ L \in SUBSET (1 .. Len(E))
  BY SoughtParts DEF Uncovered
<1> HIDE DEF right, L
<1>4. U \ Simplify(b) = L \ P \/ U \ Simplify(b) = L
  BY <1>1, <1>2
<1>5. \/ P = {}
      \/ Cardinality(L) >= 2 /\ P = f + 1 .. l /\ PlaneOf(E, f, l)
      \/ Cardinality(L) >= 2 /\ P = f .. l - 1 /\ PlaneTo(E, f, l)
  <2>1. \/ P = {}
        \/ ~(Cardinality(L) < 2) /\ P = f + 1 .. l /\ PlaneOf(E, f, l)
        \/ ~(Cardinality(L) < 2) /\ P = f .. l - 1 /\ Slides(E[l])
               /\ NormalPlaneMovement(E[l - 1], E[l])
           /\ \A j \in f .. (l - 1) - 1 : PlanarMovement(E[j], E[j + 1])
    BY <1>1 DEF SimplifyWithPardosOne, PlaneOf
  <2>2. Cardinality(L) \in Nat
    BY <1>3, Few
  <2>3. CASE L = {}
    <3>1. Cardinality(L) = 0
      BY <2>3, FS_EmptySet
    <3> QED BY <2>1, <3>1
  <2>4. CASE L # {}
    <3>1. l \in L
      BY <1>3, <2>4, Bounds
    <3>2. l \in Int
      <4> HIDE DEF l
      <4> QED BY <1>3, <3>1
    <3>3. (l - 1) - 1 = l - 2
      <4> HIDE DEF l
      <4> QED BY <3>2
    <3> HIDE DEF P, E, l, f
    <3> QED BY <2>1, <2>2, <3>3 DEF PlaneTo
  <2> QED BY <2>3, <2>4
<1>6. \A u \in L : u \in Int
  BY <1>3
<1>7. ASSUME Cardinality(L) >= 2
      PROVE  f \in L /\ l \in L /\ f < l /\ (\A u \in L : f <= u /\ u <= l)
  <2>1. L # {}
    <3>1. Cardinality({}) = 0
      BY FS_EmptySet
    <3> QED BY <1>7, <3>1
  <2>2. f \in L /\ l \in L /\ \A u \in L : f <= u /\ u <= l
    BY <1>3, <2>1, Bounds
  <2>3. f # l
    <3> SUFFICES ASSUME f = l PROVE FALSE
      OBVIOUS
    <3>1. L = {f}
      <4> HIDE DEF f, l
      <4> QED BY <1>6, <2>2
    <3>2. Cardinality(L) = 1
      BY <3>1, FS_Singleton
    <3> QED BY <1>7, <3>2
  <2> HIDE DEF f, l
  <2>4. f \in Int /\ l \in Int
    BY <1>3, <2>2
  <2> QED BY <2>2, <2>3, <2>4
<1>8. ASSUME U \ Simplify(b) = L \ P, Cardinality(L) >= 2, P = f + 1 .. l, PlaneOf(E, f, l)
      PROVE  PlaneLeft(b) /\ \E u \in L : Slides(E[u])
  <2>1. L \ P = {f}
    <3> HIDE DEF f, l, P
    <3> QED BY <1>6, <1>7, <1>8
  <2> HIDE DEF f, l, P, E, U
  <2>2. Slides(E[f])
    BY <1>8 DEF PlaneOf
  <2> QED BY <1>7, <1>8, <2>1, <2>2 DEF PlaneLeft, E, L, U
<1>9. ASSUME U \ Simplify(b) = L \ P, Cardinality(L) >= 2, P = f .. l - 1, PlaneTo(E, f, l)
      PROVE  PlaneLeft(b) /\ \E u \in L : Slides(E[u])
  <2>1. L \ P = {l}
    <3> HIDE DEF f, l, P
    <3> QED BY <1>6, <1>7, <1>9
  <2> HIDE DEF f, l, P, E, U
  <2>2. Slides(E[l])
    BY <1>9 DEF PlaneTo
  <2> QED BY <1>7, <1>9, <2>1, <2>2 DEF PlaneLeft, E, L, U
<1> HIDE DEF f, l, P
<1> QED BY <1>4, <1>5, <1>8, <1>9 DEF L

(* What is taken in the first stage.                                       *)
LEMMA TakesFirst ==
  ASSUME NEW b, Sought(b), b.depth = 0, NEW s \in TrySolve(b, Simplify(b))
  PROVE  Taken(b.poe.exps, Unknown(b), s)
<1> DEFINE E == b.poe.exps
           U == Unknown(b)
           p == b.test[1]
<1>1. E \in Seq(Exps) /\ Len(E) \in Nat /\ U \in SUBSET (1 .. Len(E)) /\ p \in Vectors
  BY SoughtParts DEF Sought
<1>2. SolvedBy(b, U \ Simplify(b), s)
  BY TryParts
<1>3. Uncovered(b) = {u \in U : ~Covered(E, U, u, p)}
  BY DEF Uncovered
<1> HIDE DEF U, E, p
<1>4. \A u, v \in U : u <= v /\ Covered(E, U, u, p) => Covered(E, U, v, p)
  <2> SUFFICES ASSUME NEW u \in U, NEW v \in U, u <= v, Covered(E, U, u, p)
      PROVE  Covered(E, U, v, p)
    OBVIOUS
  <2>1. u \in Int /\ v \in Int
    BY <1>1
  <2> QED BY <1>1, <2>1, CoveredLess
<1>5. \A m \in Uncovered(b) : \A u \in U : u < m => u \in Uncovered(b)
  <2> SUFFICES ASSUME NEW m \in Uncovered(b), NEW u \in U, u < m, Covered(E, U, u, p) PROVE FALSE
    BY <1>3
  <2>1. m \in U /\ ~Covered(E, U, m, p)
    BY <1>3
  <2>3. u \in Int /\ m \in Int
    BY <1>1, <2>1
  <2>2. u <= m
    BY <2>3
  <2> QED BY <1>4, <2>1, <2>2
<1>6. ASSUME s.points = <<p>>, NEW m, U \ Simplify(b) = {m}, s.ids = <<m>>,
             s.kind \in {"PadenKahanOne", "PardosGotorOne"}, s.kind = "PadenKahanOne" => Turns(E[m])
      PROVE  Taken(E, U, s)
  <2>1. s.points[1] = p /\ s.ids[1] = m
    BY <1>6
  <2>2. CASE Uncovered(b) = {m}
    <3>1. m \in U /\ ~Covered(E, U, m, p)
      BY <1>3, <2>2
    <3>2. ASSUME NEW u \in U \ {m} PROVE m < u /\ Covered(E, U, u, p)
      <4>1. Covered(E, U, u, p)
        BY <1>3, <2>2, <3>2
      <4>2. ~(u < m)
        BY <1>5, <2>2, <3>2
      <4>3. u \in Int /\ m \in Int
        BY <1>1, <3>1
      <4> QED BY <4>1, <4>2, <4>3
    <3>3. Alone(E, U, m, p)
      BY <3>1, <3>2 DEF Alone
    <3> QED BY <1>1, <1>6, <2>1, <3>3 DEF Taken
  <2>3. CASE PlaneLeft(b)
    <3>1. PICK f, l \in Uncovered(b) :
              /\ f < l /\ \A u \in Uncovered(b) : f <= u /\ u <= l
              /\ (m = f /\ PlaneOf(E, f, l)) \/ (m = l /\ PlaneTo(E, f, l))
      BY <1>6, <2>3 DEF PlaneLeft, E, U
    <3>2. Ends(E, U, f, l, p)
      <4>1. f \in U /\ l \in U
        BY <1>3, <3>1
      <4>2. ASSUME NEW u \in U PROVE f <= u /\ (l < u => Covered(E, U, u, p))
        <5>1. u \in Int /\ f \in Int /\ l \in Int
          BY <1>1, <4>1
        <5>2. CASE u \in Uncovered(b)
          BY <3>1, <5>1, <5>2
        <5>3. CASE u \notin Uncovered(b)
          <6>1. ~(u < f)
            BY <1>5, <3>1, <5>3
          <6> QED BY <1>3, <5>1, <5>3, <6>1
        <5> QED BY <5>2, <5>3
      <4> QED BY <3>1, <4>1, <4>2 DEF Ends
    <3>3. f \in U /\ l \in U
      BY <1>3, <3>1
    <3>4. CASE m = f /\ PlaneOf(E, f, l)
      <4>1. Leads(E, U, m, l, p)
        BY <3>2, <3>4 DEF Leads, PlaneOf
      <4>2. s.kind = "PardosGotorOne"
        BY <1>6, <3>4 DEF PlaneOf, Turns, Slides
      <4> QED BY <1>1, <1>6, <2>1, <3>3, <4>1, <4>2 DEF Taken
    <3>5. CASE m = l /\ PlaneTo(E, f, l)
      <4>1. Trails(E, U, f, m, p)
        BY <3>2, <3>5 DEF Trails, PlaneTo
      <4>2. s.kind = "PardosGotorOne"
        BY <1>6, <3>5 DEF PlaneTo, Turns, Slides
      <4> QED BY <1>1, <1>6, <2>1, <3>3, <4>1, <4>2 DEF Taken
    <3> QED BY <3>1, <3>4, <3>5
  <2> QED BY <1>6, <2>2, <2>3, ZeroStage DEF U
<1>7. ASSUME s.points = <<p>>, NEW m, U \ Simplify(b) = {m, m + 1}, s.ids = <<m, m + 1>>,
             ~(Turns(E[m]) /\ Turns(E[m + 1]) /\ ColinearAxes(E[m + 1], E[m])),
             s.kind \in {"PadenKahanTwo", "PardosGotorTwo", "PardosGotorFour"}
      PROVE  Taken(E, U, s)
  <2>1. s.points[1] = p /\ s.ids[1] = m
    BY <1>7
  <2>2. m \in U /\ m + 1 \in U /\ m \in Int
    <3>1. m \in U /\ m + 1 \in U
      BY <1>7
    <3> QED BY <1>1, <3>1
  <2>3. PICK top \in Int : top = m + 1
    BY <2>2
  <2>4. m # top
    BY <2>2, <2>3
  <2>5. Uncovered(b) = {m, top}
    <3>1. ~PlaneLeft(b)
      BY <1>7, <2>3, <2>4 DEF PlaneLeft, U
    <3> QED BY <1>7, <2>3, <3>1, ZeroStage DEF U
  <2>6. ASSUME NEW u \in U \ {m, top} PROVE top < u /\ Covered(E, U, u, p)
    <3>1. Covered(E, U, u, p)
      BY <1>3, <2>5, <2>6
    <3>2. ~(u < top)
      BY <1>5, <2>5, <2>6
    <3>3. u \in Int
      BY <1>1
    <3> QED BY <2>6, <3>1, <3>2, <3>3
  <2>7. ~Covered(E, U, top, p) /\ top \in U
    BY <1>3, <2>5
  <2>8. Pair(E, U, m, p)
    BY <1>7, <2>2, <2>3, <2>6, <2>7 DEF Pair
  <2> QED BY <1>1, <1>7, <2>1, <2>8 DEF Taken
<1>8. s.points = <<p>> /\
         \/ \E m : /\ U \ Simplify(b) = {m} /\ s.ids = <<m>>
                       /\ s.kind \in {"PadenKahanOne", "PardosGotorOne"}
                   /\ s.kind = "PadenKahanOne" => Turns(E[m])
         \/ \E m : /\ U \ Simplify(b) = {m, m + 1} /\ s.ids = <<m, m + 1>>
                   /\ ~(Turns(E[m]) /\ Turns(E[m + 1]) /\ ColinearAxes(E[m + 1], E[m]))
                   /\ s.kind \in {"PadenKahanTwo", "PardosGotorTwo", "PardosGotorFour"}
  BY <1>2 DEF SolvedBy, U, E, p
<1> QED BY <1>6, <1>7, <1>8 DEF U, E

(* No wrist of the unknown joints is left by the point.                    *)
Tried(E, U, q) ==
  \A y \in 1 .. Len(E) : Wrist(E, U, y) => ~(Covered(E, U, y + 2, q) /\ ~Covered(E, U, y + 1, q))

(* A joint with unknown ones on both sides, or unknown itself, is not      *)
(* moved to the right-hand side: what stands for it are the points.        *)
LEMMA Enclosed ==
  ASSUME NEW b, Sought(b), b.depth = 1, NEW i \in 1 .. Len(b.poe.exps), i \in Simplify(b),
         NEW u \in Unknown(b), u <= i, NEW v \in Unknown(b), i <= v
  PROVE  \/ Covered(b.poe.exps, Unknown(b), i, b.test[1])
         \/ Shielded(b.poe.exps, Unknown(b), i, b.test[2])
<1>1. i \notin RefreshSimplificationState(b)
  <2>1. Unknown(b) \in SUBSET (1 .. Len(b.poe.exps)) /\ Len(b.poe.exps) \in Nat
    BY SoughtParts
  <2>2. u \in 1 .. i /\ v \in i .. Len(b.poe.exps)
    BY <2>1
  <2>3. u \notin b.known /\ v \notin b.known
    BY DEF Unknown
  <2> QED BY <2>2, <2>3 DEF RefreshSimplificationState
<1>2. i \in SimplifyWithPadenKahanOne(b, b.test[1]) \/ i \in SimplifyWithPadenKahanThree(b, b.test[2])
  BY <1>1 DEF Simplify
<1> QED BY <1>2, CoveredSet, ShieldedSet

(* What is taken in the second stage.                                      *)
LEMMA TakesSecond ==
  ASSUME NEW b, Sought(b), b.depth = 1, Tried(b.poe.exps, Unknown(b), b.test[1]),
         NEW s \in TrySolve(b, Simplify(b))
  PROVE  Taken(b.poe.exps, Unknown(b), s)
<1> DEFINE E == b.poe.exps
           U == Unknown(b)
           p == b.test[1]
           k == b.test[2]
<1>1. /\ E \in Seq(Exps) /\ Len(E) \in Nat /\ U \in SUBSET (1 .. Len(E)) /\ p \in Vectors
             /\ k \in Vectors
      /\ U = 1 .. Len(E) \ b.known
  BY SoughtParts DEF Sought
<1>2. SolvedBy(b, U \ Simplify(b), s) /\ b.known \subseteq Simplify(b)
  BY TryParts
<1>3. /\ s.points = <<p, k>> /\ s.kind \in {"PadenKahanThree", "PardosGotorThree"}
      /\ \E m : U \ Simplify(b) = {m} /\ s.ids = <<m>> /\ ~Fixes(E[m], p) /\ ~Fixes(E[m], k)
  BY <1>2 DEF SolvedBy
<1>4. PICK m : U \ Simplify(b) = {m} /\ s.ids = <<m>> /\ ~Fixes(E[m], p) /\ ~Fixes(E[m], k)
  BY <1>3
<1>5. m \in U /\ m \in 1 .. Len(E) /\ m \in Int
  BY <1>1, <1>4
<1>6. ASSUME NEW i \in 1 .. Len(E), i # m, NEW u \in U, u <= i, NEW v \in U, i <= v
      PROVE  Covered(E, U, i, p) \/ Shielded(E, U, i, k)
  <2>1. i \in Simplify(b)
    BY <1>1, <1>2, <1>4, <1>6
  <2> QED BY <1>6, <2>1, Enclosed
<1> HIDE DEF U, E, p, k
<1>7. ASSUME NEW i \in 1 .. Len(E), i <= m PROVE ~Covered(E, U, i, p)
  <2>1. i \in Int /\ m \in U /\ m <= m
    BY <1>5
  <2>2. Covered(E, U, i, p) => Fixes(E[m], p)
    BY <1>1, <1>5, <1>7, <2>1, CoveredAt
  <2> QED BY <1>4, <2>2 DEF E, p
<1>8. ASSUME NEW i \in 1 .. Len(E), m <= i PROVE ~Shielded(E, U, i, k)
  <2>1. i \in Int /\ m \in U /\ m <= m
    BY <1>5
  <2>2. Shielded(E, U, i, k) => Fixes(E[m], k)
    BY <1>1, <1>5, <1>8, <2>1, ShieldedAt
  <2> QED BY <1>4, <2>2 DEF E, k
<1>9. Covered(E, U, m + 1, p)
  <2> SUFFICES ASSUME NEW i \in m + 1 .. Len(E), NEW v \in U, i <= v PROVE Fixes(E[i], p)
    BY DEF Covered
  <2>1. i \in 1 .. Len(E) /\ m <= i /\ i # m /\ i \in Int
    BY <1>1, <1>5
  <2>2. Covered(E, U, i, p)
    BY <1>5, <1>6, <1>8, <2>1
  <2>3. i <= i
    BY <2>1
  <2> QED BY <1>1, <2>1, <2>2, <2>3, CoveredAt
<1>10. Shielded(E, U, m - 1, k)
  <2> SUFFICES ASSUME NEW i \in 1 .. m - 1, NEW u \in U, u <= i PROVE Fixes(E[i], k)
    BY DEF Shielded
  <2>1. i \in 1 .. Len(E) /\ i <= m /\ i # m /\ i \in Int
    BY <1>1, <1>5
  <2>2. Shielded(E, U, i, k)
    BY <1>5, <1>6, <1>7, <2>1
  <2>3. i <= i
    BY <2>1
  <2> QED BY <1>1, <2>1, <2>2, <2>3, ShieldedAt
<1>11. ~Wrist(E, U, m - 1)
  <2> SUFFICES ASSUME Wrist(E, U, m - 1) PROVE FALSE
    OBVIOUS
  <2>1. PICK y \in Int : y = m - 1
    BY <1>5
  <2>2. y + 2 = m + 1 /\ y + 1 = m /\ m <= m
    BY <1>5, <2>1
  <2>3. y \in 1 .. Len(E)
    BY <1>1, <2>1 DEF Wrist
  <2>4. ~Covered(E, U, m, p)
    BY <1>5, <1>7, <2>2
  <2>5. Covered(E, U, y + 2, p) /\ ~Covered(E, U, y + 1, p)
    BY <1>9, <2>2, <2>4
  <2> QED BY <2>1, <2>3, <2>5 DEF Tried, E, U, p
<1>12. s.ids[1] = m /\ s.points[1] = p /\ s.points[2] = k
  BY <1>3, <1>4 DEF p, k
<1>13. Middle(E, U, m, p, k)
  BY <1>4, <1>5, <1>9, <1>10, <1>11 DEF Middle
<1> QED BY <1>1, <1>3, <1>4, <1>12, <1>13 DEF Taken, E, U, p, k

(* Every subproblem found is taken as the history says.                    *)
LEMMA SearchTakes ==
  ASSUME NEW b, Sought(b), b.depth = 1 => Tried(b.poe.exps, Unknown(b), b.test[1]),
         NEW s \in TrySolve(b, Simplify(b))
  PROVE  Taken(b.poe.exps, Unknown(b), s)
BY TakesFirst, TakesSecond DEF Sought

(* What the first stage leaves is no wrist.                                *)
LEMMA SearchTries ==
  ASSUME NEW b, Sought(b), b.depth = 0, TrySolve(b, Simplify(b)) = {}
  PROVE  Tried(b.poe.exps, Unknown(b), b.test[1])
<1> DEFINE E == b.poe.exps
           U == Unknown(b)
           p == b.test[1]
<1> SUFFICES ASSUME NEW y \in 1 .. Len(E), Wrist(E, U, y), Covered(E, U, y + 2, p),
                    ~Covered(E, U, y + 1, p)
             PROVE  FALSE
  BY DEF Tried
<1>1. E \in Seq(Exps) /\ Len(E) \in Nat /\ U \in SUBSET (1 .. Len(E))
          /\ Uncovered(b) = {u \in U : ~Covered(E, U, u, p)}
  BY SoughtParts DEF Sought, Uncovered
<1>10. y \in Int
  OBVIOUS
<1>2. PICK top \in Int : top = y + 1
  BY <1>10
<1> DEFINE L == U \ Simplify(b)
<1> HIDE DEF U, E, p
<1>3. /\ y \in U /\ top \in U /\ Turns(E[y]) /\ Turns(E[top])
      /\ ~ParallelAxes(E[top], E[y]) /\ IntersectingAxes(E[top], E[y]) /\ \A u \in U : y <= u
  BY <1>2 DEF Wrist
<1>4. y \in Uncovered(b) /\ top \in Uncovered(b)
  <2>1. ~Covered(E, U, top, p)
    BY <1>2
  <2>2. Covered(E, U, y, p) => Covered(E, U, top, p)
    BY <1>1, <1>2, CoveredLess
  <2> QED BY <1>1, <1>3, <2>1, <2>2
<1>5. ASSUME NEW u \in Uncovered(b) PROVE u \in {y, top}
  <2>3. u \in U /\ ~Covered(E, U, u, p)
    BY <1>1
  <2>1. u \in U /\ u \in Int /\ y <= u /\ ~Covered(E, U, u, p)
    BY <1>1, <1>3, <2>3
  <2>2. y + 2 <= u => Covered(E, U, u, p)
    <3>1. y + 2 \in Int
      BY <1>10
    <3> QED BY <1>1, <2>1, <3>1, CoveredLess
  <2> QED BY <1>2, <1>10, <2>1, <2>2
<1>6. L = {y, top}
  <2>1. \A u \in Uncovered(b) : ~Slides(E[u])
    BY <1>3, <1>5 DEF Slides, Turns
  <2>2. L = Uncovered(b)
    BY <2>1, ZeroStage DEF E, U
  <2> QED BY <1>4, <1>5, <2>2
<1>7. Cardinality(L) = 2 /\ Max(L) = top
  <2>1. L \in SUBSET (1 .. Len(E))
    BY <1>1
  <2> HIDE DEF L
  <2> QED BY <1>1, <1>2, <1>6, <1>10, <2>1, Few
<1>8. top - 1 = y
  BY <1>2
<1>9. Subproblem("PadenKahanTwo", <<y, top>>, <<p>>) \in TrySolve(b, Simplify(b))
  <2>1. Unknown(b) \ Simplify(b) = L /\ b.poe.exps = E /\ b.test[1] = p
    BY DEF U, E, p
  <2>2. Cardinality(L) # 1 /\ y \in L /\ ~Slides(E[top]) /\ E[top].kind = E[y].kind
    BY <1>3, <1>6, <1>7 DEF Slides, Turns
  <2> HIDE DEF L
  <2> QED BY <1>3, <1>7, <1>8, <2>1, <2>2 DEF TrySolve
<1> QED BY <1>9

---------------------------------------------------------------------------
(* The points the search tries.                                            *)
PointSets == {S \in SUBSET Vectors : IsFiniteSet(S)}

(* A function of a finite set has finitely many values.                    *)
LEMMA ImageFinite ==
  ASSUME NEW S, IsFiniteSet(S), NEW f, DOMAIN f = S
  PROVE  IsFiniteSet({f[x] : x \in S})
<1> DEFINE T == {f[x] : x \in S}
           g == [x \in S |-> f[x]]
<1>1. g \in [S -> T] /\ \A t \in T : \E x \in S : g[x] = t
  OBVIOUS
<1>2. g \in Surjection(S, T)
  BY <1>1 DEF Surjection
<1> HIDE DEF g, T
<1>3. IsFiniteSet(T)
  BY <1>2, FS_Surjection
<1> QED BY <1>3 DEF T

(* Coordinates are compared one after the other.                           *)
LEMMA BeforeOrders ==
  /\ \A p \in Vectors : ~Before(p, p)
  /\ \A p, q, r \in Vectors : Before(p, q) /\ Before(q, r) => Before(p, r)
  /\ \A p, q \in Vectors : p # q => Before(p, q) \/ Before(q, p)
<1>1. \A p \in Vectors : p[1] \in Int /\ p[2] \in Int /\ p[3] \in Int
  BY VectorAt
<1>2. ASSUME NEW p \in Vectors PROVE ~Before(p, p)
  BY <1>1 DEF Before
<1>3. ASSUME NEW p \in Vectors, NEW q \in Vectors, NEW r \in Vectors, Before(p, q), Before(q, r)
      PROVE  Before(p, r)
  <2>1. /\ p[1] \in Int /\ p[2] \in Int /\ p[3] \in Int /\ q[1] \in Int /\ q[2] \in Int /\ q[3] \in Int
        /\ r[1] \in Int /\ r[2] \in Int /\ r[3] \in Int
    BY <1>1
  <2> QED BY <1>3, <2>1 DEF Before
<1>4. ASSUME NEW p \in Vectors, NEW q \in Vectors, p # q PROVE Before(p, q) \/ Before(q, p)
  <2>1. p[1] # q[1] \/ p[2] # q[2] \/ p[3] # q[3]
    BY <1>4, VectorEq
  <2>2. p[1] \in Int /\ p[2] \in Int /\ p[3] \in Int /\ q[1] \in Int /\ q[2] \in Int /\ q[3] \in Int
    BY <1>1
  <2> QED BY <2>1, <2>2 DEF Before
<1> QED BY <1>2, <1>3, <1>4

(* Sorting finds a point for every place.                                  *)
LEMMA Ranked ==
  ASSUME NEW S \in PointSets, NEW n \in 1 .. Cardinality(S)
  PROVE  \E p \in S : Cardinality({q \in S : Before(q, p)}) = n - 1
<1> DEFINE c == Cardinality(S)
           below(p) == {q \in S : Before(q, p)}
           rank == [p \in S |-> Cardinality(below(p))]
           T == 0 .. c - 1
<1>1. S \subseteq Vectors /\ IsFiniteSet(S) /\ c \in Nat
  BY FS_CardinalityType DEF PointSets
<1>2. ASSUME NEW p \in S PROVE IsFiniteSet(below(p)) /\ Cardinality(below(p)) \in T
  <2>1. p \notin below(p) /\ below(p) \subseteq S \ {p}
    BY <1>1, BeforeOrders
  <2>2. IsFiniteSet(S \ {p}) /\ Cardinality(S \ {p}) = c - 1
    BY <1>1, FS_RemoveElement
  <2> HIDE DEF below
  <2>3. IsFiniteSet(below(p)) /\ Cardinality(below(p)) <= c - 1
    BY <2>1, <2>2, FS_Subset
  <2>4. Cardinality(below(p)) \in Nat
    BY <2>3, FS_CardinalityType
  <2> HIDE DEF c
  <2> QED BY <1>1, <2>3, <2>4
<1>3. ASSUME NEW p \in S, NEW q \in S, Before(p, q)
      PROVE  Cardinality(below(p)) < Cardinality(below(q))
  <2>1. below(p) \cup {p} \subseteq below(q) /\ p \notin below(p)
    BY <1>1, <1>3, BeforeOrders
  <2>2. IsFiniteSet(below(p)) /\ IsFiniteSet(below(q))
    BY <1>2
  <2> HIDE DEF below
  <2>3. Cardinality(below(p) \cup {p}) = Cardinality(below(p)) + 1
    BY <2>1, <2>2, FS_AddElement
  <2>4. Cardinality(below(p) \cup {p}) <= Cardinality(below(q))
    BY <2>1, <2>2, FS_Subset
  <2>5. Cardinality(below(p)) \in Nat /\ Cardinality(below(q)) \in Nat
    BY <2>2, FS_CardinalityType
  <2> QED BY <2>3, <2>4, <2>5
<1>4. rank \in [S -> T]
  <2> HIDE DEF below, T
  <2> QED BY <1>2
<1>5. ASSUME NEW p \in S, NEW q \in S, rank[p] = rank[q] PROVE p = q
  <2> SUFFICES ASSUME p # q PROVE FALSE
    OBVIOUS
  <2>1. Before(p, q) \/ Before(q, p)
    BY <1>1, BeforeOrders
  <2>2. rank[p] \in Int /\ rank[q] \in Int /\ rank[p] = Cardinality(below(p))
            /\ rank[q] = Cardinality(below(q))
    BY <1>4
  <2>3. Cardinality(below(p)) \in Int /\ Cardinality(below(p)) = Cardinality(below(q))
    BY <1>5, <2>2
  <2> HIDE DEF rank
  <2>4. CASE Before(p, q)
    <3>1. Cardinality(below(p)) < Cardinality(below(q))
      BY <1>3, <2>4
    <3> HIDE DEF below
    <3> QED BY <2>3, <3>1
  <2>5. CASE Before(q, p)
    <3>1. Cardinality(below(q)) < Cardinality(below(p))
      BY <1>3, <2>5
    <3> HIDE DEF below
    <3> QED BY <2>3, <3>1
  <2> QED BY <2>1, <2>4, <2>5
<1>6. rank \in Injection(S, T)
  <2> HIDE DEF rank, T
  <2> QED BY <1>4, <1>5 DEF Injection, IsInjective
<1>7. IsFiniteSet(T) /\ Cardinality(T) = c
  <2>1. 0 \in Int /\ c - 1 \in Int /\ n <= c
    BY <1>1
  <2>2. IsFiniteSet(T) /\ Cardinality(T) = IF 0 > c - 1 THEN 0 ELSE (c - 1) - 0 + 1
    BY <2>1, FS_Interval
  <2> HIDE DEF c, T
  <2> QED BY <1>1, <2>1, <2>2
<1>8. rank \in Surjection(S, T)
  <2> HIDE DEF rank, T
  <2> QED BY <1>6, <1>7, FS_Injection
<1>9. n - 1 \in T
  <2> HIDE DEF c
  <2>1. n \in 1 .. c
    BY DEF c
  <2> QED BY <1>1, <2>1
<1>10. PICK p \in S : rank[p] = n - 1
  <2> HIDE DEF rank, T
  <2> QED BY <1>8, <1>9 DEF Surjection
<1> QED BY <1>10

(* Different multiples of a factor that is not zero are different.         *)
LEMMA NonZeroTimes ==
  ASSUME NEW f \in Int, NEW g \in Int, NEW k \in Int \ {0}, f * k = g * k
  PROVE  f = g
<1>1. (f - g) * k = 0
  OBVIOUS
<1>2. f - g \in Int /\ \A d \in Int : d * k = 0 => d = 0
  OBVIOUS
<1>3. f - g = 0
  BY <1>1, <1>2
<1> QED BY <1>3

(* A point of an axis that is not one of those found.                      *)
LEMMA Drawn ==
  ASSUME NEW S \in PointSets, NEW e \in Exps, NEW factor \in Int \ {0}
  PROVE  LET at(f) == Plus(e.origin, Times(f * factor, e.axis))
         IN  at(CHOOSE f \in 1 .. Cardinality(S) + 1 : at(f) \notin S
                 /\ \A g \in 1 .. f - 1 : at(g) \in S) \in Vectors
<1> DEFINE at(f) == Plus(e.origin, Times(f * factor, e.axis))
           c == Cardinality(S)
           D == 1 .. c + 1
           Free(f) == at(f) \notin S /\ \A g \in 1 .. f - 1 : at(g) \in S
<1>1. IsFiniteSet(S) /\ c \in Nat
  BY FS_CardinalityType DEF PointSets
<1>2. e.origin \in Vectors /\ e.axis \in Vectors /\ e.axis \in Units
  BY UnitType DEF Exps
<1>3. ASSUME NEW f \in Int PROVE at(f) \in Vectors
  <2>1. f * factor \in Int
    OBVIOUS
  <2> QED BY <1>2, <2>1, TimesType, PlusType
<1>4. ASSUME NEW f \in Int, NEW g \in Int, at(f) = at(g) PROVE f = g
  <2> DEFINE a == f * factor
             b == g * factor
  <2>1. \A i \in 1 .. 3 : e.origin[i] + a * e.axis[i] = e.origin[i] + b * e.axis[i]
    <3> SUFFICES ASSUME NEW i \in 1 .. 3 PROVE e.origin[i] + a * e.axis[i] = e.origin[i] + b * e.axis[i]
      OBVIOUS
    <3>1. at(f)[i] = e.origin[i] + a * e.axis[i] /\ at(g)[i] = e.origin[i] + b * e.axis[i]
      BY PlusAt, TimesAt
    <3> HIDE DEF at
    <3> QED BY <1>4, <3>1
  <2>2. e.origin[1] \in Int /\ e.origin[2] \in Int /\ e.origin[3] \in Int
    BY <1>2, VectorAt
  <2>3. \E i \in 1 .. 3 : e.axis[i] \in {1, -1}
    BY <1>2, UnitCases
  <2>4. PICK i \in 1 .. 3 : e.axis[i] \in {1, -1}
    BY <2>3
  <2>5. e.origin[i] \in Int
    BY <1>2, VectorAt
  <2>6. e.origin[i] + a * e.axis[i] = e.origin[i] + b * e.axis[i]
    BY <2>1
  <2>10. a \in Int /\ b \in Int
    OBVIOUS
  <2>11. a = b => f = g
    BY NonZeroTimes
  <2> HIDE DEF at, a, b
  <2>9. PICK o \in Int : o = e.origin[i]
    BY <2>5
  <2>7. CASE e.axis[i] = 1
    <3>1. o + a * 1 = o + b * 1
      BY <2>6, <2>7, <2>9
    <3> QED BY <2>10, <2>11, <3>1
  <2>8. CASE e.axis[i] = -1
    <3>1. o + a * (-1) = o + b * (-1)
      BY <2>6, <2>8, <2>9
    <3> QED BY <2>10, <2>11, <3>1
  <2> QED BY <2>4, <2>7, <2>8
<1>5. \E f \in D : at(f) \notin S
  <2> SUFFICES ASSUME \A f \in D : at(f) \in S PROVE FALSE
    OBVIOUS
  <2> DEFINE h == [f \in D |-> at(f)]
  <2>1. h \in [D -> S]
    <3> HIDE DEF at, D
    <3> QED OBVIOUS
  <2>2. IsFiniteSet(D) /\ Cardinality(D) = c + 1
    <3>1. 1 \in Int /\ c + 1 \in Int /\ ~(1 > c + 1) /\ (c + 1) - 1 + 1 = c + 1
      BY <1>1
    <3> HIDE DEF c
    <3> QED BY <3>1, FS_Interval
  <2>3. c < c + 1
    BY <1>1
  <2>4. \E x, y \in D : x # y /\ h[x] = h[y]
    <3> HIDE DEF h, D, at
    <3> QED BY <1>1, <2>1, <2>2, <2>3, FS_PigeonHole
  <2>5. PICK x, y \in D : x # y /\ h[x] = h[y]
    BY <2>4
  <2>6. x \in Int /\ y \in Int /\ at(x) = at(y)
    BY <1>1, <2>5
  <2> HIDE DEF at
  <2> QED BY <1>4, <2>5, <2>6
<1>6. \E f \in D : Free(f)
  <2> DEFINE F == {f \in D : at(f) \notin S}
  <2> HIDE DEF at
  <2>1. F # {} /\ F \in SUBSET Nat
    BY <1>1, <1>5
  <2>2. PICK f \in F : \A g \in F : f <= g
    <3> HIDE DEF F
    <3> QED BY <2>1, LeastNat
  <2>3. f \in D /\ at(f) \notin S /\ f \in Int
    BY <1>1
  <2>4. ASSUME NEW g \in 1 .. f - 1 PROVE at(g) \in S
    <3>1. g \in D /\ ~(f <= g)
      BY <1>1, <2>3
    <3> QED BY <2>2, <3>1
  <2> QED BY <2>3, <2>4
<1>7. (CHOOSE f \in D : Free(f)) \in D
  <2> HIDE DEF Free, D
  <2> QED BY <1>6
<1>8. (CHOOSE f \in D : Free(f)) \in Int
  <2> HIDE DEF Free
  <2> QED BY <1>1, <1>7
<1>9. at(CHOOSE f \in D : Free(f)) \in Vectors
  <2> HIDE DEF Free, at, D
  <2> QED BY <1>3, <1>8
<1> QED BY <1>9

(* They are finitely many, and there is one.                               *)
LEMMA PointsFound ==
  ASSUME NEW poe \in Poes, NEW draw \in Seq(Int \ {0})
  PROVE  SearchPoints(poe, draw) \in Seq(Vectors) /\ Len(SearchPoints(poe, draw)) >= 1
<1> DEFINE E == poe.exps
           R == {i \in Joints(poe) : Turns(E[i])}
           crossing == {ij \in R \X (R \ {1}) :
                           ~ParallelAxes(E[ij[1]], E[ij[2]]) /\ IntersectingAxes(E[ij[1]], E[ij[2]])}
           found == {Zero} \cup {E[i].origin : i \in R}
                      \cup {NearestPoint(E[ij[1]], E[ij[2]]) : ij \in crossing}
           factor(i) == IF i \in DOMAIN draw THEN draw[i] ELSE 1
           at(i, f) == Plus(E[i].origin, Times(f * factor(i), E[i].axis))
           drawn(i, S) == at(i, CHOOSE f \in 1 .. Cardinality(S) + 1 :
                                    at(i, f) \notin S /\ \A g \in 1 .. f - 1 : at(i, g) \in S)
           more == CHOOSE f : f = [i \in 0 .. Len(E) |->
                       IF i = 0 THEN found
                       ELSE IF i \in R THEN f[i - 1] \cup {drawn(i, f[i - 1])} ELSE f[i - 1]]
           points == more[Len(E)] \cup {poe.transform.p}
           step == [i \in 1 .. Len(E) |-> [S \in PointSets |->
               IF i \in R THEN S \cup {drawn(i, S)} ELSE S]]
<1>1. /\ Len(E) \in Nat /\ (\A i \in 1 .. Len(E) : E[i] \in Exps) /\ R \in SUBSET (1 .. Len(E))
      /\ poe.transform.p \in Vectors
  BY RigidType DEF Poes, Joints
<1>2. SearchPoints(poe, draw) = [n \in 1 .. Cardinality(points) |->
            CHOOSE p \in points : Cardinality({q \in points : Before(q, p)}) = n - 1]
  BY DEF SearchPoints
<1> HIDE DEF E, R
<1>3. IsFiniteSet(R)
  <2>1. IsFiniteSet(1 .. Len(E))
    BY <1>1, FS_Interval
  <2> QED BY <1>1, <2>1, FS_Subset
<1>4. found \in PointSets /\ Zero \in found
  <2> DEFINE A == {E[i].origin : i \in R}
             B == {NearestPoint(E[ij[1]], E[ij[2]]) : ij \in crossing}
             a == [i \in R |-> E[i].origin]
             c == [ij \in crossing |-> NearestPoint(E[ij[1]], E[ij[2]])]
  <2>1. A \subseteq Vectors
    BY <1>1 DEF Exps
  <2>2. IsFiniteSet(A)
    <3>1. DOMAIN a = R /\ A = {a[i] : i \in R}
      OBVIOUS
    <3> HIDE DEF a
    <3>2. IsFiniteSet({a[i] : i \in R})
      BY <1>3, <3>1, ImageFinite
    <3> QED BY <3>1, <3>2
  <2>3. B \subseteq Vectors
    <3> SUFFICES ASSUME NEW ij \in crossing PROVE NearestPoint(E[ij[1]], E[ij[2]]) \in Vectors
      OBVIOUS
    <3>1. ij[1] \in 1 .. Len(E) /\ ij[2] \in 1 .. Len(E) /\ ~ParallelAxes(E[ij[1]], E[ij[2]])
      BY <1>1
    <3> QED BY <1>1, <3>1, NearestAt
  <2>4. IsFiniteSet(B)
    <3>1. IsFiniteSet(R \ {1})
      BY <1>3, FS_Subset
    <3>2. IsFiniteSet(R \X (R \ {1}))
      BY <1>3, <3>1, FS_Product
    <3>3. IsFiniteSet(crossing)
      BY <3>2, FS_Subset
    <3>4. DOMAIN c = crossing /\ B = {c[ij] : ij \in crossing}
      OBVIOUS
    <3> HIDE DEF c, crossing
    <3>5. IsFiniteSet({c[ij] : ij \in crossing})
      BY <3>3, <3>4, ImageFinite
    <3> QED BY <3>4, <3>5
  <2>5. found = {Zero} \cup A \cup B
    OBVIOUS
  <2>6. IsFiniteSet({Zero})
    BY FS_Singleton
  <2> HIDE DEF A, B, found
  <2>7. IsFiniteSet({Zero} \cup A)
    BY <2>2, <2>6, FS_Union
  <2>8. IsFiniteSet(found)
    BY <2>4, <2>5, <2>7, FS_Union
  <2> QED BY <2>1, <2>3, <2>5, <2>8, ZeroType DEF PointSets
<1> HIDE DEF found
<1>5. ASSUME NEW i \in R, NEW S \in PointSets PROVE drawn(i, S) \in Vectors
  <2>1. E[i] \in Exps
    BY <1>1
  <2>2. factor(i) \in Int \ {0}
    OBVIOUS
  <2> HIDE DEF factor
  <2> QED BY <2>1, <2>2, Drawn
<1> HIDE DEF drawn
<1>6. ASSUME NEW S \in PointSets, NEW p \in Vectors PROVE S \cup {p} \in PointSets
  BY FS_AddElement DEF PointSets
<1>7. step \in [1 .. Len(E) -> [PointSets -> PointSets]]
  BY <1>5, <1>6
<1>8. PICK f \in [0 .. Len(E) -> PointSets] : Unfolds(f, Len(E), found, step)
  <2> HIDE DEF step
  <2> QED BY <1>1, <1>4, <1>7, Recursion
<1>9. ASSUME NEW i \in 0 .. Len(E)
      PROVE  f[i] = IF i = 0 THEN found ELSE
                 IF i \in R THEN f[i - 1] \cup {drawn(i, f[i - 1])} ELSE f[i - 1]
  <2>1. CASE i = 0
    BY <1>8, <2>1 DEF Unfolds
  <2>2. CASE i \in 1 .. Len(E)
    <3>1. f[i - 1] \in PointSets
      BY <1>1, <1>8, <2>2
    <3>2. step[i][f[i - 1]] = IF i \in R THEN f[i - 1] \cup {drawn(i, f[i - 1])} ELSE f[i - 1]
      BY <2>2, <3>1
    <3> HIDE DEF step
    <3>3. f[i] = step[i][f[i - 1]] /\ i # 0
      BY <1>1, <1>8, <2>2 DEF Unfolds
    <3> QED BY <3>2, <3>3
  <2> QED BY <1>1, <2>1, <2>2
<1>10. f = [i \in 0 .. Len(E) |->
              IF i = 0 THEN found ELSE IF i \in R THEN f[i - 1] \cup {drawn(i, f[i - 1])} ELSE f[i - 1]]
  BY <1>8, <1>9
<1>11. more = [i \in 0 .. Len(E) |->
              IF i = 0 THEN found ELSE IF i \in R THEN more[i - 1] \cup {drawn(i, more[i - 1])}
                  ELSE more[i - 1]]
  BY <1>10
<1> HIDE DEF more
<1>12. 0 .. Len(E) \subseteq {i \in 0 .. Len(E) : more[i] \in PointSets /\ Zero \in more[i]}
  <2> DEFINE T == {i \in 0 .. Len(E) : more[i] \in PointSets /\ Zero \in more[i]}
  <2>1. 0 \in T
    BY <1>1, <1>4, <1>11
  <2>2. ASSUME NEW i \in 1 .. Len(E), i - 1 \in T PROVE i \in T
    <3>1. i \in 0 .. Len(E) /\ i # 0
      BY <1>1
    <3>2. more[i - 1] \in PointSets /\ Zero \in more[i - 1]
      BY <2>2
    <3>3. more[i] = IF i \in R THEN more[i - 1] \cup {drawn(i, more[i - 1])} ELSE more[i - 1]
      BY <1>11, <3>1
    <3> QED BY <1>5, <1>6, <3>1, <3>2, <3>3
  <2> HIDE DEF T
  <2>3. 0 .. Len(E) \subseteq T
    BY <1>1, <2>1, <2>2, Interval
  <2> QED BY <2>3 DEF T
<1>13. points \in PointSets /\ Zero \in points
  <2>1. Len(E) \in 0 .. Len(E)
    BY <1>1
  <2>2. more[Len(E)] \in PointSets /\ Zero \in more[Len(E)]
    BY <1>12, <2>1
  <2> QED BY <1>1, <1>6, <2>2
<1> HIDE DEF points
<1>14. Cardinality(points) \in Nat /\ Cardinality(points) # 0
  <2>1. IsFiniteSet(points)
    BY <1>13 DEF PointSets
  <2> QED BY <1>13, <2>1, FS_CardinalityType, FS_EmptySet
<1> DEFINE sorted(n) == CHOOSE p \in points : Cardinality({q \in points : Before(q, p)}) = n - 1
           c == Cardinality(points)
<1>15. ASSUME NEW n \in 1 .. c PROVE sorted(n) \in Vectors
  <2>1. \E p \in points : Cardinality({q \in points : Before(q, p)}) = n - 1
    BY <1>13, Ranked
  <2>2. sorted(n) \in points
    BY <2>1
  <2> HIDE DEF sorted
  <2> QED BY <1>13, <2>2 DEF PointSets
<1>16. SearchPoints(poe, draw) = [n \in 1 .. c |-> sorted(n)]
  BY <1>2
<1> HIDE DEF sorted, c
<1>17. SearchPoints(poe, draw) \in [1 .. c -> Vectors] /\ c \in Nat /\ c # 0
  BY <1>14, <1>15, <1>16 DEF c
<1> QED BY <1>17

(* The state of the terms when the joints of K are known.                  *)
Terms(n, K) ==
  [i \in 1 .. n |-> IF 1 .. i \subseteq K \/ (i = n /\ n \in K) THEN "computed"
                    ELSE IF i \in K THEN "known" ELSE "unknown"]

(* What is known grows by the joints of each step.                         *)
LEMMA LearntMore ==
  /\ \A steps : Learnt(steps, 1) = {}
  /\ \A steps : \A c \in Nat \ {0} : Learnt(steps, c + 1) = Learnt(steps, c) \cup ToSet(steps[c].ids)
<1>1. ASSUME NEW steps PROVE Learnt(steps, 1) = {}
  BY DEF Learnt
<1>2. ASSUME NEW steps, NEW c \in Nat \ {0}
      PROVE  Learnt(steps, c + 1) = Learnt(steps, c) \cup ToSet(steps[c].ids)
  <2>1. 1 .. (c + 1) - 1 = (1 .. c - 1) \cup {c}
    OBVIOUS
  <2> DEFINE known(d) == ToSet(steps[d].ids)
  <2>2. UNION {known(d) : d \in (1 .. c - 1) \cup {c}} = (UNION {known(d) : d \in 1 .. c - 1}) \cup known(c)
    <3> HIDE DEF known
    <3> QED OBVIOUS
  <2> QED BY <2>1, <2>2 DEF Learnt
<1> QED BY <1>1, <1>2

(* The terms before a step.                                                *)
LEMMA TermsBefore ==
  ASSUME NEW n \in Nat, NEW K, NEW U, U = 1 .. n \ K
  PROVE  TermState(n, U, U, Terms(n, K))
<1> DEFINE t == Terms(n, K)
<1>1. DOMAIN t = 1 .. n
  BY DEF Terms
<1>2. ASSUME NEW i \in 1 .. n
      PROVE  /\ t[i] = "computed" <=> (\A j \in 1 .. i : j \notin U) \/ (i = n /\ n \notin U)
             /\ t[i] = "unknown" <=> i \in U
             /\ t[i] \in {"unknown", "known", "computed"}
  <2>1. 1 .. i \subseteq K <=> \A j \in 1 .. i : j \notin U
    <3>1. \A j \in 1 .. i : j \in 1 .. n
      OBVIOUS
    <3> QED BY <3>1
  <2>2. i \in 1 .. i /\ (i \in K <=> i \notin U)
    OBVIOUS
  <2>3. i = n => (n \in K <=> n \notin U)
    BY <2>2
  <2>4. t[i] = IF 1 .. i \subseteq K \/ (i = n /\ n \in K) THEN "computed"
               ELSE IF i \in K THEN "known" ELSE "unknown"
    BY DEF Terms
  <2> HIDE DEF t
  <2> QED BY <2>1, <2>2, <2>3, <2>4
<1> HIDE DEF t
<1>3. TermState(n, U, U, t)
  BY <1>1, <1>2 DEF TermState
<1> QED BY <1>3 DEF t

(* The terms when the joints of the step are known.                        *)
LEMMA TermsAfter ==
  ASSUME NEW n \in Nat, NEW K, NEW U, U = 1 .. n \ K, NEW s, ToSet(s.ids) \subseteq U
  PROVE  TermState(n, U, U \ ToSet(s.ids), Learn(Terms(n, K), s))
<1> DEFINE t == Terms(n, K)
           l == Learn(t, s)
           V == U \ ToSet(s.ids)
<1>1. TermState(n, U, U, t)
  BY TermsBefore
<1> HIDE DEF t
<1>2. DOMAIN t = 1 .. n
  BY <1>1 DEF TermState
<1>3. DOMAIN l = 1 .. n
  BY <1>2 DEF Learn
<1>4. ASSUME NEW i \in 1 .. n
      PROVE  /\ l[i] = "computed" <=> (\A j \in 1 .. i : j \notin U) \/ (i = n /\ n \notin U)
             /\ l[i] = "unknown" <=> i \in V
             /\ l[i] \in {"unknown", "known", "computed"}
  <2>1. l[i] = IF i \in ToSet(s.ids) THEN "known" ELSE t[i]
    BY <1>2 DEF Learn
  <2>2. /\ t[i] = "computed" <=> (\A j \in 1 .. i : j \notin U) \/ (i = n /\ n \notin U)
        /\ t[i] = "unknown" <=> i \in U
        /\ t[i] \in {"unknown", "known", "computed"}
    BY <1>1 DEF TermState
  <2>3. CASE i \in ToSet(s.ids)
    <3>1. i \in U /\ i \in 1 .. i
      BY <2>3
    <3>2. ~((\A j \in 1 .. i : j \notin U) \/ (i = n /\ n \notin U))
      BY <3>1
    <3> HIDE DEF l
    <3> QED BY <2>1, <2>3, <3>1, <3>2
  <2>4. CASE i \notin ToSet(s.ids)
    <3> HIDE DEF l
    <3> QED BY <2>1, <2>2, <2>4
  <2> QED BY <2>3, <2>4
<1> HIDE DEF l, V
<1>5. TermState(n, U, V, l)
  <2>1. V \subseteq U
    BY DEF V
  <2> QED BY <1>3, <1>4, <2>1 DEF TermState
<1> QED BY <1>5 DEF t, l, V

(* Recalculating the right-hand side brings the terms to the next step.    *)
LEMMA TermsNext ==
  ASSUME NEW n \in Nat \ {0}, NEW K, NEW s
  PROVE  RecalculateFrames(Learn(Terms(n, K), s)) = Terms(n, K \cup ToSet(s.ids))
<1> DEFINE I == ToSet(s.ids)
           l == Learn(Terms(n, K), s)
           pre == [i \in 1 .. n |-> IF \A j \in 1 .. i : l[j] # "unknown" THEN "computed" ELSE l[i]]
           r == IF pre[n] = "known" THEN [pre EXCEPT ![n] = "computed"] ELSE pre
           w == Terms(n, K \cup I)
<1>1. l = [i \in 1 .. n |-> IF i \in I THEN "known" ELSE Terms(n, K)[i]]
  BY DEF Learn, Terms
<1>2. ASSUME NEW i \in 1 .. n
      PROVE  /\ l[i] = IF i \in I THEN "known"
                       ELSE IF 1 .. i \subseteq K \/ (i = n /\ n \in K) THEN "computed"
                       ELSE IF i \in K THEN "known" ELSE "unknown"
             /\ l[i] = "unknown" <=> i \notin K \cup I
  <2>1. Terms(n, K)[i] = IF 1 .. i \subseteq K \/ (i = n /\ n \in K) THEN "computed"
                         ELSE IF i \in K THEN "known" ELSE "unknown"
    BY DEF Terms
  <2>2. l[i] = IF i \in I THEN "known" ELSE Terms(n, K)[i]
    BY <1>1
  <2>3. 1 .. i \subseteq K => i \in K
    OBVIOUS
  <2> HIDE DEF l, I
  <2> QED BY <2>1, <2>2, <2>3
<1> HIDE DEF I, l
<1>3. Len(l) = n
  BY <1>1
<1>4. RecalculateFrames(l) = r
  BY <1>3 DEF RecalculateFrames
<1>5. ASSUME NEW i \in 1 .. n
      PROVE  r[i] = IF 1 .. i \subseteq K \cup I \/ (i = n /\ n \in K \cup I) THEN "computed"
                    ELSE IF i \in K \cup I THEN "known" ELSE "unknown"
  <2>1. (\A j \in 1 .. i : l[j] # "unknown") <=> 1 .. i \subseteq K \cup I
    <3>1. \A j \in 1 .. i : j \in 1 .. n
      OBVIOUS
    <3> QED BY <1>2, <3>1
  <2>2. pre[i] = IF 1 .. i \subseteq K \cup I THEN "computed" ELSE l[i]
    BY <2>1
  <2>3. 1 .. i \subseteq K => 1 .. i \subseteq K \cup I
    OBVIOUS
  <2>4. n \in 1 .. n /\ DOMAIN pre = 1 .. n
    OBVIOUS
  <2>5. r[i] = IF i = n /\ pre[i] = "known" THEN "computed" ELSE pre[i]
    <3> HIDE DEF pre
    <3>1. CASE pre[n] = "known"
      BY <2>4, <3>1
    <3>2. CASE pre[n] # "known"
      BY <3>2
    <3> QED BY <3>1, <3>2
  <2> HIDE DEF pre, r
  <2>6. l[i] = IF i \in I THEN "known"
               ELSE IF 1 .. i \subseteq K \/ (i = n /\ n \in K) THEN "computed"
               ELSE IF i \in K THEN "known" ELSE "unknown"
    BY <1>2
  <2>7. i \in K \cup I <=> i \in K \/ i \in I
    OBVIOUS
  <2>8. i = n => (n \in K <=> i \in K) /\ (n \in K \cup I <=> i \in K \cup I)
    OBVIOUS
  <2> QED BY <2>2, <2>3, <2>5, <2>6, <2>7, <2>8
<1>6. r = [i \in 1 .. n |-> r[i]]
  OBVIOUS
<1>7. w = [i \in 1 .. n |-> w[i]] /\ \A i \in 1 .. n :
         w[i] = IF 1 .. i \subseteq K \cup I \/ (i = n /\ n \in K \cup I) THEN "computed"
                ELSE IF i \in K \cup I THEN "known" ELSE "unknown"
  BY DEF Terms
<1>8. r = w
  <2> HIDE DEF r, w
  <2> QED BY <1>5, <1>6, <1>7
<1> QED BY <1>4, <1>8 DEF l, I

---------------------------------------------------------------------------
(* A search keeps what has been seen whenever a subproblem was taken, and  *)
(* the points of the first stage that have left no wrist.                  *)
Points(b) ==
  /\ b.points \in Seq(Vectors) /\ Len(b.points) >= 1
  /\ b.at = <<b.at[1], b.at[2]>> /\ b.at[1] \in 1 .. Len(b.points) /\ b.at[2] \in 1 .. Len(b.points)
  /\ b.test = <<b.test[1], b.test[2]>> /\ b.test[1] = b.points[b.at[1]] /\ b.test[2] \in Vectors

Steps(b) ==
  /\ IsSequence(b.steps) /\ History(b.poe.exps, b.steps)
  /\ b.known = Learnt(b.steps, Len(b.steps) + 1) /\ b.known \subseteq Joints(b.poe)

WithoutWrist(b) ==
  \A j \in 1 .. Len(b.points) :
     b.depth # 0 \/ j < b.at[1] => Tried(b.poe.exps, Unknown(b), b.points[j])

Searches(b) ==
  /\ {"poe", "points", "known", "steps", "depth", "at", "test"} \subseteq DOMAIN b
  /\ b.poe \in Poes /\ b.depth \in {0, 1, 2}
  /\ Points(b) /\ Steps(b) /\ WithoutWrist(b)

(* A search begins with nothing known.                                     *)
LEMMA Starts ==
  ASSUME NEW poe \in Poes, NEW reversed, NEW draw \in Draws
  PROVE  Searches(SearchFrom(poe, reversed, draw))
<1> DEFINE b == SearchFrom(poe, reversed, draw)
           P == SearchPoints(poe, draw)
<1>1. P \in Seq(Vectors) /\ Len(P) >= 1
  BY DrawsAssumption, PointsFound
<1> HIDE DEF P
<1>2. /\ {"poe", "points", "known", "steps", "depth", "at", "test"} \subseteq DOMAIN b
      /\ b.poe = poe /\ b.points = P /\ b.known = {} /\ b.steps = <<>> /\ b.depth = 0
      /\ b.at = <<1, 1>> /\ b.test = <<P[1], P[1]>>
  BY DEF SearchFrom, P
<1> HIDE DEF b
<1>3. Len(P) \in Nat /\ 1 \in 1 .. Len(P) /\ P[1] \in Vectors
  BY <1>1
<1>4. Points(b)
  BY <1>1, <1>2, <1>3 DEF Points
<1>5. Steps(b)
  <2>1. IsSequence(<<>>)
    BY DEF IsSequence
  <2>2. Len(<<>>) = 0 /\ Learnt(<<>>, 1) = {}
    BY LearntMore
  <2> QED BY <1>2, <2>1, <2>2 DEF Steps, History
<1>6. WithoutWrist(b)
  BY <1>2 DEF WithoutWrist
<1>7. Searches(b)
  BY <1>2, <1>4, <1>5, <1>6 DEF Searches
<1> QED BY <1>7 DEF b

(* A search that goes on has joints left, and at the second stage the      *)
(* first test point has been tried.                                        *)
LEMMA IsSought ==
  ASSUME NEW b, Searches(b), Searching(b)
  PROVE  Sought(b) /\ (b.depth = 1 => Tried(b.poe.exps, Unknown(b), b.test[1]))
<1>1. b.test[1] \in Vectors
  BY DEF Searches, Points
<1>2. Sought(b)
  BY <1>1 DEF Searches, Points, Steps, Searching, MaxDepth, Sought, Poes, Joints
<1> QED BY <1>2 DEF Searches, Points, WithoutWrist

(* To take a subproblem.                                                   *)
LEMMA Takes ==
  ASSUME NEW b, Searches(b), Searching(b), NEW s \in TrySolve(b, Simplify(b))
  PROVE  Searches(TakeStep(b, s))
<1> DEFINE c == TakeStep(b, s)
           E == b.poe.exps
           n == Len(b.steps)
<1>1. Taken(E, Unknown(b), s)
  BY IsSought, SearchTakes
<1>2. /\ DOMAIN c = DOMAIN b /\ c.poe = b.poe /\ c.points = b.points
             /\ c.known = b.known \cup ToSet(s.ids)
      /\ c.steps = Append(b.steps, s) /\ c.depth = 0 /\ c.at = <<1, 1>>
      /\ c.test = [b.test EXCEPT ![1] = b.points[1]]
  BY DEF TakeStep, Searches
<1> HIDE DEF c
<1>3. Points(c)
  <2>1. b.test = <<b.test[1], b.test[2]>> /\ b.test[2] \in Vectors
    BY DEF Searches, Points
  <2>2. c.test = <<b.points[1], b.test[2]>>
    BY <1>2, <2>1
  <2>3. c.points \in Seq(Vectors) /\ Len(c.points) >= 1
    BY <1>2 DEF Searches, Points
  <2> QED BY <1>2, <2>1, <2>2, <2>3 DEF Points
<1>4. Steps(c)
  <2>1. IsSequence(b.steps) /\ n \in Nat /\ History(E, b.steps) /\ b.known = Learnt(b.steps, n + 1)
        /\ b.known \subseteq Joints(b.poe)
    BY IsLong DEF Searches, Steps
  <2>2. IsSequence(c.steps)
    BY <1>2, <2>1, IsAppended
  <2>3. Len(c.steps) = n + 1 /\ c.steps[n + 1] = s /\ \A d \in 1 .. n : c.steps[d] = b.steps[d]
    <3>1. PICK S : b.steps \in Seq(S)
      BY <2>1 DEF IsSequence
    <3> QED BY <1>2, <3>1
  <2> HIDE DEF n
  <2>4. ASSUME NEW d \in 1 .. n + 1 PROVE Learnt(c.steps, d) = Learnt(b.steps, d)
    <3>1. \A e \in 1 .. d - 1 : c.steps[e] = b.steps[e]
      BY <2>1, <2>3
    <3> QED BY <3>1 DEF Learnt
  <2>5. History(E, c.steps)
    <3> SUFFICES ASSUME NEW d \in 1 .. n + 1 PROVE Taken(E, Left(E, c.steps, d), c.steps[d])
      BY <1>2, <2>3 DEF History
    <3>1. Left(E, c.steps, d) = Left(E, b.steps, d)
      BY <2>4 DEF Left
    <3>2. CASE d \in 1 .. n
      BY <2>1, <2>3, <3>1, <3>2 DEF History, n
    <3>3. CASE d = n + 1
      <4>1. Left(E, b.steps, d) = Unknown(b)
        BY <2>1, <3>3 DEF Left, Unknown, Joints
      <4> QED BY <1>1, <2>3, <3>1, <3>3, <4>1
    <3> QED BY <2>1, <3>2, <3>3
  <2>6. c.known = Learnt(c.steps, Len(c.steps) + 1)
    <3>1. n + 1 \in Nat \ {0} /\ n + 1 \in 1 .. n + 1
      BY <2>1
    <3>2. Learnt(c.steps, (n + 1) + 1) = Learnt(c.steps, n + 1) \cup ToSet(c.steps[n + 1].ids)
      BY <3>1, LearntMore
    <3> QED BY <1>2, <2>1, <2>3, <2>4, <3>1, <3>2
  <2>7. c.known \subseteq Joints(c.poe)
    BY <1>1, <1>2, <2>1, TakenLeft DEF Unknown
  <2> QED BY <1>2, <2>2, <2>5, <2>6, <2>7 DEF Steps
<1>5. WithoutWrist(c)
  BY <1>2 DEF WithoutWrist
<1>6. Searches(c)
  BY <1>2, <1>3, <1>4, <1>5 DEF Searches
<1> QED BY <1>6 DEF c

(* Or the next point, none being found.                                    *)
LEMMA Moves ==
  ASSUME NEW b, Searches(b), Searching(b), TrySolve(b, Simplify(b)) = {}
  PROVE  Searches(NextPoint(b))
<1> DEFINE c == NextPoint(b)
           n == Len(b.points)
           first == IF b.at[1] < n THEN b.at[1] + 1 ELSE 1
           second == IF b.at[2] < n THEN b.at[2] + 1 ELSE 1
           b1 == [b EXCEPT !.at[1] = first, !.test[1] = b.points[first]]
           b2 == [b1 EXCEPT !.at[2] = second, !.test[2] = b.points[second]]
<1>1. /\ {"poe", "points", "known", "steps", "depth", "at", "test"} \subseteq DOMAIN b
      /\ b.points \in Seq(Vectors) /\ n \in Nat
      /\ b.at = <<b.at[1], b.at[2]>> /\ b.at[1] \in 1 .. n /\ b.at[2] \in 1 .. n
      /\ b.test = <<b.test[1], b.test[2]>> /\ b.test[2] \in Vectors
      /\ b.depth \in {0, 1}
  BY DEF Searches, Points, Searching, MaxDepth
<1>2. c = IF first # 1 THEN b1
          ELSE IF b.depth = 0 THEN [b1 EXCEPT !.depth = 1]
          ELSE IF second = 1 THEN [b2 EXCEPT !.depth = 2] ELSE b2
  BY DEF NextPoint
<1>3. first \in 1 .. n /\ second \in 1 .. n
  BY <1>1
<1>4. \A j \in 1 .. n : b.points[j] \in Vectors
  BY <1>1
<1> DEFINE Same(d) == /\ DOMAIN d = DOMAIN b /\ d.poe = b.poe /\ d.points = b.points
                      /\ d.known = b.known /\ d.steps = b.steps
<1> HIDE DEF first, second, n
<1>5. Same(b1) /\ b1.depth = b.depth /\ b1.at = [b.at EXCEPT ![1] = first]
      /\ b1.test = [b.test EXCEPT ![1] = b.points[first]]
  BY <1>1
<1>6. b1.at = <<first, b.at[2]>> /\ b1.test = <<b.points[first], b.test[2]>>
  <2>1. [b.at EXCEPT ![1] = first] = <<first, b.at[2]>>
    BY <1>1
  <2>2. [b.test EXCEPT ![1] = b.points[first]] = <<b.points[first], b.test[2]>>
    BY <1>1
  <2> HIDE DEF b1
  <2> QED BY <1>5, <2>1, <2>2
<1> HIDE DEF b1
<1>7. Same(b2) /\ b2.depth = b.depth /\ b2.at = [b1.at EXCEPT ![2] = second]
      /\ b2.test = [b1.test EXCEPT ![2] = b.points[second]]
  BY <1>1, <1>5
<1>8. b2.at = <<first, second>> /\ b2.test = <<b.points[first], b.points[second]>>
  <2> HIDE DEF b2
  <2> QED BY <1>6, <1>7
<1> HIDE DEF b2
<1>9. /\ Same(c) /\ c.at[1] = first /\ c.at = <<c.at[1], c.at[2]>> /\ c.at[2] \in 1 .. n
      /\ c.test = <<b.points[first], c.test[2]>> /\ c.test[2] \in Vectors
      /\ c.depth = IF first # 1 THEN b.depth ELSE IF b.depth = 0 THEN 1 ELSE
             IF second = 1 THEN 2 ELSE b.depth
  <2> HIDE DEF c
  <2>1. CASE first # 1
    BY <1>1, <1>2, <1>5, <1>6, <2>1
  <2>2. CASE first = 1 /\ b.depth = 0
    BY <1>1, <1>2, <1>5, <1>6, <2>2
  <2>3. CASE first = 1 /\ b.depth # 0
    BY <1>1, <1>2, <1>3, <1>4, <1>7, <1>8, <2>3
  <2> QED BY <2>1, <2>2, <2>3
<1> HIDE DEF c
<1>10. Points(c)
  BY <1>1, <1>3, <1>9 DEF Points, n
<1>11. Steps(c)
  BY <1>9 DEF Searches, Steps
<1>12. c.depth \in {0, 1, 2}
  BY <1>1, <1>9
<1>13. ASSUME NEW j \in 1 .. n, c.depth # 0 \/ j < first
       PROVE Tried(b.poe.exps, Unknown(b), b.points[j])
  <2>1. CASE b.depth # 0 \/ j < b.at[1]
    BY <2>1 DEF Searches, WithoutWrist, n
  <2>2. CASE b.depth = 0 /\ ~(j < b.at[1])
    <3>1. j = b.at[1]
      BY <1>1, <1>9, <1>13, <2>2 DEF first
    <3>2. b.points[j] = b.test[1]
      BY <3>1 DEF Searches, Points
    <3> QED BY <2>2, <3>2, IsSought, SearchTries
  <2> QED BY <2>1, <2>2
<1>14. WithoutWrist(c)
  <2>1. Unknown(c) = Unknown(b)
    BY <1>9 DEF Unknown
  <2> QED BY <1>9, <1>13, <2>1 DEF WithoutWrist, n
<1>15. Searches(c)
  BY <1>1, <1>9, <1>10, <1>11, <1>12, <1>14 DEF Searches
<1> QED BY <1>15 DEF c

(* One turn of the search.                                                 *)
LEMMA Continues ==
  ASSUME NEW b, Searches(b), Searching(b)
  PROVE  Searches(SearchSolutions(b))
BY Takes, Moves DEF SearchSolutions

---------------------------------------------------------------------------
(* The problem in force solves every joint, each subproblem taken as it    *)
(* was seen by the search, and a call has carried the terms along it.      *)
HistoryInv ==
  /\ phase = "building" => Searches(search)
  /\ problem.poe \in Poes /\ IsSequence(problem.steps)
  /\ History(problem.poe.exps, problem.steps)
  /\ Left(problem.poe.exps, problem.steps, Len(problem.steps) + 1) = {}
  /\ phase = "solving" =>
       /\ job.step \in 1 .. Len(problem.steps) + 1
       /\ job.step <= Len(problem.steps) =>
            job.terms = Terms(Len(problem.poe.exps), Learnt(problem.steps, job.step))

(* No problem is no history.                                               *)
LEMMA NothingToSolve ==
  /\ NoProblem.poe \in Poes /\ IsSequence(NoProblem.steps)
  /\ History(NoProblem.poe.exps, NoProblem.steps)
  /\ Left(NoProblem.poe.exps, NoProblem.steps, Len(NoProblem.steps) + 1) = {}
<1>1. NoProblem.poe = Poe(<<>>, Identity) /\ NoProblem.steps = <<>> /\ Len(<<>>) = 0
  BY DEF NoProblem
<1>2. Poe(<<>>, Identity) \in Poes /\ Poe(<<>>, Identity).exps = <<>>
  BY IdentityRigid DEF Poe, Poes
<1>3. IsSequence(<<>>)
  BY DEF IsSequence
<1> QED BY <1>1, <1>2, <1>3 DEF History, Left

(* Nothing is in force at first.                                           *)
LEMMA HistoryInit == SolverOff => HistoryInv
BY NothingToSolve DEF SolverOff, HistoryInv

(* A search begins for the chain in force.                                 *)
LEMMA HistoryBuild ==
  ASSUME HistoryInv, ChainInv', Build(chain'), UNCHANGED problem
  PROVE  HistoryInv'
<1>1. PICK draw \in Draws : phase' = "building" /\ search' = SearchFrom(FromChain(chain'), FALSE, draw)
  BY DEF Build
<1>2. FromChain(chain') \in Poes
  BY FromChainType DEF ChainInv
<1>3. Searches(search')
  BY <1>1, <1>2, Starts
<1> QED BY <1>1, <1>3 DEF HistoryInv

(* The steps: a search is begun by open, append and restore, and carried   *)
(* on; what it finds is the problem in force; a call goes through its      *)
(* steps.                                                                  *)
LEMMA HistoryOpen == HistoryInv /\ ChainInv' /\ Open => HistoryInv'
<1> SUFFICES ASSUME HistoryInv, ChainInv', Open PROVE HistoryInv'
  OBVIOUS
<1>1. UNCHANGED problem /\ (phase' = "failed" \/ Build(chain'))
  BY DEF Open
<1>2. CASE phase' = "failed"
  BY <1>1, <1>2 DEF HistoryInv
<1> QED BY <1>1, <1>2, HistoryBuild

LEMMA HistorySearch == HistoryInv /\ SearchStep => HistoryInv'
<1> SUFFICES ASSUME HistoryInv, SearchStep PROVE HistoryInv'
  OBVIOUS
<1>1. phase = "building" /\ UNCHANGED <<phase, problem>> /\ Searches(search)
  BY DEF SearchStep, HistoryInv
<1>2. CASE Searching(search) /\ search' = SearchSolutions(search)
  <2>1. Searches(search')
    BY <1>1, <1>2, Continues
  <2> QED BY <1>1, <2>1 DEF HistoryInv
<1>3. CASE \E draw \in Draws : search' = SearchFrom(ReverseSelf(search.poe), TRUE, draw)
  <2>1. search.poe \in Poes
    BY <1>1 DEF Searches
  <2>2. [i \in 1 .. Len(search.poe.exps) |-> 0] \in [1 .. Len(search.poe.exps) -> Int]
    OBVIOUS
  <2>3. ReverseSelf(search.poe) \in Poes
    BY <2>1, <2>2, SelfReversed
  <2>4. Searches(search')
    BY <1>3, <2>3, Starts
  <2> QED BY <1>1, <2>4 DEF HistoryInv
<1> QED BY <1>2, <1>3 DEF SearchStep

LEMMA HistoryFound == HistoryInv /\ Found => HistoryInv'
<1> SUFFICES ASSUME HistoryInv, Found PROVE HistoryInv'
  OBVIOUS
<1>1. /\ Searches(search) /\ Unknown(search) = {} /\ phase' = "ready"
      /\ problem'.poe = search.poe /\ problem'.steps = search.steps
  BY DEF Found, HistoryInv, Solved
<1>2. Left(search.poe.exps, search.steps, Len(search.steps) + 1) = {}
  BY <1>1 DEF Searches, Steps, Left, Unknown, Joints
<1> QED BY <1>1, <1>2 DEF HistoryInv, Searches, Steps

LEMMA HistoryNotFound == HistoryInv /\ NotFound => HistoryInv'
BY DEF NotFound, HistoryInv

LEMMA HistoryAppend == HistoryInv /\ ChainInv' /\ AppendLink => HistoryInv'
<1> SUFFICES ASSUME HistoryInv, ChainInv', AppendLink PROVE HistoryInv'
  OBVIOUS
<1>1. Build(chain') /\ UNCHANGED problem
  BY DEF AppendLink
<1> QED BY <1>1, HistoryBuild

LEMMA HistoryRestore == HistoryInv /\ ChainInv' /\ RestoreOriginalChain => HistoryInv'
<1> SUFFICES ASSUME HistoryInv, ChainInv', RestoreOriginalChain PROVE HistoryInv'
  OBVIOUS
<1>1. Build(chain') /\ UNCHANGED problem
  BY DEF RestoreOriginalChain
<1> QED BY <1>1, HistoryBuild

LEMMA HistoryInvKin == HistoryInv /\ InvKin => HistoryInv'
<1> SUFFICES ASSUME HistoryInv, InvKin PROVE HistoryInv'
  OBVIOUS
<1>1. UNCHANGED <<search, problem>> /\ phase = "ready"
  BY DEF InvKin
<1>2. CASE phase' = phase
  BY <1>1, <1>2 DEF HistoryInv
<1>3. CASE phase' = "solving" /\ job' = [terms |-> [i \in Joints(problem.poe) |-> "unknown"],
               step |-> 1]
  <2> DEFINE n == Len(problem.poe.exps)
  <2>1. n \in Nat /\ Len(problem.steps) \in Nat
    BY IsLong, PoeType DEF HistoryInv
  <2>2. Learnt(problem.steps, 1) = {}
    BY LearntMore
  <2> HIDE DEF n
  <2>3. Terms(n, {}) = [i \in 1 .. n |-> "unknown"]
    <3>1. \A i \in 1 .. n : 1 \in 1 .. i
      OBVIOUS
    <3> QED BY <3>1 DEF Terms
  <2>4. job'.step = 1 /\ job'.terms = Terms(n, Learnt(problem.steps, 1))
    BY <1>3, <2>2, <2>3 DEF Joints, n
  <2>5. job'.step \in 1 .. Len(problem.steps) + 1
    BY <2>1, <2>4
  <2> QED BY <1>1, <1>3, <2>4, <2>5 DEF HistoryInv, n
<1> QED BY <1>2, <1>3 DEF InvKin

LEMMA HistorySolve == HistoryInv /\ SolveStep => HistoryInv'
<1> SUFFICES ASSUME HistoryInv, SolveStep PROVE HistoryInv'
  OBVIOUS
<1> DEFINE steps == problem.steps
           n == Len(problem.poe.exps)
           c == job.step
           s == steps[c]
<1>1. /\ phase = "solving" /\ UNCHANGED <<phase, search, problem>> /\ c <= Len(steps)
      /\ job'.step = c + 1
      /\ c < Len(steps) => job'.terms = RecalculateFrames(Learn(job.terms, s))
  BY DEF SolveStep
<1>2. /\ n \in Nat /\ Len(steps) \in Nat /\ c \in 1 .. Len(steps)
      /\ History(problem.poe.exps, steps) /\ job.terms = Terms(n, Learnt(steps, c))
  BY <1>1, IsLong, PoeType DEF HistoryInv
<1>3. n # 0
  <2>1. Taken(problem.poe.exps, Left(problem.poe.exps, steps, c), s)
    BY <1>2 DEF History
  <2>2. PICK m \in Left(problem.poe.exps, steps, c) : TRUE
    BY <2>1, TakenCases
  <2> QED BY <1>2, <2>2 DEF Left
<1> HIDE DEF n, c, steps, s
<1>4. RecalculateFrames(Learn(job.terms, s)) = Terms(n, Learnt(steps, c + 1))
  <2>1. c \in Nat \ {0}
    BY <1>2
  <2>2. Learnt(steps, c + 1) = Learnt(steps, c) \cup ToSet(s.ids)
    BY <2>1, LearntMore DEF s
  <2> QED BY <1>2, <1>3, <2>2, TermsNext
<1>5. job'.step \in 1 .. Len(steps) + 1 /\ (job'.step <= Len(steps) => c < Len(steps))
  BY <1>1, <1>2
<1>6. job'.step <= Len(steps) => job'.terms = Terms(n, Learnt(steps, job'.step))
  BY <1>1, <1>4, <1>5
<1> QED BY <1>1, <1>5, <1>6 DEF HistoryInv, n, steps

LEMMA HistorySelect == HistoryInv /\ Select => HistoryInv'
BY DEF Select, HistoryInv

LEMMA HistoryCrash == HistoryInv /\ SelectorCrash => HistoryInv'
BY DEF SelectorCrash, HistoryInv

LEMMA HistoryClose == HistoryInv /\ Close => HistoryInv'
<1> SUFFICES ASSUME HistoryInv, Close PROVE HistoryInv'
  OBVIOUS
<1>1. phase' = "closed" /\ problem' = NoProblem
  BY DEF Close
<1> QED BY <1>1, NothingToSolve DEF HistoryInv

LEMMA HistoryStep == HistoryInv /\ ChainInv' /\ [SolverNext]_solverVars => HistoryInv'
<1>1. HistoryInv /\ UNCHANGED solverVars => HistoryInv'
  BY DEF solverVars, HistoryInv
<1> QED
  BY <1>1, HistoryOpen, HistorySearch, HistoryFound, HistoryNotFound, HistoryAppend, HistoryRestore,
     HistoryInvKin, HistorySolve, HistorySelect, HistoryCrash, HistoryClose DEF SolverNext

(* With such a history every equation holds.                               *)
LEMMA HistoryHolds == HistoryInv => EquationsHold
<1> SUFFICES ASSUME HistoryInv, phase = "solving", job.step <= Len(problem.steps),
                    ~TranslationsLeft(problem.steps[job.step])
             PROVE  /\ EquationHolds(problem.poe, job.terms, problem.steps[job.step])
                    /\ EquationHolds(problem.poe, Learn(job.terms, problem.steps[job.step]),
                           problem.steps[job.step])
  BY DEF EquationsHold
<1> DEFINE E == problem.poe.exps
           steps == problem.steps
           n == Len(E)
           c == job.step
           s == steps[c]
           K == Learnt(steps, c)
           U == Left(E, steps, c)
           t == job.terms
           l == Learn(t, s)
<1>1. /\ E \in Seq(Exps) /\ n \in Nat /\ Len(steps) \in Nat /\ c \in 1 .. Len(steps)
      /\ History(E, steps) /\ Left(E, steps, Len(steps) + 1) = {} /\ t = Terms(n, K)
  BY IsLong, PoeType DEF HistoryInv
<1>2. Taken(E, U, s) /\ U = 1 .. n \ K
  BY <1>1 DEF History, Left
<1>3. ToSet(s.ids) \subseteq U
  BY <1>2, TakenLeft
<1> HIDE DEF E, steps, n, c, K, U
<1>4. Solvable(E, U)
  <2>1. c \in 1 .. Len(steps) + 1
    BY <1>1
  <2> QED BY <1>1, <2>1, LeftIsSolvable DEF U
<1> HIDE DEF s
<1>5. TermState(n, U, U, t)
  BY <1>1, <1>2, TermsBefore
<1>6. TermState(n, U, U \ ToSet(s.ids), l)
  BY <1>1, <1>2, <1>3, TermsAfter
<1>7. ~(s.kind = "PardosGotorOne" /\ \E i \in DOMAIN t : t[i] # "computed" /\ i # s.ids[1]
          /\ Slides(E[i]))
  BY DEF TranslationsLeft, s, c, steps, E
<1>8. ~(s.kind = "PardosGotorOne" /\ \E i \in DOMAIN l : l[i] # "computed" /\ i # s.ids[1]
          /\ Slides(E[i]))
  <2> SUFFICES ASSUME s.kind = "PardosGotorOne", NEW i \in DOMAIN l, l[i] # "computed",
                      i # s.ids[1], Slides(E[i])
               PROVE  FALSE
    OBVIOUS
  <2>1. DOMAIN l = DOMAIN t
    BY DEF Learn
  <2>2. l[i] = IF i \in ToSet(s.ids) THEN "known" ELSE t[i]
    BY <2>1 DEF Learn
  <2>3. CASE i \in ToSet(s.ids)
    <3>1. s.ids = <<s.ids[1]>>
      BY <1>2 DEF Taken
    <3>2. ToSet(<<s.ids[1]>>) = {s.ids[1]}
      BY Ids
    <3> QED BY <2>3, <3>1, <3>2
  <2>4. CASE i \notin ToSet(s.ids)
    BY <1>7, <2>1, <2>2, <2>4
  <2> QED BY <2>3, <2>4
<1>9. EquationHolds(problem.poe, t, s)
  BY <1>1, <1>2, <1>4, <1>5, <1>7, EquationTaken DEF E, n
<1>10. EquationHolds(problem.poe, l, s)
  BY <1>1, <1>2, <1>4, <1>6, <1>8, EquationTaken DEF E, n
<1> QED BY <1>9, <1>10 DEF s, c, steps

(* For every robot and every tool, each subproblem is solved in a form its *)
(* equation has: what the search moves aside, one way and the other, and   *)
(* what the problem moves to the right-hand side and applies to the points *)
(* leave the joints still unknown out of the equation, whatever was found  *)
(* before (ScrewTheoryIkProblemBuilder.cpp:231-639,                        *)
(* ScrewTheoryIkProblem.cpp:63-264).                                       *)
THEOREM EquationsAlwaysHold == SolverSpec => []EquationsHold
<1>1. SolverOff => ChainInv /\ HistoryInv
  BY ChainInit, HistoryInit
<1>2. ChainInv /\ HistoryInv /\ [SolverNext]_solverVars => (ChainInv /\ HistoryInv)'
  BY ChainStep, HistoryStep
<1>3. ChainInv /\ HistoryInv => EquationsHold
  BY HistoryHolds
<1> QED BY <1>1, <1>2, <1>3, PTL DEF SolverSpec
================================================================================
