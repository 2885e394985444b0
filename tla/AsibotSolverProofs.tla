-------------------------- MODULE AsibotSolverProofs --------------------------
(*****************************************************************************)
(* What holds of the solver of the ASIBOT robot for every posture, position  *)
(* of the robot, tool and limits: forward and inverse kinematics agree, the  *)
(* pose answered is the preferred one of those that reach the target, and    *)
(* the Jacobians are velocities.                                             *)
(*                                                                           *)
(* The arm is a plane one on a turning base: everything follows from where   *)
(* its joints bring the hand (HandPosition), a turn about the vertical, a    *)
(* swing by the pitch and a roll.                                            *)
(*****************************************************************************)
EXTENDS KinematicsProofs, AsibotSolver

---------------------------------------------------------------------------
(* Quarter turns: the sines of a sum, and what a rotation does to          *)
(* coordinates.                                                            *)

LEMMA AxesType ==
  /\ ez \in Units /\ ey \in Units /\ ez \in Vectors /\ ey \in Vectors
  /\ ez = <<0, 0, 1>> /\ ey = <<0, 1, 0>>
BY VectorMake DEF ez, ey, Units

LEMMA SinType == ASSUME NEW k \in Int PROVE Sin(k) \in Int /\ Cos(k) \in Int
BY Quarters

(* The sum of the squares is 1.                                            *)
LEMMA Squares == ASSUME NEW k \in Int PROVE Sin(k) * Sin(k) + Cos(k) * Cos(k) = 1
<1>1. \/ Cos(k) = 1 /\ Sin(k) = 0
      \/ Cos(k) = 0 /\ Sin(k) = 1
      \/ Cos(k) = -1 /\ Sin(k) = 0
      \/ Cos(k) = 0 /\ Sin(k) = -1
  BY Quarters
<1> QED BY <1>1

LEMMA SineOf ==
  ASSUME NEW k \in Int
  PROVE  /\ k % 4 = 0 => Sin(k) = 0 /\ Cos(k) = 1
         /\ k % 4 = 1 => Sin(k) = 1 /\ Cos(k) = 0
         /\ k % 4 = 2 => Sin(k) = 0 /\ Cos(k) = -1
         /\ k % 4 = 3 => Sin(k) = -1 /\ Cos(k) = 0
         /\ k % 4 \in 0 .. 3
<1>1. k % 4 \in 0 .. 3
  OBVIOUS
<1> QED BY <1>1 DEF Sin, Cos

(* The sine and cosine of a sum.                                           *)
LEMMA SineOfSum ==
  ASSUME NEW a \in Int, NEW b \in Int
  PROVE  /\ Sin(a + b) = Sin(a) * Cos(b) + Cos(a) * Sin(b)
         /\ Cos(a + b) = Cos(a) * Cos(b) - Sin(a) * Sin(b)
<1> DEFINE c == a + b
           x == a % 4
           y == b % 4
           z == c % 4
<1>1. c \in Int /\ x \in 0 .. 3 /\ y \in 0 .. 3 /\ z \in 0 .. 3
  OBVIOUS
<1>2. z = (IF x + y < 4 THEN x + y ELSE x + y - 4)
  OBVIOUS
<1>3. /\ x = 0 => Sin(a) = 0 /\ Cos(a) = 1
      /\ x = 1 => Sin(a) = 1 /\ Cos(a) = 0
      /\ x = 2 => Sin(a) = 0 /\ Cos(a) = -1
      /\ x = 3 => Sin(a) = -1 /\ Cos(a) = 0
  BY SineOf
<1>4. /\ y = 0 => Sin(b) = 0 /\ Cos(b) = 1
      /\ y = 1 => Sin(b) = 1 /\ Cos(b) = 0
      /\ y = 2 => Sin(b) = 0 /\ Cos(b) = -1
      /\ y = 3 => Sin(b) = -1 /\ Cos(b) = 0
  BY SineOf
<1>5. /\ z = 0 => Sin(c) = 0 /\ Cos(c) = 1
      /\ z = 1 => Sin(c) = 1 /\ Cos(c) = 0
      /\ z = 2 => Sin(c) = 0 /\ Cos(c) = -1
      /\ z = 3 => Sin(c) = -1 /\ Cos(c) = 0
  BY <1>1, SineOf
<1> HIDE DEF c, x, y, z
<1>6. CASE x = 0
  BY <1>1, <1>2, <1>3, <1>4, <1>5, <1>6 DEF c
<1>7. CASE x = 1
  BY <1>1, <1>2, <1>3, <1>4, <1>5, <1>7 DEF c
<1>8. CASE x = 2
  BY <1>1, <1>2, <1>3, <1>4, <1>5, <1>8 DEF c
<1>9. CASE x = 3
  BY <1>1, <1>2, <1>3, <1>4, <1>5, <1>9 DEF c
<1> QED BY <1>1, <1>6, <1>7, <1>8, <1>9

(* Rotations with the same sine and cosine are the same. *)
LEMMA SameRotation ==
  ASSUME NEW a, NEW k, NEW l, Sin(k) = Sin(l), Cos(k) = Cos(l)
  PROVE  Rotation(a, k) = Rotation(a, l)
<1>1. ASSUME NEW v PROVE Rotate(a, k, v) = Rotate(a, l, v)
  BY RotateParts
<1> QED BY <1>1 DEF Rotation

(* A turn about the vertical, in coordinates.                              *)
LEMMA TurnAboutZ ==
  ASSUME NEW k \in Int, NEW x \in Int, NEW y \in Int, NEW z \in Int
  PROVE  /\ Turn(Rotation(ez, k), <<x, y, z>>)
                = <<Cos(k) * x - Sin(k) * y, Sin(k) * x + Cos(k) * y, z>>
         /\ TurnBack(Rotation(ez, k), <<x, y, z>>)
                = <<Cos(k) * x + Sin(k) * y, Cos(k) * y - Sin(k) * x, z>>
<1> DEFINE v == <<x, y, z>>
<1>1. v \in Vectors /\ v[1] = x /\ v[2] = y /\ v[3] = z
  BY VectorMake
<1>2. ez \in Units /\ ez[1] = 0 /\ ez[2] = 0 /\ ez[3] = 1
  BY AxesType
<1>3. Dot(ez, v) = z
  BY <1>1, <1>2 DEF Dot
<1> HIDE DEF v
<1>4. ASSUME NEW j \in Int
      PROVE  Rotate(ez, j, v) = <<Cos(j) * x - Sin(j) * y, Sin(j) * x + Cos(j) * y, z>>
  <2> DEFINE w == <<Cos(j) * x - Sin(j) * y, Sin(j) * x + Cos(j) * y, z>>
             r == Rotate(ez, j, v)
  <2>1. Cos(j) \in Int /\ Sin(j) \in Int
    BY SinType
  <2>2. Cos(j) * x \in Int /\ Sin(j) * y \in Int /\ Sin(j) * x \in Int /\ Cos(j) * y \in Int
    BY <2>1
  <2>3. w \in Vectors /\ w[1] = Cos(j) * x - Sin(j) * y /\ w[2] = Sin(j) * x + Cos(j) * y
            /\ w[3] = z
    BY <2>2, VectorMake
  <2>4. r \in Vectors
    BY <1>1, <1>2, RotateType
  <2>5. /\ r[1] = Cos(j) * x + Sin(j) * (0 * z - 1 * y) + ((1 - Cos(j)) * z) * 0
        /\ r[2] = Cos(j) * y + Sin(j) * (1 * x - 0 * z) + ((1 - Cos(j)) * z) * 0
        /\ r[3] = Cos(j) * z + Sin(j) * (0 * y - 0 * x) + ((1 - Cos(j)) * z) * 1
    BY <1>1, <1>2, <1>3, RotateParts
  <2> HIDE DEF w, r
  <2>6. r[1] = w[1] /\ r[2] = w[2]
    BY <2>1, <2>3, <2>5
  <2>7. r[3] = w[3]
    BY <2>1, <2>3, <2>5
  <2>8. ASSUME NEW i \in 1 .. 3 PROVE r[i] = w[i]
    BY <2>6, <2>7
  <2> QED BY <2>3, <2>4, <2>8, VectorEq DEF r, w
<1>5. Turn(Rotation(ez, k), v) = Rotate(ez, k, v)
  BY <1>1, <1>2, RotationTurns
<1>6. TurnBack(Rotation(ez, k), v) = Rotate(ez, -k, v)
  BY <1>1, <1>2, RotationTurnsBack
<1>7. -k \in Int /\ Cos(-k) = Cos(k) /\ Sin(-k) = -Sin(k) /\ Sin(k) \in Int /\ Cos(k) \in Int
  BY Quarters, SinType
<1>8. Rotate(ez, -k, v) = <<Cos(k) * x - (-Sin(k)) * y, (-Sin(k)) * x + Cos(k) * y, z>>
  BY <1>4, <1>7
<1>9. Cos(k) * x - (-Sin(k)) * y = Cos(k) * x + Sin(k) * y
          /\ (-Sin(k)) * x + Cos(k) * y = Cos(k) * y - Sin(k) * x
  BY <1>7
<1> QED BY <1>4, <1>5, <1>6, <1>8, <1>9 DEF v

(* A swing of the arm, in coordinates.                                     *)
LEMMA TurnAboutY ==
  ASSUME NEW k \in Int, NEW x \in Int, NEW y \in Int, NEW z \in Int
  PROVE  Turn(Rotation(ey, k), <<x, y, z>>)
             = <<Cos(k) * x + Sin(k) * z, y, Cos(k) * z - Sin(k) * x>>
<1> DEFINE v == <<x, y, z>>
<1>1. v \in Vectors /\ v[1] = x /\ v[2] = y /\ v[3] = z
  BY VectorMake
<1>2. ey \in Units /\ ey[1] = 0 /\ ey[2] = 1 /\ ey[3] = 0
  BY AxesType
<1>3. Dot(ey, v) = y
  BY <1>1, <1>2 DEF Dot
<1> HIDE DEF v
<1>4. ASSUME NEW j \in Int
      PROVE  Rotate(ey, j, v) = <<Cos(j) * x + Sin(j) * z, y, Cos(j) * z - Sin(j) * x>>
  <2> DEFINE w == <<Cos(j) * x + Sin(j) * z, y, Cos(j) * z - Sin(j) * x>>
             r == Rotate(ey, j, v)
  <2>1. Cos(j) \in Int /\ Sin(j) \in Int
    BY SinType
  <2>2. Cos(j) * x \in Int /\ Sin(j) * z \in Int /\ Sin(j) * x \in Int /\ Cos(j) * z \in Int
    BY <2>1
  <2>3. w \in Vectors /\ w[1] = Cos(j) * x + Sin(j) * z /\ w[2] = y
            /\ w[3] = Cos(j) * z - Sin(j) * x
    BY <2>2, VectorMake
  <2>4. r \in Vectors
    BY <1>1, <1>2, RotateType
  <2>5. /\ r[1] = Cos(j) * x + Sin(j) * (1 * z - 0 * y) + ((1 - Cos(j)) * y) * 0
        /\ r[2] = Cos(j) * y + Sin(j) * (0 * x - 0 * z) + ((1 - Cos(j)) * y) * 1
        /\ r[3] = Cos(j) * z + Sin(j) * (0 * y - 1 * x) + ((1 - Cos(j)) * y) * 0
    BY <1>1, <1>2, <1>3, RotateParts
  <2> HIDE DEF w, r
  <2>6. r[1] = w[1] /\ r[3] = w[3]
    BY <2>1, <2>3, <2>5
  <2>7. r[2] = w[2]
    BY <2>1, <2>3, <2>5
  <2>8. ASSUME NEW i \in 1 .. 3 PROVE r[i] = w[i]
    BY <2>6, <2>7
  <2> QED BY <2>3, <2>4, <2>8, VectorEq DEF r, w
<1>5. Turn(Rotation(ey, k), v) = Rotate(ey, k, v)
  BY <1>1, <1>2, RotationTurns
<1> QED BY <1>4, <1>5 DEF v

---------------------------------------------------------------------------
(* Where the links of the ASIBOT robot bring its hand.                     *)

Angles(q) == \A i \in 1 .. 5 : q[i] \in Int

(* The pitch of the hand: its three joints turn about parallel axes. *)
Pitch(q) == q[2] + q[3] + q[4]

LEMMA Lengths == A0 \in Int /\ A1 \in Int /\ A2 \in Int /\ A3 \in Int
BY DEF A0, A1, A2, A3

LEMMA AnglesType ==
  ASSUME NEW q, Angles(q)
  PROVE  /\ q[1] \in Int /\ q[2] \in Int /\ q[3] \in Int /\ q[4] \in Int /\ q[5] \in Int
         /\ Pitch(q) \in Int /\ q[2] + q[3] \in Int /\ q[3] + q[4] \in Int
BY DEF Angles, Pitch

(* The sums of the forward kinematics, written out.                        *)
LEMMA Reaches ==
  ASSUME NEW q, Angles(q)
  PROVE  /\ Forward(q, 2) = A1 * Sin(q[2]) + A2 * Sin(q[2] + q[3]) + A3 * Sin(Pitch(q))
         /\ Upward(q, 2) = A1 * Cos(q[2]) + A2 * Cos(q[2] + q[3]) + A3 * Cos(Pitch(q))
         /\ Forward(q, 3) = A2 * Sin(q[2] + q[3]) + A3 * Sin(Pitch(q))
         /\ Upward(q, 3) = A2 * Cos(q[2] + q[3]) + A3 * Cos(Pitch(q))
         /\ Forward(q, 4) = A3 * Sin(Pitch(q))
         /\ Upward(q, 4) = A3 * Cos(Pitch(q))
         /\ \A i \in 2 .. 4 : Forward(q, i) \in Int /\ Upward(q, i) \in Int
<1>1. /\ Sin(q[2]) \in Int /\ Cos(q[2]) \in Int /\ Sin(q[2] + q[3]) \in Int
      /\ Cos(q[2] + q[3]) \in Int
      /\ Sin(Pitch(q)) \in Int /\ Cos(Pitch(q)) \in Int
  BY AnglesType, SinType
<1>2. /\ A1 * Sin(q[2]) \in Int /\ A1 * Cos(q[2]) \in Int /\ A2 * Sin(q[2] + q[3]) \in Int
      /\ A2 * Cos(q[2] + q[3]) \in Int /\ A3 * Sin(Pitch(q)) \in Int /\ A3 * Cos(Pitch(q)) \in Int
  BY <1>1, Lengths
<1>3. /\ Forward(q, 2) = A1 * Sin(q[2]) + A2 * Sin(q[2] + q[3]) + A3 * Sin(Pitch(q))
      /\ Forward(q, 3) = 0 + A2 * Sin(q[2] + q[3]) + A3 * Sin(Pitch(q))
      /\ Forward(q, 4) = 0 + 0 + A3 * Sin(Pitch(q))
  BY DEF Forward, Pitch
<1>4. /\ Upward(q, 2) = A1 * Cos(q[2]) + A2 * Cos(q[2] + q[3]) + A3 * Cos(Pitch(q))
      /\ Upward(q, 3) = 0 + A2 * Cos(q[2] + q[3]) + A3 * Cos(Pitch(q))
      /\ Upward(q, 4) = 0 + 0 + A3 * Cos(Pitch(q))
  BY DEF Upward, Pitch
<1>5. Forward(q, 3) = A2 * Sin(q[2] + q[3]) + A3 * Sin(Pitch(q))
          /\ Forward(q, 4) = A3 * Sin(Pitch(q))
  BY <1>2, <1>3
<1>6. Upward(q, 3) = A2 * Cos(q[2] + q[3]) + A3 * Cos(Pitch(q))
          /\ Upward(q, 4) = A3 * Cos(Pitch(q))
  BY <1>2, <1>4
<1>7. ASSUME NEW i \in 2 .. 4 PROVE Forward(q, i) \in Int /\ Upward(q, i) \in Int
  <2>1. i = 2 \/ i = 3 \/ i = 4
    OBVIOUS
  <2>2. Forward(q, 2) \in Int /\ Upward(q, 2) \in Int
    BY <1>2, <1>3, <1>4
  <2>3. Forward(q, 3) \in Int /\ Upward(q, 3) \in Int
    BY <1>2, <1>5, <1>6
  <2>4. Forward(q, 4) \in Int /\ Upward(q, 4) \in Int
    BY <1>2, <1>5, <1>6
  <2> QED BY <2>1, <2>2, <2>3, <2>4
<1> QED BY <1>3, <1>4, <1>5, <1>6, <1>7

(* Two turns make one: the addition formulas, in coordinates.              *)
LEMMA TwoTurns ==
  ASSUME NEW c \in Int, NEW s \in Int, NEW d \in Int, NEW t \in Int, NEW x \in Int, NEW z \in Int
  PROVE  /\ c * (d * x + t * z) + s * (d * z - t * x) = (c * d - s * t) * x + (s * d + c * t) * z
         /\ c * (d * z - t * x) - s * (d * x + t * z) = (c * d - s * t) * z - (s * d + c * t) * x
OBVIOUS

(* Two swings make one: the axes are parallel.                             *)
LEMMA TwoPitches ==
  ASSUME NEW a \in Int, NEW b \in Int, NEW v \in Vectors
  PROVE  Turn(Rotation(ey, a), Turn(Rotation(ey, b), v)) = Turn(Rotation(ey, a + b), v)
<1> DEFINE x == v[1]
           y == v[2]
           z == v[3]
           x1 == Cos(b) * x + Sin(b) * z
           z1 == Cos(b) * z - Sin(b) * x
<1>1. x \in Int /\ y \in Int /\ z \in Int /\ v = <<x, y, z>>
  BY VectorType
<1>2. Cos(a) \in Int /\ Sin(a) \in Int /\ Cos(b) \in Int /\ Sin(b) \in Int /\ a + b \in Int
  BY SinType
<1> HIDE DEF x, y, z
<1>3. x1 \in Int /\ z1 \in Int
  BY <1>1, <1>2
<1>4. Turn(Rotation(ey, b), <<x, y, z>>) = <<x1, y, z1>>
  BY <1>1, TurnAboutY
<1>5. Turn(Rotation(ey, a + b), <<x, y, z>>)
          = <<Cos(a + b) * x + Sin(a + b) * z, y, Cos(a + b) * z - Sin(a + b) * x>>
  BY <1>1, <1>2, TurnAboutY
<1>6. Turn(Rotation(ey, a), <<x1, y, z1>>)
          = <<Cos(a) * x1 + Sin(a) * z1, y, Cos(a) * z1 - Sin(a) * x1>>
  <2> HIDE DEF x1, z1
  <2> QED BY <1>1, <1>3, TurnAboutY
<1>7. Cos(a) * x1 + Sin(a) * z1 = Cos(a + b) * x + Sin(a + b) * z
  <2>1. Sin(a + b) = Sin(a) * Cos(b) + Cos(a) * Sin(b)
            /\ Cos(a + b) = Cos(a) * Cos(b) - Sin(a) * Sin(b)
    BY SineOfSum
  <2>2. Cos(a) * x1 + Sin(a) * z1
          = (Cos(a) * Cos(b) - Sin(a) * Sin(b)) * x + (Sin(a) * Cos(b) + Cos(a) * Sin(b)) * z
    BY <1>1, <1>2, TwoTurns
  <2> QED BY <2>1, <2>2
<1>8. Cos(a) * z1 - Sin(a) * x1 = Cos(a + b) * z - Sin(a + b) * x
  <2>1. Sin(a + b) = Sin(a) * Cos(b) + Cos(a) * Sin(b)
            /\ Cos(a + b) = Cos(a) * Cos(b) - Sin(a) * Sin(b)
    BY SineOfSum
  <2>2. Cos(a) * z1 - Sin(a) * x1
          = (Cos(a) * Cos(b) - Sin(a) * Sin(b)) * z - (Sin(a) * Cos(b) + Cos(a) * Sin(b)) * x
    BY <1>1, <1>2, TwoTurns
  <2> QED BY <2>1, <2>2
<1> HIDE DEF x1, z1
<1> QED BY <1>1, <1>4, <1>5, <1>6, <1>7, <1>8

LEMMA Swings ==
  ASSUME NEW k \in Int, NEW x \in Int, NEW z \in Int
  PROVE  Turn(Rotation(ey, k), <<x, 0, z>>)
             = <<Cos(k) * x + Sin(k) * z, 0, Cos(k) * z - Sin(k) * x>>
<1> DEFINE y == 0
<1>1. y \in Int
  OBVIOUS
<1> HIDE DEF y
<1>2. Turn(Rotation(ey, k), <<x, y, z>>) = <<Cos(k) * x + Sin(k) * z, y, Cos(k) * z - Sin(k) * x>>
  BY <1>1, TurnAboutY
<1> QED BY <1>2 DEF y

(* A joint and the link after it. *)
ArmLink(axis, k, length) == Compose(Rotation(axis, k), Translate(Times(length, ez)))

(* A link turns as its joint and moves by its length.                      *)
LEMMA ArmLinkMoves ==
  ASSUME NEW axis \in Units, NEW k \in Int, NEW length \in Int
  PROVE  /\ ArmLink(axis, k, length) \in Rigid /\ ArmLink(axis, k, length) \in Frames
         /\ \A v \in Vectors : Turn(ArmLink(axis, k, length), v) = Turn(Rotation(axis, k), v)
         /\ \A v \in Vectors : Move(ArmLink(axis, k, length), v)
                = Turn(Rotation(axis, k), Plus(v, <<0, 0, length>>))
<1> DEFINE R == Rotation(axis, k)
           t == Times(length, ez)
           T == Translate(t)
<1>1. t = <<0, 0, length>> /\ t \in Vectors
  <2>1. t = <<length * 0, length * 0, length * 1>>
    BY AxesType DEF Times
  <2> QED BY <2>1, VectorMake
<1>2. R \in Rigid /\ R \in Frames /\ T \in Rigid /\ T \in Frames /\ R.p = Zero
  BY <1>1, RotationRigid, RotationParts, TranslateRigid, RigidType
<1>3. ArmLink(axis, k, length) = Compose(R, T)
  BY DEF ArmLink
<1>4. \A v \in Vectors : Turn(T, v) = v /\ Move(T, v) = Plus(v, t)
  BY <1>1, TranslateTurns, TranslateMoves
<1> HIDE DEF R, T, t
<1>5. Compose(R, T) \in Rigid /\ Compose(R, T) \in Frames
  BY <1>2, ComposeRigid, RigidType
<1>6. \A v \in Vectors : Turn(Compose(R, T), v) = Turn(R, v)
  BY <1>2, <1>4, TurnTurn
<1>7. \A v \in Vectors : Move(Compose(R, T), v) = Turn(R, Plus(v, t))
  <2> TAKE v \in Vectors
  <2>1. Move(Compose(R, T), v) = Move(R, Plus(v, t))
    BY <1>2, <1>4, MoveMove
  <2>2. Plus(v, t) \in Vectors
    BY <1>1, PlusType
  <2>3. Turn(R, Plus(v, t)) \in Vectors
    BY <1>2, <2>2, TurnType
  <2> QED BY <1>2, <2>1, <2>3, ZeroPlus DEF Move
<1> QED BY <1>1, <1>3, <1>5, <1>6, <1>7 DEF R

LEMMA Lifted ==
  ASSUME NEW x \in Int, NEW z \in Int, NEW l \in Int
  PROVE  Plus(<<x, 0, z>>, <<0, 0, l>>) = <<x, 0, z + l>>
<1>1. Plus(<<x, 0, z>>, <<0, 0, l>>) = <<x + 0, 0 + 0, z + l>>
  BY DEF Plus
<1> QED BY <1>1

(* The hand: turned by joint 1, the pitch and the roll; reached by the     *)
(* sums of the forward kinematics.                                         *)
LEMMA HandPosition ==
  ASSUME NEW q, Angles(q)
  PROVE  /\ Hand(q) \in Rigid
         /\ \A v \in Vectors : Turn(Hand(q), v) =
                Turn(Rotation(ez, q[1]), Turn(Rotation(ey, Pitch(q)),
                    Turn(Rotation(ez, q[5]), v)))
         /\ Hand(q).p = <<Cos(q[1]) * Forward(q, 2), Sin(q[1]) * Forward(q, 2), Upward(q, 2)
                + A0>>
<1> DEFINE L1 == ArmLink(ez, q[1], A0)
           L2 == ArmLink(ey, q[2], A1)
           L3 == ArmLink(ey, q[3], A2)
           L4 == ArmLink(ey, q[4], A3)
           R5 == Rotation(ez, q[5])
           B2 == Compose(L1, L2)
           B3 == Compose(B2, L3)
           B4 == Compose(B3, L4)
<1>1. q[1] \in Int /\ q[2] \in Int /\ q[3] \in Int /\ q[4] \in Int /\ q[5] \in Int
  BY AnglesType
<1>2. Hand(q) = Compose(B4, R5)
  BY DEF Hand, ArmLink
<1>3. /\ L1 \in Rigid /\ L2 \in Rigid /\ L3 \in Rigid /\ L4 \in Rigid /\ R5 \in Rigid
      /\ L1 \in Frames /\ L2 \in Frames /\ L3 \in Frames /\ L4 \in Frames /\ R5 \in Frames
      /\ R5.p = Zero
  BY <1>1, AxesType, Lengths, ArmLinkMoves, RotationRigid, RotationParts, RigidType
<1>4. \A v \in Vectors :
         /\ Turn(L1, v) = Turn(Rotation(ez, q[1]), v)
         /\ Turn(L2, v) = Turn(Rotation(ey, q[2]), v)
         /\ Turn(L3, v) = Turn(Rotation(ey, q[3]), v)
         /\ Turn(L4, v) = Turn(Rotation(ey, q[4]), v)
         /\ Move(L1, v) = Turn(Rotation(ez, q[1]), Plus(v, <<0, 0, A0>>))
         /\ Move(L2, v) = Turn(Rotation(ey, q[2]), Plus(v, <<0, 0, A1>>))
         /\ Move(L3, v) = Turn(Rotation(ey, q[3]), Plus(v, <<0, 0, A2>>))
         /\ Move(L4, v) = Turn(Rotation(ey, q[4]), Plus(v, <<0, 0, A3>>))
  BY <1>1, AxesType, Lengths, ArmLinkMoves
<1> HIDE DEF L1, L2, L3, L4, R5
<1>5. B2 \in Rigid /\ B2 \in Frames
  BY <1>3, ComposeRigid, RigidType
<1>6. B3 \in Rigid /\ B3 \in Frames
  <2> HIDE DEF B2
  <2> QED BY <1>3, <1>5, ComposeRigid, RigidType
<1>7. B4 \in Rigid /\ B4 \in Frames
  <2> HIDE DEF B3
  <2> QED BY <1>3, <1>6, ComposeRigid, RigidType
<1>8. Hand(q) \in Rigid
  <2> HIDE DEF B4
  <2> QED BY <1>2, <1>3, <1>7, ComposeRigid
<1>9. ASSUME NEW v \in Vectors
      PROVE  Turn(B4, v) = Turn(Rotation(ez, q[1]), Turn(Rotation(ey, Pitch(q)), v))
  <2> DEFINE v4 == Turn(L4, v)
             v3 == Turn(L3, v4)
             v2 == Turn(L2, v3)
  <2>1. v4 \in Vectors
    BY <1>3, TurnType
  <2>2. v3 \in Vectors
    <3> HIDE DEF v4
    <3> QED BY <1>3, <2>1, TurnType
  <2>3. v2 \in Vectors
    <3> HIDE DEF v3
    <3> QED BY <1>3, <2>2, TurnType
  <2>4. Turn(B4, v) = Turn(L1, v2)
    <3>1. Turn(B4, v) = Turn(B3, v4)
      <4> HIDE DEF B3
      <4> QED BY <1>3, <1>6, TurnTurn
    <3> HIDE DEF v4
    <3>2. Turn(B3, v4) = Turn(B2, v3)
      <4> HIDE DEF B2
      <4> QED BY <1>3, <1>5, <2>1, TurnTurn
    <3> HIDE DEF v3
    <3>3. Turn(B2, v3) = Turn(L1, v2)
      BY <1>3, <2>2, TurnTurn
    <3> QED BY <3>1, <3>2, <3>3
  <2>5. v3 = Turn(Rotation(ey, q[3] + q[4]), v)
    <3>1. v3 = Turn(Rotation(ey, q[3]), Turn(Rotation(ey, q[4]), v))
      <4>1. v4 = Turn(Rotation(ey, q[4]), v)
        BY <1>4
      <4> HIDE DEF v4
      <4> QED BY <1>4, <2>1, <4>1
    <3>2. q[3] \in Int /\ q[4] \in Int
      BY <1>1
    <3> HIDE DEF v3
    <3> QED BY <3>1, <3>2, TwoPitches
  <2>6. v2 = Turn(Rotation(ey, q[2] + (q[3] + q[4])), v)
    <3>1. v2 = Turn(Rotation(ey, q[2]), Turn(Rotation(ey, q[3] + q[4]), v))
      <4> HIDE DEF v3
      <4> QED BY <1>4, <2>2, <2>5
    <3>2. q[3] + q[4] \in Int
      BY <1>1
    <3> HIDE DEF v2
    <3> QED BY <1>1, <3>1, <3>2, TwoPitches
  <2>7. q[2] + (q[3] + q[4]) = Pitch(q)
    BY <1>1 DEF Pitch
  <2>8. Turn(L1, v2) = Turn(Rotation(ez, q[1]), v2)
    <3> HIDE DEF v2
    <3> QED BY <1>4, <2>3
  <2> QED BY <2>4, <2>6, <2>7, <2>8
<1>10. \A v \in Vectors : Turn(Hand(q), v) =
         Turn(Rotation(ez, q[1]), Turn(Rotation(ey, Pitch(q)), Turn(R5, v)))
  <2> HIDE DEF B4
  <2> TAKE v \in Vectors
  <2>1. Turn(R5, v) \in Vectors
    BY <1>3, TurnType
  <2>2. Turn(Hand(q), v) = Turn(B4, Turn(R5, v))
    BY <1>2, <1>3, <1>7, TurnTurn
  <2> QED BY <1>9, <2>1, <2>2
<1> DEFINE p4 == <<A3 * Sin(q[4]), 0, A3 * Cos(q[4])>>
           p3 == <<A3 * Sin(q[3] + q[4]) + A2 * Sin(q[3]), 0, A3 * Cos(q[3] + q[4])
               + A2 * Cos(q[3])>>
           p2 == <<Forward(q, 2), 0, Upward(q, 2)>>
           p1 == <<Cos(q[1]) * Forward(q, 2), Sin(q[1]) * Forward(q, 2), Upward(q, 2) + A0>>
<1>11. /\ Sin(q[1]) \in Int /\ Cos(q[1]) \in Int /\ Sin(q[2]) \in Int /\ Cos(q[2]) \in Int
       /\ Sin(q[3]) \in Int /\ Cos(q[3]) \in Int /\ Sin(q[4]) \in Int /\ Cos(q[4]) \in Int
       /\ Sin(q[3] + q[4]) \in Int /\ Cos(q[3] + q[4]) \in Int
  BY <1>1, AnglesType, SinType
<1>12. p4 \in Vectors /\ A3 * Sin(q[4]) \in Int /\ A3 * Cos(q[4]) \in Int
  <2>1. A3 * Sin(q[4]) \in Int /\ A3 * Cos(q[4]) \in Int
    BY <1>11, Lengths
  <2> QED BY <2>1, VectorMake
<1>13. /\ A3 * Sin(q[3] + q[4]) + A2 * Sin(q[3]) \in Int
       /\ A3 * Cos(q[3] + q[4]) + A2 * Cos(q[3]) \in Int
  BY <1>11, Lengths
<1>14. p3 \in Vectors
  BY <1>13, VectorMake
<1>15. p2 \in Vectors /\ Forward(q, 2) \in Int /\ Upward(q, 2) \in Int
  <2>1. Forward(q, 2) \in Int /\ Upward(q, 2) \in Int
    BY Reaches
  <2> QED BY <2>1, VectorMake
<1>16. Move(L4, Zero) = p4
  <2>1. Plus(Zero, <<0, 0, A3>>) = <<0, 0, A3>>
    BY Lengths, VectorMake, ZeroPlus
  <2>2. Move(L4, Zero) = Turn(Rotation(ey, q[4]), <<0, 0, A3>>)
    BY <1>4, <2>1, ZeroType
  <2>3. Turn(Rotation(ey, q[4]), <<0, 0, A3>>)
            = <<Cos(q[4]) * 0 + Sin(q[4]) * A3, 0, Cos(q[4]) * A3 - Sin(q[4]) * 0>>
    <3>1. q[4] \in Int /\ 0 \in Int /\ A3 \in Int
      BY <1>1, Lengths
    <3> QED BY <3>1, TurnAboutY
  <2>4. Cos(q[4]) * 0 + Sin(q[4]) * A3 = A3 * Sin(q[4])
            /\ Cos(q[4]) * A3 - Sin(q[4]) * 0 = A3 * Cos(q[4])
    BY <1>11, Lengths
  <2> QED BY <2>2, <2>3, <2>4
<1>17. Move(L3, p4) = p3
  <2> DEFINE x == A3 * Sin(q[4])
             z == A3 * Cos(q[4]) + A2
  <2>1. x \in Int /\ z \in Int
    BY <1>12, Lengths
  <2>2. Plus(p4, <<0, 0, A2>>) = <<x, 0, z>>
    BY <1>12, Lengths, Lifted
  <2>3. Move(L3, p4) = Turn(Rotation(ey, q[3]), <<x, 0, z>>)
    BY <1>4, <1>12, <2>2
  <2>4. Turn(Rotation(ey, q[3]), <<x, 0, z>>)
            = <<Cos(q[3]) * x + Sin(q[3]) * z, 0, Cos(q[3]) * z - Sin(q[3]) * x>>
    <3>1. q[3] \in Int
      BY <1>1
    <3> HIDE DEF x, z
    <3> QED BY <2>1, <3>1, Swings
  <2>5. Cos(q[3]) * x + Sin(q[3]) * z = A3 * Sin(q[3] + q[4]) + A2 * Sin(q[3])
    <3>1. Sin(q[3] + q[4]) = Sin(q[3]) * Cos(q[4]) + Cos(q[3]) * Sin(q[4])
      BY <1>1, SineOfSum
    <3> QED BY <1>11, <3>1, Lengths
  <2>6. Cos(q[3]) * z - Sin(q[3]) * x = A3 * Cos(q[3] + q[4]) + A2 * Cos(q[3])
    <3>1. Cos(q[3] + q[4]) = Cos(q[3]) * Cos(q[4]) - Sin(q[3]) * Sin(q[4])
      BY <1>1, SineOfSum
    <3> QED BY <1>11, <3>1, Lengths
  <2> QED BY <2>3, <2>4, <2>5, <2>6
<1>18. Move(L2, p3) = p2
  <2> DEFINE s == q[3] + q[4]
             x == A3 * Sin(s) + A2 * Sin(q[3])
             w == A3 * Cos(s) + A2 * Cos(q[3])
             z == w + A1
  <2>1. x \in Int /\ w \in Int /\ z \in Int /\ s \in Int
    BY <1>1, <1>13, Lengths
  <2>2. Plus(p3, <<0, 0, A1>>) = <<x, 0, z>>
    BY <1>13, Lengths, Lifted
  <2>3. Move(L2, p3) = Turn(Rotation(ey, q[2]), <<x, 0, z>>)
    BY <1>4, <1>14, <2>2
  <2>4. Turn(Rotation(ey, q[2]), <<x, 0, z>>)
            = <<Cos(q[2]) * x + Sin(q[2]) * z, 0, Cos(q[2]) * z - Sin(q[2]) * x>>
    <3>1. q[2] \in Int
      BY <1>1
    <3> HIDE DEF x, z
    <3> QED BY <2>1, <3>1, Swings
  <2>5. Pitch(q) = q[2] + s
    BY <1>1 DEF Pitch
  <2>6. /\ Sin(Pitch(q)) = Sin(q[2]) * Cos(s) + Cos(q[2]) * Sin(s)
        /\ Cos(Pitch(q)) = Cos(q[2]) * Cos(s) - Sin(q[2]) * Sin(s)
        /\ Sin(q[2] + q[3]) = Sin(q[2]) * Cos(q[3]) + Cos(q[2]) * Sin(q[3])
        /\ Cos(q[2] + q[3]) = Cos(q[2]) * Cos(q[3]) - Sin(q[2]) * Sin(q[3])
    <3> HIDE DEF s
    <3>1. q[2] \in Int /\ q[3] \in Int /\ s \in Int
      BY <1>1, <2>1
    <3>2. /\ Sin(q[2] + s) = Sin(q[2]) * Cos(s) + Cos(q[2]) * Sin(s)
          /\ Cos(q[2] + s) = Cos(q[2]) * Cos(s) - Sin(q[2]) * Sin(s)
      BY <3>1, SineOfSum
    <3>3. /\ Sin(q[2] + q[3]) = Sin(q[2]) * Cos(q[3]) + Cos(q[2]) * Sin(q[3])
          /\ Cos(q[2] + q[3]) = Cos(q[2]) * Cos(q[3]) - Sin(q[2]) * Sin(q[3])
      BY <3>1, SineOfSum
    <3> QED BY <2>5, <3>2, <3>3
  <2>7. Sin(s) \in Int /\ Cos(s) \in Int
    BY <1>11
  <2> HIDE DEF s
  <2>8. Cos(q[2]) * x + Sin(q[2]) * z = Forward(q, 2)
    BY <1>11, <2>6, <2>7, Lengths, Reaches
  <2>9. Cos(q[2]) * z - Sin(q[2]) * x = Upward(q, 2)
    BY <1>11, <2>6, <2>7, Lengths, Reaches
  <2> HIDE DEF x, z
  <2> QED BY <2>3, <2>4, <2>8, <2>9
<1>19. Move(L1, p2) = p1
  <2> DEFINE x == Forward(q, 2)
             z == Upward(q, 2) + A0
  <2>1. x \in Int /\ z \in Int
    BY <1>15, Lengths
  <2>2. Plus(p2, <<0, 0, A0>>) = <<x, 0, z>>
    BY <1>15, Lengths, Lifted
  <2>3. Move(L1, p2) = Turn(Rotation(ez, q[1]), <<x, 0, z>>)
    BY <1>4, <1>15, <2>2
  <2>4. Turn(Rotation(ez, q[1]), <<x, 0, z>>)
            = <<Cos(q[1]) * x - Sin(q[1]) * 0, Sin(q[1]) * x + Cos(q[1]) * 0, z>>
    <3>1. q[1] \in Int
      BY <1>1
    <3> HIDE DEF x, z
    <3> QED BY <2>1, <3>1, TurnAboutZ
  <2>5. Cos(q[1]) * x - Sin(q[1]) * 0 = Cos(q[1]) * x
            /\ Sin(q[1]) * x + Cos(q[1]) * 0 = Sin(q[1]) * x
    <3> HIDE DEF x
    <3> QED BY <1>11, <2>1
  <2> QED BY <2>3, <2>4, <2>5
<1>20. Hand(q).p = p1
  <2> HIDE DEF p1, p2, p3, p4
  <2>1. Hand(q).p = Move(B4, Zero)
    <3> HIDE DEF B4
    <3> QED BY <1>2, <1>3, ComposeParts
  <2>2. Move(B4, Zero) = Move(B3, p4)
    <3> HIDE DEF B3
    <3> QED BY <1>3, <1>6, <1>16, ZeroType, MoveMove
  <2>3. Move(B3, p4) = Move(B2, p3)
    <3> HIDE DEF B2
    <3> QED BY <1>3, <1>5, <1>12, <1>17, MoveMove
  <2>4. Move(B2, p3) = p1
    BY <1>3, <1>14, <1>18, <1>19, MoveMove
  <2> QED BY <2>1, <2>2, <2>3, <2>4
<1> QED BY <1>8, <1>10, <1>20 DEF R5

---------------------------------------------------------------------------
(* The hand from its own point of view, and the angle atan2 finds.         *)

(* Atan2 finds the angle of any point away from the axis.                  *)
LEMMA SameAngle ==
  ASSUME NEW k \in Int, NEW r \in Int, r > 0
  PROVE  LET a == Atan2(r * Sin(k), r * Cos(k))
         IN  a \in -1 .. 2 /\ Sin(a) = Sin(k) /\ Cos(a) = Cos(k)
<1> DEFINE a == Atan2(r * Sin(k), r * Cos(k))
<1>1. /\ Sin(0) = 0 /\ Cos(0) = 1 /\ Sin(1) = 1 /\ Cos(1) = 0 /\ Sin(2) = 0 /\ Cos(2) = -1
      /\ Sin(-1) = -1 /\ Cos(-1) = 0
  <2>1. 0 % 4 = 0 /\ 1 % 4 = 1 /\ 2 % 4 = 2 /\ 0 \in Int /\ 1 \in Int /\ 2 \in Int
    OBVIOUS
  <2>2. Cos(-1) = Cos(1) /\ Sin(-1) = -Sin(1)
    BY <2>1, Quarters
  <2>3. Sin(0) = 0 /\ Cos(0) = 1 /\ Sin(1) = 1 /\ Cos(1) = 0 /\ Sin(2) = 0 /\ Cos(2) = -1
    BY <2>1, SineOf
  <2> QED BY <2>2, <2>3
<1>2. CASE Cos(k) = 1 /\ Sin(k) = 0
  <2>1. r * Sin(k) = 0 /\ r * Cos(k) = r
    BY <1>2
  <2>2. a = 0
    BY <2>1 DEF Atan2
  <2> HIDE DEF a
  <2> QED BY <1>1, <1>2, <2>2 DEF a
<1>3. CASE Cos(k) = 0 /\ Sin(k) = 1
  <2>1. r * Sin(k) = r /\ r * Cos(k) = 0
    BY <1>3
  <2>2. a = 1
    BY <2>1 DEF Atan2
  <2> HIDE DEF a
  <2> QED BY <1>1, <1>3, <2>2 DEF a
<1>4. CASE Cos(k) = -1 /\ Sin(k) = 0
  <2>1. r * Sin(k) = 0 /\ r * Cos(k) = -r
    BY <1>4
  <2>2. a = 2
    BY <2>1 DEF Atan2
  <2> HIDE DEF a
  <2> QED BY <1>1, <1>4, <2>2 DEF a
<1>5. CASE Cos(k) = 0 /\ Sin(k) = -1
  <2>1. r * Sin(k) = -r /\ r * Cos(k) = 0
    BY <1>5
  <2>2. a = -1
    BY <2>1 DEF Atan2
  <2> HIDE DEF a
  <2> QED BY <1>1, <1>5, <2>2 DEF a
<1> QED BY <1>2, <1>3, <1>4, <1>5, Quarters

LEMMA AboutZ ==
  ASSUME NEW k \in Int, NEW x \in Int, NEW z \in Int
  PROVE  /\ Turn(Rotation(ez, k), <<x, 0, z>>) = <<Cos(k) * x, Sin(k) * x, z>>
         /\ Turn(Rotation(ez, k), <<0, x, z>>) = <<-Sin(k) * x, Cos(k) * x, z>>
         /\ TurnBack(Rotation(ez, k), <<x, 0, z>>) = <<Cos(k) * x, -Sin(k) * x, z>>
         /\ TurnBack(Rotation(ez, k), <<0, x, z>>) = <<Sin(k) * x, Cos(k) * x, z>>
<1> DEFINE o == 0
<1>1. o \in Int
  OBVIOUS
<1>2. o = 0
  OBVIOUS
<1> HIDE DEF o
<1>3. /\ Turn(Rotation(ez, k), <<x, o, z>>)
             = <<Cos(k) * x - Sin(k) * o, Sin(k) * x + Cos(k) * o, z>>
      /\ TurnBack(Rotation(ez, k), <<x, o, z>>)
             = <<Cos(k) * x + Sin(k) * o, Cos(k) * o - Sin(k) * x, z>>
  BY <1>1, TurnAboutZ
<1>4. /\ Turn(Rotation(ez, k), <<o, x, z>>)
             = <<Cos(k) * o - Sin(k) * x, Sin(k) * o + Cos(k) * x, z>>
      /\ TurnBack(Rotation(ez, k), <<o, x, z>>)
             = <<Cos(k) * o + Sin(k) * x, Cos(k) * x - Sin(k) * o, z>>
  BY <1>1, TurnAboutZ
<1>6. Sin(k) \in Int /\ Cos(k) \in Int
  BY SinType
<1>5. /\ Cos(k) * x - Sin(k) * 0 = Cos(k) * x /\ Sin(k) * x + Cos(k) * 0 = Sin(k) * x
      /\ Cos(k) * x + Sin(k) * 0 = Cos(k) * x /\ Cos(k) * 0 - Sin(k) * x = -Sin(k) * x
      /\ Sin(k) * 0 + Cos(k) * x = Cos(k) * x /\ Cos(k) * 0 + Sin(k) * x = Sin(k) * x
      /\ Cos(k) * x - Sin(k) * 0 = Cos(k) * x
  BY <1>6
<1> QED BY <1>2, <1>3, <1>4, <1>5

LEMMA SwingsBack ==
  ASSUME NEW k \in Int, NEW x \in Int, NEW z \in Int
  PROVE  /\ TurnBack(Rotation(ey, k), <<x, 0, z>>)
                = <<Cos(k) * x - Sin(k) * z, 0, Cos(k) * z + Sin(k) * x>>
         /\ TurnBack(Rotation(ey, k), <<0, x, 0>>) = <<0, x, 0>>
<1>1. ASSUME NEW v \in Vectors
      PROVE  TurnBack(Rotation(ey, k), v)
                 = <<Cos(k) * v[1] - Sin(k) * v[3], v[2], Cos(k) * v[3] + Sin(k) * v[1]>>
  <2> DEFINE a == v[1]
             b == v[2]
             c == v[3]
  <2>1. a \in Int /\ b \in Int /\ c \in Int /\ v = <<a, b, c>>
    BY VectorType
  <2> HIDE DEF a, b, c
  <2> DEFINE j == -k
  <2>2. j \in Int /\ Cos(j) = Cos(k) /\ Sin(j) = -Sin(k) /\ Sin(k) \in Int /\ Cos(k) \in Int
    BY Quarters, SinType
  <2>3. TurnBack(Rotation(ey, k), v) = Turn(Rotation(ey, j), v)
    BY <2>2, AxesType, RotationTurns, RotationTurnsBack
  <2> HIDE DEF j
  <2>4. j \in Int
    BY <2>2
  <2>5. Turn(Rotation(ey, j), <<a, b, c>>)
            = <<Cos(j) * a + Sin(j) * c, b, Cos(j) * c - Sin(j) * a>>
    BY <2>1, <2>4, TurnAboutY
  <2>6. Cos(j) * a + Sin(j) * c = Cos(k) * a - Sin(k) * c
            /\ Cos(j) * c - Sin(j) * a = Cos(k) * c + Sin(k) * a
    BY <2>1, <2>2
  <2> QED BY <2>1, <2>3, <2>5, <2>6 DEF a, b, c
<1>2. TurnBack(Rotation(ey, k), <<x, 0, z>>)
          = <<Cos(k) * x - Sin(k) * z, 0, Cos(k) * z + Sin(k) * x>>
  <2> DEFINE v == <<x, 0, z>>
  <2>1. v \in Vectors /\ v[1] = x /\ v[2] = 0 /\ v[3] = z
    BY VectorMake
  <2> HIDE DEF v
  <2>2. TurnBack(Rotation(ey, k), v)
            = <<Cos(k) * v[1] - Sin(k) * v[3], v[2], Cos(k) * v[3] + Sin(k) * v[1]>>
    BY <1>1, <2>1
  <2> QED BY <2>1, <2>2 DEF v
<1>3. TurnBack(Rotation(ey, k), <<0, x, 0>>) = <<0, x, 0>>
  <2> DEFINE v == <<0, x, 0>>
  <2>1. v \in Vectors /\ v[1] = 0 /\ v[2] = x /\ v[3] = 0
    BY VectorMake
  <2> HIDE DEF v
  <2>2. TurnBack(Rotation(ey, k), v)
            = <<Cos(k) * v[1] - Sin(k) * v[3], v[2], Cos(k) * v[3] + Sin(k) * v[1]>>
    BY <1>1, <2>1
  <2>3. Cos(k) * 0 - Sin(k) * 0 = 0 /\ Cos(k) * 0 + Sin(k) * 0 = 0
    BY SinType
  <2> QED BY <2>1, <2>2, <2>3 DEF v
<1> QED BY <1>2, <1>3

(* Where the hand points. *)
LEMMA HandAxis ==
  ASSUME NEW q, Angles(q)
  PROVE  /\ Hand(q).z = <<Cos(q[1]) * Sin(Pitch(q)), Sin(q[1]) * Sin(Pitch(q)), Cos(Pitch(q))>>
         /\ Hand(q).z = Turn(Rotation(ez, q[1]), <<Sin(Pitch(q)), 0, Cos(Pitch(q))>>)
<1> DEFINE o == Pitch(q)
           s == Sin(o)
           c == Cos(o)
<1>1. q[1] \in Int /\ q[5] \in Int /\ o \in Int
  BY AnglesType
<1>2. s \in Int /\ c \in Int /\ Sin(q[1]) \in Int /\ Cos(q[1]) \in Int /\ Sin(q[5]) \in Int
          /\ Cos(q[5]) \in Int
  BY <1>1, SinType
<1>3. Hand(q) \in Frames /\ <<0, 0, 1>> \in Vectors
  BY HandPosition, RigidType, VectorMake
<1>4. Hand(q).z = Turn(Hand(q), <<0, 0, 1>>)
  BY <1>3, UnitTurns
<1>5. Turn(Hand(q), <<0, 0, 1>>) =
          Turn(Rotation(ez, q[1]), Turn(Rotation(ey, o), Turn(Rotation(ez, q[5]), <<0, 0, 1>>)))
  BY <1>3, HandPosition
<1>6. Turn(Rotation(ez, q[5]), <<0, 0, 1>>) = <<0, 0, 1>>
  <2>1. Turn(Rotation(ez, q[5]), <<0, 0, 1>>)
          = <<Cos(q[5]) * 0 - Sin(q[5]) * 0, Sin(q[5]) * 0 + Cos(q[5]) * 0, 1>>
    BY <1>1, TurnAboutZ
  <2> QED BY <1>2, <2>1
<1>7. Turn(Rotation(ey, o), <<0, 0, 1>>) = <<s, 0, c>>
  <2>1. Turn(Rotation(ey, o), <<0, 0, 1>>) = <<c * 0 + s * 1, 0, c * 1 - s * 0>>
    <3>1. o \in Int /\ 0 \in Int /\ 1 \in Int
      BY <1>1
    <3> HIDE DEF o
    <3> QED BY <3>1, Swings
  <2> QED BY <1>2, <2>1
<1> HIDE DEF s, c
<1>8. Turn(Rotation(ez, q[1]), <<s, 0, c>>) = <<Cos(q[1]) * s, Sin(q[1]) * s, c>>
  <2>1. q[1] \in Int /\ s \in Int /\ c \in Int
    BY <1>1, <1>2
  <2> QED BY <2>1, AboutZ
<1> QED BY <1>4, <1>5, <1>6, <1>7, <1>8 DEF s, c

(* Back from the base to the hand: joint by joint.                         *)
LEMMA HandBack ==
  ASSUME NEW q, Angles(q), NEW v \in Vectors
  PROVE  TurnBack(Hand(q), v) =
            TurnBack(Rotation(ez, q[5]),
                TurnBack(Rotation(ey, Pitch(q)), TurnBack(Rotation(ez, q[1]), v)))
<1> DEFINE F == Rotation(ez, q[1])
           G == Rotation(ey, Pitch(q))
           H == Rotation(ez, q[5])
           a == TurnBack(F, v)
           b == TurnBack(G, a)
           c == TurnBack(H, b)
<1>1. q[1] \in Int /\ q[5] \in Int /\ Pitch(q) \in Int
  BY AnglesType
<1>2. F \in Rigid /\ G \in Rigid /\ H \in Rigid /\ F \in Frames /\ G \in Frames /\ H \in Frames
          /\ Hand(q) \in Rigid
  BY <1>1, AxesType, RotationRigid, RigidType, HandPosition
<1>3. \A w \in Vectors : Turn(Hand(q), w) = Turn(F, Turn(G, Turn(H, w)))
  BY HandPosition
<1> HIDE DEF F, G, H
<1>4. a \in Vectors /\ Turn(F, a) = v
  BY <1>2, TurnBackType, TurnBackAgain
<1> HIDE DEF a
<1>5. b \in Vectors /\ Turn(G, b) = a
  BY <1>2, <1>4, TurnBackType, TurnBackAgain
<1> HIDE DEF b
<1>6. c \in Vectors /\ Turn(H, c) = b
  BY <1>2, <1>5, TurnBackType, TurnBackAgain
<1> HIDE DEF c
<1>7. Turn(Hand(q), c) = v
  BY <1>3, <1>4, <1>5, <1>6
<1>8. TurnBack(Hand(q), v) = c
  BY <1>2, <1>6, <1>7, BackTurn
<1> QED BY <1>8 DEF a, b, c, F, G, H

---------------------------------------------------------------------------
(* The velocity a joint gives the hand, in the base frame.                 *)

(* From the i-th joint to the hand, as the arm sees it. *)
LEMMA ArmReaches ==
  ASSUME NEW q, Angles(q), NEW i \in 2 .. 4
  PROVE  Minus(Hand(q).p, JointPoint(q, i))
             = Turn(Rotation(ez, q[1]), <<Forward(q, i), 0, Upward(q, i)>>)
<1> DEFINE c == Cos(q[1])
           s == Sin(q[1])
           f == Forward(q, i)
           u == Upward(q, i)
           F == Forward(q, 2)
           U == Upward(q, 2)
<1>1. q[1] \in Int /\ c \in Int /\ s \in Int /\ A0 \in Int /\ A1 \in Int /\ A2 \in Int
          /\ A3 \in Int
  BY AnglesType, SinType, Lengths
<1>2. f \in Int /\ u \in Int /\ F \in Int /\ U \in Int
  BY Reaches
<1>3. Turn(Rotation(ez, q[1]), <<f, 0, u>>) = <<c * f, s * f, u>>
  <2>1. q[1] \in Int /\ f \in Int /\ u \in Int
    BY <1>1, <1>2
  <2> HIDE DEF f, u
  <2> QED BY <2>1, AboutZ
<1>4. Hand(q).p = <<c * F, s * F, U + A0>>
  BY HandPosition
<1>5. CASE i = 2
  <2>1. JointPoint(q, i) = <<0, 0, A0>>
    BY <1>5 DEF JointPoint
  <2>2. Minus(Hand(q).p, JointPoint(q, i)) = <<c * F - 0, s * F - 0, (U + A0) - A0>>
    BY <1>4, <2>1 DEF Minus
  <2> HIDE DEF F, U
  <2>3. c * F - 0 = c * F /\ s * F - 0 = s * F /\ (U + A0) - A0 = U
    BY <1>1, <1>2
  <2> QED BY <1>3, <1>5, <2>2, <2>3 DEF F, U
<1>6. CASE i = 3
  <2> DEFINE a == A1 * Sin(q[2])
             b == A1 * Cos(q[2])
  <2>1. a \in Int /\ b \in Int
    <3>1. Sin(q[2]) \in Int /\ Cos(q[2]) \in Int
      BY AnglesType, SinType
    <3> QED BY <3>1, Lengths
  <2>2. Turn(Rotation(ez, q[1]), <<a, 0, b>>) = <<c * a, s * a, b>>
    <3>1. q[1] \in Int
      BY <1>1
    <3> HIDE DEF a, b
    <3> QED BY <2>1, <3>1, AboutZ
  <2>3. Turn(Rotation(ez, q[1]), ey) = Turn(Rotation(ez, q[1]), ey)
            /\ JointPoint(q, i) = Plus(<<0, 0, A0>>, <<c * a, s * a, b>>)
    BY <1>6, <2>2 DEF JointPoint
  <2>4. JointPoint(q, i) = <<0 + c * a, 0 + s * a, A0 + b>>
    BY <2>3 DEF Plus
  <2>5. Minus(Hand(q).p, JointPoint(q, i))
            = <<c * F - (0 + c * a), s * F - (0 + s * a), (U + A0) - (A0 + b)>>
    <3> HIDE DEF a, b, c, s, F, U
    <3> QED BY <1>4, <2>4 DEF Minus
  <2>6. F = a + f /\ U = b + u
    <3>1. /\ Sin(q[2] + q[3]) \in Int /\ Cos(q[2] + q[3]) \in Int /\ Sin(Pitch(q)) \in Int
          /\ Cos(Pitch(q)) \in Int
      BY AnglesType, SinType
    <3>2. /\ A2 * Sin(q[2] + q[3]) \in Int /\ A3 * Sin(Pitch(q)) \in Int
          /\ A2 * Cos(q[2] + q[3]) \in Int /\ A3 * Cos(Pitch(q)) \in Int
      BY <3>1, Lengths
    <3>3. /\ F = a + A2 * Sin(q[2] + q[3]) + A3 * Sin(Pitch(q))
          /\ f = A2 * Sin(q[2] + q[3]) + A3 * Sin(Pitch(q))
          /\ U = b + A2 * Cos(q[2] + q[3]) + A3 * Cos(Pitch(q))
          /\ u = A2 * Cos(q[2] + q[3]) + A3 * Cos(Pitch(q))
      BY <1>6, Reaches
    <3> HIDE DEF a, b, f, u, F, U
    <3> QED BY <2>1, <3>2, <3>3
  <2> HIDE DEF a, b, f, u, F, U, c, s
  <2>7. c * F - (0 + c * a) = c * f /\ s * F - (0 + s * a) = s * f /\ (U + A0) - (A0 + b) = u
    BY <1>1, <1>2, <2>1, <2>6
  <2> QED BY <1>3, <2>5, <2>7 DEF f, u
<1>7. CASE i = 4
  <2> DEFINE x == Sin(Pitch(q))
             z == Cos(Pitch(q))
  <2>1. x \in Int /\ z \in Int
    BY AnglesType, SinType
  <2>2. Hand(q).z = <<c * x, s * x, z>>
    BY HandAxis
  <2>3. JointPoint(q, i) = Minus(Hand(q).p, Times(A3, Hand(q).z))
    BY <1>7 DEF JointPoint
  <2>4. f = A3 * x /\ u = A3 * z
    BY <1>7, Reaches
  <2> HIDE DEF x, z, c, s, F, U, f, u
  <2>5. JointPoint(q, i) = <<c * F - A3 * (c * x), s * F - A3 * (s * x), (U + A0) - A3 * z>>
    BY <1>4, <2>2, <2>3 DEF Minus, Times
  <2>6. Minus(Hand(q).p, JointPoint(q, i))
            = <<c * F - (c * F - A3 * (c * x)), s * F - (s * F - A3 * (s * x)), (U + A0)
                - ((U + A0) - A3 * z)>>
    BY <1>4, <2>5 DEF Minus
  <2>7. c * F - (c * F - A3 * (c * x)) = c * (A3 * x)
            /\ s * F - (s * F - A3 * (s * x)) = s * (A3 * x)
        /\ (U + A0) - ((U + A0) - A3 * z) = A3 * z
    BY <1>1, <1>2, <2>1
  <2> QED BY <1>3, <2>4, <2>6, <2>7 DEF f, u
<1> QED BY <1>5, <1>6, <1>7

(* The last joint: its axis goes through the hand. *)
LEMMA RollReaches ==
  ASSUME NEW q, Angles(q)
  PROVE  Minus(Hand(q).p, JointPoint(q, 5)) = Times(A3, Hand(q).z)
<1> DEFINE p == Hand(q).p
           t == Times(A3, Hand(q).z)
<1>1. p \in Vectors /\ Hand(q).z \in Vectors
  BY HandPosition, RigidType
<1>2. t \in Vectors
  BY <1>1, Lengths, TimesType
<1>3. JointPoint(q, 5) = Minus(p, t)
  BY DEF JointPoint
<1> HIDE DEF p, t
<1>4. Minus(p, t) \in Vectors
  BY <1>1, <1>2, MinusType
<1>5. Minus(p, Minus(p, t)) \in Vectors
  BY <1>1, <1>4, MinusType
<1>6. ASSUME NEW i \in 1 .. 3 PROVE Minus(p, Minus(p, t))[i] = t[i]
  <2>1. p[i] \in Int /\ t[i] \in Int
    BY <1>1, <1>2, VectorAt
  <2>2. Minus(p, Minus(p, t))[i] = p[i] - (p[i] - t[i])
    BY MinusAt
  <2> QED BY <2>1, <2>2
<1>7. Minus(p, Minus(p, t)) = t
  BY <1>2, <1>5, <1>6, VectorEq
<1> QED BY <1>3, <1>7 DEF p, t

LEMMA Parallel ==
  ASSUME NEW v \in Vectors, NEW k \in Int
  PROVE  Cross(v, Times(k, v)) = Zero
<1>1. v[1] \in Int /\ v[2] \in Int /\ v[3] \in Int
  BY VectorType
<1>2. Cross(v, Times(k, v)) = <<v[2] * (k * v[3]) - v[3] * (k * v[2]), v[3] * (k * v[1])
          - v[1] * (k * v[3]), v[1] * (k * v[2]) - v[2] * (k * v[1])>>
  BY DEF Cross, Times
<1>3. v[2] * (k * v[3]) - v[3] * (k * v[2]) = 0 /\ v[3] * (k * v[1]) - v[1] * (k * v[3]) = 0
          /\ v[1] * (k * v[2]) - v[2] * (k * v[1]) = 0
  BY <1>1
<1> QED BY <1>2, <1>3 DEF Zero

(* What the i-th joint gives the hand, in the base frame. *)
Velocity(q, i) == Cross(JointAxis(q, i), Minus(Hand(q).p, JointPoint(q, i)))

(* A joint of the arm moves the hand across the line to it.                *)
LEMMA ArmVelocity ==
  ASSUME NEW q, Angles(q), NEW i \in 2 .. 4
  PROVE  /\ Velocity(q, i) = Turn(Rotation(ez, q[1]), <<Upward(q, i), 0, -Forward(q, i)>>)
         /\ JointAxis(q, i) = Turn(Rotation(ez, q[1]), ey)
<1> DEFINE R == Rotation(ez, q[1])
           f == Forward(q, i)
           u == Upward(q, i)
           w == <<f, 0, u>>
<1>1. f \in Int /\ u \in Int /\ q[1] \in Int
  BY Reaches, AnglesType
<1>2. R \in Rigid /\ ey \in Vectors /\ ey = <<0, 1, 0>>
  BY <1>1, AxesType, RotationRigid
<1>3. JointAxis(q, i) = Turn(R, ey)
  BY DEF JointAxis
<1>4. Minus(Hand(q).p, JointPoint(q, i)) = Turn(R, w)
  BY ArmReaches
<1> HIDE DEF R, f, u
<1>5. w \in Vectors
  BY <1>1, VectorMake
<1>6. Cross(ey, w) = <<1 * u - 0 * 0, 0 * f - 0 * u, 0 * 0 - 1 * f>>
  BY <1>2 DEF Cross
<1>7. Cross(ey, w) = <<u, 0, -f>>
  BY <1>1, <1>6
<1> HIDE DEF w
<1>8. Cross(Turn(R, ey), Turn(R, w)) = Turn(R, Cross(ey, w))
  BY <1>2, <1>5, CrossRigid
<1> QED BY <1>3, <1>4, <1>7, <1>8 DEF Velocity, R, f, u

(* Joint 1 moves the hand around the base.                                 *)
LEMMA BaseVelocity ==
  ASSUME NEW q, Angles(q)
  PROVE  /\ Velocity(q, 1) = Turn(Rotation(ez, q[1]), <<0, Forward(q, 2), 0>>)
         /\ JointAxis(q, 1) = ez
<1> DEFINE c == Cos(q[1])
           s == Sin(q[1])
           F == Forward(q, 2)
           h == Upward(q, 2) + A0
<1>1. q[1] \in Int /\ c \in Int /\ s \in Int /\ F \in Int /\ h \in Int
  BY AnglesType, SinType, Reaches, Lengths
<1>2. JointAxis(q, 1) = <<0, 0, 1>> /\ JointPoint(q, 1) = Zero /\ JointAxis(q, 1) = ez
  BY AxesType DEF JointAxis, JointPoint
<1>3. Hand(q).p = <<c * F, s * F, h>>
  BY HandPosition
<1> HIDE DEF c, s, F, h
<1>4. Minus(Hand(q).p, JointPoint(q, 1)) = <<c * F - 0, s * F - 0, h - 0>>
  BY <1>2, <1>3 DEF Minus, Zero
<1>5. Velocity(q, 1) = <<0 * (h - 0) - 1 * (s * F - 0), 1 * (c * F - 0)
          - 0 * (h - 0), 0 * (s * F - 0) - 0 * (c * F - 0)>>
  BY <1>2, <1>4 DEF Velocity, Cross
<1>6. /\ 0 * (h - 0) - 1 * (s * F - 0) = -s * F
      /\ 1 * (c * F - 0) - 0 * (h - 0) = c * F
      /\ 0 * (s * F - 0) - 0 * (c * F - 0) = 0
  BY <1>1
<1>7. Turn(Rotation(ez, q[1]), <<0, F, 0>>) = <<-s * F, c * F, 0>>
  <2>1. q[1] \in Int /\ F \in Int /\ 0 \in Int
    BY <1>1
  <2> QED BY <2>1, AboutZ DEF c, s
<1> QED BY <1>2, <1>5, <1>6, <1>7 DEF F

(* The last joint does not move the hand, only turns it.                   *)
LEMMA RollVelocity ==
  ASSUME NEW q, Angles(q)
  PROVE  Velocity(q, 5) = Zero /\ JointAxis(q, 5) = Hand(q).z
<1>1. JointAxis(q, 5) = Hand(q).z
  BY DEF JointAxis
<1>2. Hand(q).z \in Vectors
  BY HandPosition, RigidType
<1> QED BY <1>1, <1>2, RollReaches, Parallel, Lengths DEF Velocity

(* ComputeBaseFrameDiffInvKin *)
LEMMA BaseColumns ==
  ASSUME NEW q, Angles(q), NEW i \in 1 .. 5
  PROVE  ComputeBaseFrameDiffInvKin(q)[i] = [v |-> Velocity(q, i), w |-> JointAxis(q, i)]
<1> DEFINE J == ComputeBaseFrameDiffInvKin(q)
<1>1. q[1] \in Int /\ Sin(q[1]) \in Int /\ Cos(q[1]) \in Int
  BY AnglesType, SinType
<1>2. CASE i = 1
  <2> DEFINE F == Forward(q, 2)
  <2>1. J[i] = [v |-> <<-Sin(q[1]) * F, Cos(q[1]) * F, 0>>, w |-> ez]
    BY <1>2 DEF ComputeBaseFrameDiffInvKin
  <2>2. F \in Int /\ 0 \in Int /\ q[1] \in Int
    BY <1>1, Reaches
  <2>3. Turn(Rotation(ez, q[1]), <<0, F, 0>>) = <<-Sin(q[1]) * F, Cos(q[1]) * F, 0>>
    <3> HIDE DEF F
    <3> QED BY <2>2, AboutZ
  <2> QED BY <1>2, <2>1, <2>3, BaseVelocity
<1>3. CASE i = 5
  <2>1. J[i] = [v |-> Zero, w |-> <<Cos(q[1]) * Sin(Pitch(q)), Sin(q[1]) * Sin(Pitch(q)),
            Cos(Pitch(q))>>]
    BY <1>3 DEF ComputeBaseFrameDiffInvKin, Pitch
  <2> QED BY <1>3, <2>1, HandAxis, RollVelocity
<1>4. CASE i \in 2 .. 4
  <2> DEFINE u == Upward(q, i)
             f == -Forward(q, i)
  <2>1. J[i] = [v |-> <<Cos(q[1]) * u, Sin(q[1]) * u, f>>, w |-> <<-Sin(q[1]), Cos(q[1]), 0>>]
    BY <1>4 DEF ComputeBaseFrameDiffInvKin
  <2>2. q[1] \in Int /\ u \in Int /\ f \in Int
    BY <1>1, <1>4, Reaches
  <2>3. Turn(Rotation(ez, q[1]), <<u, 0, f>>) = <<Cos(q[1]) * u, Sin(q[1]) * u, f>>
    <3> HIDE DEF u, f
    <3> QED BY <2>2, AboutZ
  <2>4. Turn(Rotation(ez, q[1]), ey) = <<-Sin(q[1]), Cos(q[1]), 0>>
    <3>1. q[1] \in Int /\ 1 \in Int /\ 0 \in Int
      BY <1>1
    <3>2. Turn(Rotation(ez, q[1]), <<0, 1, 0>>) = <<-Sin(q[1]) * 1, Cos(q[1]) * 1, 0>>
      BY <3>1, AboutZ
    <3>3. -Sin(q[1]) * 1 = -Sin(q[1]) /\ Cos(q[1]) * 1 = Cos(q[1])
      BY <1>1
    <3> QED BY <3>2, <3>3, AxesType
  <2>5. Velocity(q, i) = Turn(Rotation(ez, q[1]), <<u, 0, f>>)
            /\ JointAxis(q, i) = Turn(Rotation(ez, q[1]), ey)
    BY <1>4, ArmVelocity
  <2> HIDE DEF u, f
  <2>6. J[i] = [v |-> Velocity(q, i), w |-> JointAxis(q, i)]
    <3> HIDE DEF J
    <3> QED BY <2>1, <2>3, <2>4, <2>5
  <2> QED BY <2>6
<1> QED BY <1>2, <1>3, <1>4

---------------------------------------------------------------------------
(* How far ahead and aside of the hand each joint of the arm is.           *)

(* The sine and cosine of a difference.                                    *)
LEMMA SineOfDifference ==
  ASSUME NEW a \in Int, NEW b \in Int
  PROVE  /\ Sin(a - b) = Sin(a) * Cos(b) - Cos(a) * Sin(b)
         /\ Cos(a - b) = Cos(a) * Cos(b) + Sin(a) * Sin(b)
<1> DEFINE m == -b
<1>1. m \in Int /\ a - b = a + m /\ Cos(m) = Cos(b) /\ Sin(m) = -Sin(b)
  BY Quarters
<1>2. Sin(a) \in Int /\ Cos(a) \in Int /\ Sin(b) \in Int /\ Cos(b) \in Int
  BY SinType
<1> HIDE DEF m
<1>3. Sin(a + m) = Sin(a) * Cos(m) + Cos(a) * Sin(m)
          /\ Cos(a + m) = Cos(a) * Cos(m) - Sin(a) * Sin(m)
  BY <1>1, SineOfSum
<1>4. \A s, c, t, d \in Int : s * d + c * (-t) = s * d - c * t /\ c * d - s * (-t) = c * d + s * t
  OBVIOUS
<1>5. /\ Sin(a) * Cos(b) + Cos(a) * (-Sin(b)) = Sin(a) * Cos(b) - Cos(a) * Sin(b)
      /\ Cos(a) * Cos(b) - Sin(a) * (-Sin(b)) = Cos(a) * Cos(b) + Sin(a) * Sin(b)
  BY <1>2, <1>4
<1> QED BY <1>1, <1>3, <1>5

(* The reaches of an arm seen from the hand, in coordinates.               *)
LEMMA Folded ==
  ASSUME NEW c \in Int, NEW s \in Int, c * c + s * s = 1,
         NEW k \in Int, NEW l \in Int, NEW m \in Int, NEW d \in Int, NEW t \in Int, NEW e \in Int,
             NEW r \in Int
  PROVE  /\ c * (k * d + l * e + m * c) + s * (k * t + l * r + m * s)
                = m + l * (c * e + s * r) + k * (c * d + s * t)
         /\ s * (k * d + l * e + m * c) - c * (k * t + l * r + m * s)
                = l * (s * e - c * r) + k * (s * d - c * t)
<1>1. c * (k * d + l * e + m * c) + s * (k * t + l * r + m * s)
        = m * (c * c + s * s) + l * (c * e + s * r) + k * (c * d + s * t)
  OBVIOUS
<1>2. m * (c * c + s * s) = m
  BY SMT
<1> QED BY <1>1, <1>2

Far(q, i) == A3 + (IF i <= 3 THEN A2 * Cos(q[4]) ELSE 0)
    + (IF i = 2 THEN A1 * Cos(q[3] + q[4]) ELSE 0)
Side(q, i) == (IF i <= 3 THEN A2 * Sin(q[4]) ELSE 0)
    + (IF i = 2 THEN A1 * Sin(q[3] + q[4]) ELSE 0)

(* The reaches seen from the hand are sums over the joints in between.     *)
LEMMA FarAndSide ==
  ASSUME NEW q, Angles(q), NEW i \in 2 .. 4
  PROVE  /\ Cos(Pitch(q)) * Upward(q, i) + Sin(Pitch(q)) * Forward(q, i) = Far(q, i)
         /\ Sin(Pitch(q)) * Upward(q, i) - Cos(Pitch(q)) * Forward(q, i) = Side(q, i)
         /\ Far(q, i) \in Int /\ Side(q, i) \in Int
<1> DEFINE o == Pitch(q)
           a == q[2]
           b == q[2] + q[3]
           ca == Cos(a)
           sa == Sin(a)
           cb == Cos(b)
           sb == Sin(b)
           c == Cos(o)
           s == Sin(o)
           c4 == Cos(q[4])
           s4 == Sin(q[4])
           c34 == Cos(q[3] + q[4])
           s34 == Sin(q[3] + q[4])
<1>1. o \in Int /\ a \in Int /\ b \in Int /\ q[4] \in Int /\ q[3] + q[4] \in Int
  BY AnglesType
<1>2. o - a = q[3] + q[4] /\ o - b = q[4]
  BY AnglesType DEF Pitch
<1> HIDE DEF o, a, b
<1>3. Sin(o - a) = s * ca - c * sa /\ Cos(o - a) = c * ca + s * sa
  BY <1>1, SineOfDifference
<1>4. Sin(o - b) = s * cb - c * sb /\ Cos(o - b) = c * cb + s * sb
  BY <1>1, SineOfDifference
<1>5. s34 = s * ca - c * sa /\ c34 = c * ca + s * sa /\ s4 = s * cb - c * sb
          /\ c4 = c * cb + s * sb
  BY <1>2, <1>3, <1>4
<1>6. /\ c \in Int /\ s \in Int /\ ca \in Int /\ sa \in Int /\ cb \in Int /\ sb \in Int
      /\ c4 \in Int /\ s4 \in Int /\ c34 \in Int /\ s34 \in Int
  BY <1>1, SinType
<1>7. c * c + s * s = 1
  <2>1. s * s + c * c = 1
    BY <1>1, Squares
  <2> QED BY <1>6, <2>1
<1>8. /\ Forward(q, 2) = A1 * sa + A2 * sb + A3 * s
      /\ Upward(q, 2) = A1 * ca + A2 * cb + A3 * c
      /\ Forward(q, 3) = A2 * sb + A3 * s
      /\ Upward(q, 3) = A2 * cb + A3 * c
      /\ Forward(q, 4) = A3 * s
      /\ Upward(q, 4) = A3 * c
  BY Reaches DEF o, a, b
<1> HIDE DEF c, s, ca, sa, cb, sb, c4, s4, c34, s34
<1>9. \A k, l, m \in Int :
        /\ c * (k * ca + l * cb + m * c) + s * (k * sa + l * sb + m * s) = m + l * c4 + k * c34
        /\ s * (k * ca + l * cb + m * c) - c * (k * sa + l * sb + m * s) = l * s4 + k * s34
  BY <1>5, <1>6, <1>7, Folded
<1>10. 0 \in Int /\ A1 \in Int /\ A2 \in Int /\ A3 \in Int
  BY Lengths
<1>11. CASE i = 2
  <2>1. Far(q, i) = A3 + A2 * c4 + A1 * c34 /\ Side(q, i) = A2 * s4 + A1 * s34
    BY <1>11, <1>6 DEF Far, Side, c4, s4, c34, s34, A1, A2, A3
  <2>2. c * (A1 * ca + A2 * cb + A3 * c) + s * (A1 * sa + A2 * sb + A3 * s)
            = A3 + A2 * c4 + A1 * c34
    BY <1>9, <1>10
  <2>3. s * (A1 * ca + A2 * cb + A3 * c) - c * (A1 * sa + A2 * sb + A3 * s) = A2 * s4 + A1 * s34
    BY <1>9, <1>10
  <2>4. A3 + A2 * c4 + A1 * c34 \in Int /\ A2 * s4 + A1 * s34 \in Int
    BY <1>6, <1>10
  <2> QED BY <1>11, <1>8, <2>1, <2>2, <2>3, <2>4 DEF c, s, o
<1>12. CASE i = 3
  <2>1. Far(q, i) = A3 + A2 * c4 /\ Side(q, i) = A2 * s4
    BY <1>12, <1>6 DEF Far, Side, c4, s4, A1, A2, A3
  <2>2. c * (A2 * cb + A3 * c) + s * (A2 * sb + A3 * s) = A3 + A2 * c4
    <3>1. c * (0 * ca + A2 * cb + A3 * c) + s * (0 * sa + A2 * sb + A3 * s)
              = A3 + A2 * c4 + 0 * c34
      BY <1>9, <1>10
    <3> QED BY <1>6, <1>10, <3>1
  <2>3. s * (A2 * cb + A3 * c) - c * (A2 * sb + A3 * s) = A2 * s4
    <3>1. s * (0 * ca + A2 * cb + A3 * c) - c * (0 * sa + A2 * sb + A3 * s) = A2 * s4 + 0 * s34
      BY <1>9, <1>10
    <3> QED BY <1>6, <1>10, <3>1
  <2>4. A3 + A2 * c4 \in Int /\ A2 * s4 \in Int
    BY <1>6, <1>10
  <2> QED BY <1>12, <1>8, <2>1, <2>2, <2>3, <2>4 DEF c, s, o
<1>13. CASE i = 4
  <2>1. Far(q, i) = A3 /\ Side(q, i) = 0
    BY <1>13, <1>6 DEF Far, Side, A3
  <2>2. c * (A3 * c) + s * (A3 * s) = A3
    <3>1. c * (0 * ca + 0 * cb + A3 * c) + s * (0 * sa + 0 * sb + A3 * s) = A3 + 0 * c4 + 0 * c34
      BY <1>9, <1>10
    <3> QED BY <1>6, <1>10, <3>1
  <2>3. s * (A3 * c) - c * (A3 * s) = 0
    BY <1>6, <1>10
  <2> QED BY <1>13, <1>8, <1>10, <2>1, <2>2, <2>3 DEF c, s, o
<1> QED BY <1>11, <1>12, <1>13

---------------------------------------------------------------------------
(* The velocity a joint gives the hand, in the frame of the hand; and      *)
(* forward kinematics.                                                     *)

(* What joint 1 turned, seen from the hand.                                *)
LEMMA SeenFromHand ==
  ASSUME NEW q, Angles(q), NEW x \in Int, NEW y \in Int, NEW z \in Int
  PROVE  TurnBack(Hand(q), Turn(Rotation(ez, q[1]), <<x, y, z>>))
           = TurnBack(Rotation(ez, q[5]), TurnBack(Rotation(ey, Pitch(q)), <<x, y, z>>))
<1> DEFINE v == <<x, y, z>>
           R == Rotation(ez, q[1])
           u == Turn(R, v)
<1>1. v \in Vectors
  BY VectorMake
<1>2. R \in Rigid /\ R \in Frames
  <2>1. q[1] \in Int
    BY AnglesType
  <2> QED BY <2>1, AxesType, RotationRigid, RigidType
<1> HIDE DEF v, R
<1>3. u \in Vectors /\ TurnBack(R, u) = v
  BY <1>1, <1>2, TurnType, BackTurn
<1> HIDE DEF u
<1>4. TurnBack(Hand(q), u) = TurnBack(Rotation(ez, q[5]),
          TurnBack(Rotation(ey, Pitch(q)), TurnBack(R, u)))
  BY <1>3, HandBack DEF R
<1> QED BY <1>3, <1>4 DEF u, v, R

(* The roll of a vector of the plane of the arm, in a form to instantiate.  *)
LEMMA RollSeen ==
  \A k \in Int : \A x \in Int : \A z \in Int :
      TurnBack(Rotation(ez, k), <<x, 0, z>>) = <<Cos(k) * x, -Sin(k) * x, z>>
BY AboutZ

(* A vector of the plane of the arm, seen from the hand.                   *)
LEMMA SwingSeen ==
  ASSUME NEW q, Angles(q), NEW x \in Int, NEW z \in Int
  PROVE  TurnBack(Hand(q), Turn(Rotation(ez, q[1]), <<x, 0, z>>))
           = <<Cos(q[5]) * (Cos(Pitch(q)) * x - Sin(Pitch(q)) * z),
               -Sin(q[5]) * (Cos(Pitch(q)) * x - Sin(Pitch(q)) * z),
               Cos(Pitch(q)) * z + Sin(Pitch(q)) * x>>
<1> DEFINE o == Pitch(q)
           a == Cos(o) * x - Sin(o) * z
           b == Cos(o) * z + Sin(o) * x
<1>1. q[5] \in Int /\ o \in Int /\ 0 \in Int
  BY AnglesType
<1>2. a \in Int /\ b \in Int
  BY <1>1, SinType
<1>3. TurnBack(Rotation(ey, o), <<x, 0, z>>) = <<a, 0, b>>
  <2> HIDE DEF o
  <2> QED BY <1>1, SwingsBack
<1>4. TurnBack(Rotation(ez, q[5]), <<a, 0, b>>) = <<Cos(q[5]) * a, -Sin(q[5]) * a, b>>
  <2>1. q[5] \in Int /\ a \in Int /\ b \in Int
    BY <1>1, <1>2
  <2> HIDE DEF a, b, o
  <2> QED BY <2>1, RollSeen
<1>5. TurnBack(Hand(q), Turn(Rotation(ez, q[1]), <<x, 0, z>>))
        = TurnBack(Rotation(ez, q[5]), TurnBack(Rotation(ey, o), <<x, 0, z>>))
  BY <1>1, SeenFromHand
<1> QED BY <1>3, <1>4, <1>5

(* A vector across the plane of the arm, seen from the hand.               *)
LEMMA SidewaysSeen ==
  ASSUME NEW q, Angles(q), NEW x \in Int
  PROVE  TurnBack(Hand(q), Turn(Rotation(ez, q[1]), <<0, x, 0>>))
             = <<Sin(q[5]) * x, Cos(q[5]) * x, 0>>
<1>1. q[5] \in Int /\ Pitch(q) \in Int /\ 0 \in Int
  BY AnglesType
<1>2. TurnBack(Rotation(ey, Pitch(q)), <<0, x, 0>>) = <<0, x, 0>>
  BY <1>1, SwingsBack
<1>3. TurnBack(Rotation(ez, q[5]), <<0, x, 0>>) = <<Sin(q[5]) * x, Cos(q[5]) * x, 0>>
  BY <1>1, AboutZ
<1>4. TurnBack(Hand(q), Turn(Rotation(ez, q[1]), <<0, x, 0>>))
        = TurnBack(Rotation(ez, q[5]), TurnBack(Rotation(ey, Pitch(q)), <<0, x, 0>>))
  BY <1>1, SeenFromHand
<1> QED BY <1>2, <1>3, <1>4

(* The vertical, seen from the hand.                                       *)
LEMMA UprightSeen ==
  ASSUME NEW q, Angles(q)
  PROVE  TurnBack(Hand(q), ez) = <<-Sin(Pitch(q)) * Cos(q[5]), Sin(Pitch(q)) * Sin(q[5]),
             Cos(Pitch(q))>>
<1> DEFINE c == Cos(Pitch(q))
           s == Sin(Pitch(q))
           d == Cos(q[5])
           t == Sin(q[5])
<1>1. q[1] \in Int /\ q[5] \in Int /\ Pitch(q) \in Int /\ 0 \in Int /\ 1 \in Int
  BY AnglesType
<1>2. c \in Int /\ s \in Int /\ d \in Int /\ t \in Int
  BY <1>1, SinType
<1>3. Turn(Rotation(ez, q[1]), <<0, 0, 1>>) = <<0, 0, 1>>
  BY <1>1, AxesType, AxisStays
<1>4. TurnBack(Hand(q), Turn(Rotation(ez, q[1]), <<0, 0, 1>>))
          = <<d * (c * 0 - s * 1), -t * (c * 0 - s * 1), c * 1 + s * 0>>
  BY <1>1, SwingSeen
<1> HIDE DEF c, s, d, t
<1>5. d * (c * 0 - s * 1) = -s * d /\ -t * (c * 0 - s * 1) = s * t /\ c * 1 + s * 0 = c
  BY <1>2
<1>6. TurnBack(Hand(q), ez) = <<-s * d, s * t, c>>
  BY <1>3, <1>4, <1>5, AxesType
<1> QED BY <1>6 DEF c, s, d, t

LEMMA ZeroSeen == ASSUME NEW F \in Rigid PROVE TurnBack(F, Zero) = Zero
BY BackTurn, TurnZero, ZeroType, RigidType

(* ComputeTcpFrameDiffInvKin *)
LEMMA TcpColumns ==
  ASSUME NEW q, Angles(q), NEW i \in 1 .. 5
  PROVE  ComputeTcpFrameDiffInvKin(q)[i]
             = [v |-> TurnBack(Hand(q), Velocity(q, i)), w |-> TurnBack(Hand(q), JointAxis(q, i))]
<1> DEFINE J == ComputeTcpFrameDiffInvKin(q)
           o == Pitch(q)
<1>1. Hand(q) \in Rigid /\ o \in Int /\ q[5] \in Int /\ Cos(o) \in Int /\ Sin(o) \in Int
  BY AnglesType, SinType, HandPosition
<1>2. CASE i = 1
  <2>1. J[i] = [v |-> <<Sin(q[5]) * Forward(q, 2), Cos(q[5]) * Forward(q, 2), 0>>,
                w |-> <<-Sin(o) * Cos(q[5]), Sin(o) * Sin(q[5]), Cos(o)>>]
    BY <1>2 DEF ComputeTcpFrameDiffInvKin, Pitch
  <2>2. Forward(q, 2) \in Int
    BY Reaches
  <2>3. TurnBack(Hand(q), Velocity(q, 1))
            = <<Sin(q[5]) * Forward(q, 2), Cos(q[5]) * Forward(q, 2), 0>>
    BY <2>2, BaseVelocity, SidewaysSeen
  <2>4. TurnBack(Hand(q), JointAxis(q, 1)) = <<-Sin(o) * Cos(q[5]), Sin(o) * Sin(q[5]), Cos(o)>>
    BY BaseVelocity, UprightSeen
  <2> QED BY <1>2, <2>1, <2>3, <2>4
<1>3. CASE i = 5
  <2>1. J[i] = [v |-> Zero, w |-> ez]
    BY <1>3 DEF ComputeTcpFrameDiffInvKin
  <2>2. TurnBack(Hand(q), Velocity(q, 5)) = Zero
    BY <1>1, RollVelocity, ZeroSeen
  <2>3. Turn(Hand(q), ez) = Hand(q).z
    BY <1>1, AxesType, UnitTurns, RigidType
  <2>4. TurnBack(Hand(q), JointAxis(q, 5)) = ez
    BY <1>1, <2>3, AxesType, RollVelocity, BackTurn
  <2> QED BY <1>3, <2>1, <2>2, <2>4
<1>4. CASE i \in 2 .. 4
  <2> DEFINE u == Upward(q, i)
             f == Forward(q, i)
             m == -f
             far == Far(q, i)
             side == Side(q, i)
  <2>1. J[i] = [v |-> <<Cos(q[5]) * far, -Sin(q[5]) * far, side>>,
            w |-> <<Sin(q[5]), Cos(q[5]), 0>>]
    BY <1>4 DEF ComputeTcpFrameDiffInvKin, Far, Side
  <2>2. u \in Int /\ f \in Int /\ m \in Int
    BY <1>4, Reaches
  <2>3. Cos(o) * u + Sin(o) * f = far /\ Sin(o) * u - Cos(o) * f = side
    BY <1>4, FarAndSide
  <2>4. Cos(o) * u - Sin(o) * m = far /\ Cos(o) * m + Sin(o) * u = side
    <3>1. \A c, s, a, b \in Int : c * a - s * (-b) = c * a + s * b
              /\ c * (-b) + s * a = s * a - c * b
      OBVIOUS
    <3> HIDE DEF u, f, far, side, o
    <3>2. Cos(o) * u - Sin(o) * (-f) = Cos(o) * u + Sin(o) * f
              /\ Cos(o) * (-f) + Sin(o) * u = Sin(o) * u - Cos(o) * f
      BY <1>1, <2>2, <3>1
    <3> QED BY <2>3, <3>2
  <2>5. Velocity(q, i) = Turn(Rotation(ez, q[1]), <<u, 0, m>>)
            /\ JointAxis(q, i) = Turn(Rotation(ez, q[1]), <<0, 1, 0>>)
    BY <1>4, ArmVelocity, AxesType
  <2>6. TurnBack(Hand(q), Velocity(q, i)) = <<Cos(q[5]) * far, -Sin(q[5]) * far, side>>
    <3>1. TurnBack(Hand(q), Turn(Rotation(ez, q[1]), <<u, 0, m>>))
            = <<Cos(q[5]) * (Cos(o) * u - Sin(o) * m), -Sin(q[5]) * (Cos(o) * u - Sin(o) * m),
                Cos(o) * m + Sin(o) * u>>
      <4> HIDE DEF u, m
      <4> QED BY <2>2, SwingSeen
    <3> HIDE DEF u, m, far, side, o
    <3> QED BY <2>4, <2>5, <3>1
  <2>7. TurnBack(Hand(q), JointAxis(q, i)) = <<Sin(q[5]), Cos(q[5]), 0>>
    <3>1. 1 \in Int
      OBVIOUS
    <3>2. TurnBack(Hand(q), Turn(Rotation(ez, q[1]), <<0, 1, 0>>))
              = <<Sin(q[5]) * 1, Cos(q[5]) * 1, 0>>
      BY <3>1, SidewaysSeen
    <3>3. Sin(q[5]) * 1 = Sin(q[5]) /\ Cos(q[5]) * 1 = Cos(q[5])
      BY <1>1, SinType
    <3> QED BY <2>5, <3>2, <3>3
  <2> HIDE DEF far, side
  <2>8. J[i] = [v |-> TurnBack(Hand(q), Velocity(q, i)), w |-> TurnBack(Hand(q), JointAxis(q, i))]
    <3> HIDE DEF J
    <3> QED BY <2>1, <2>6, <2>7
  <2> QED BY <2>8
<1> QED BY <1>2, <1>3, <1>4

(* EulerZYZ: the azimuth of the hand is joint 1 *)
LEMMA HandFound ==
  ASSUME NEW q, Posture(q)
  PROVE  LET p == <<Forward(q, 2) * Cos(q[1]), Forward(q, 2) * Sin(q[1]), Upward(q, 2) + A0>>
         IN  [EulerZYZ(Atan2(p[2], p[1]), q[2] + q[3] + q[4], q[5]) EXCEPT !.p = p] = Hand(q)
<1> DEFINE f == Forward(q, 2)
           h == Upward(q, 2) + A0
           p == <<f * Cos(q[1]), f * Sin(q[1]), h>>
           a == Atan2(p[2], p[1])
           E == EulerZYZ(a, Pitch(q), q[5])
           F == [E EXCEPT !.p = p]
           G == Rotation(ez, q[1])
           I == Rotation(ey, Pitch(q))
           K == Rotation(ez, q[5])
<1>1. Angles(q) /\ f > 0
  BY DEF Posture, Angles
<1>2. /\ q[1] \in Int /\ q[5] \in Int /\ Pitch(q) \in Int /\ f \in Int /\ h \in Int
      /\ Cos(q[1]) \in Int /\ Sin(q[1]) \in Int
  BY <1>1, AnglesType, SinType, Reaches, Lengths
<1>3. Rotation(ez, a) = G
  <2>1. a = Atan2(f * Sin(q[1]), f * Cos(q[1]))
    OBVIOUS
  <2> HIDE DEF a, f
  <2>2. Sin(a) = Sin(q[1]) /\ Cos(a) = Cos(q[1])
    BY <1>1, <1>2, <2>1, SameAngle
  <2> QED BY <2>2, SameRotation
<1>4. E = Compose(Compose(G, I), K)
  BY <1>3 DEF EulerZYZ
<1>5. G \in Frames /\ I \in Frames /\ K \in Frames
  BY <1>2, AxesType, RotationRigid, RigidType
<1>6. p \in Vectors /\ p = Hand(q).p
  <2>1. f * Cos(q[1]) \in Int /\ f * Sin(q[1]) \in Int /\ f * Cos(q[1]) = Cos(q[1]) * f
            /\ f * Sin(q[1]) = Sin(q[1]) * f
    BY <1>2
  <2>2. Hand(q).p = <<Cos(q[1]) * f, Sin(q[1]) * f, h>>
    BY <1>1, HandPosition
  <2> HIDE DEF f, h
  <2> QED BY <1>2, <2>1, <2>2, VectorMake
<1>7. \A v \in Vectors : Turn(Hand(q), v) = Turn(G, Turn(I, Turn(K, v)))
  BY <1>1, HandPosition
<1>8. Hand(q) \in Frames
  BY <1>1, HandPosition, RigidType
<1> HIDE DEF p, a, G, I, K
<1>9. Compose(G, I) \in Frames /\ E \in Frames
  BY <1>4, <1>5, ComposeType
<1>10. \A v \in Vectors : Turn(E, v) = Turn(Hand(q), v)
  <2>1. \A v \in Vectors : Turn(E, v) = Turn(Compose(G, I), Turn(K, v))
    BY <1>4, <1>5, <1>9, TurnTurn
  <2>2. \A v \in Vectors : Turn(Compose(G, I), Turn(K, v)) = Turn(G, Turn(I, Turn(K, v)))
    BY <1>5, TurnTurn, TurnType
  <2> QED BY <1>7, <2>1, <2>2
<1>11. E.x = Hand(q).x /\ E.y = Hand(q).y /\ E.z = Hand(q).z
  <2>1. <<1, 0, 0>> \in Vectors /\ <<0, 1, 0>> \in Vectors /\ <<0, 0, 1>> \in Vectors
    BY VectorMake
  <2>2. Turn(E, <<1, 0, 0>>) = E.x /\ Turn(E, <<0, 1, 0>>) = E.y /\ Turn(E, <<0, 0, 1>>) = E.z
    BY <1>9, UnitTurns
  <2>3. /\ Turn(Hand(q), <<1, 0, 0>>) = Hand(q).x /\ Turn(Hand(q), <<0, 1, 0>>) = Hand(q).y
        /\ Turn(Hand(q), <<0, 0, 1>>) = Hand(q).z
    BY <1>8, UnitTurns
  <2> QED BY <1>10, <2>1, <2>2, <2>3
<1> HIDE DEF E
<1>12. F \in Frames /\ F.x = E.x /\ F.y = E.y /\ F.z = E.z /\ F.p = p
  BY <1>6, <1>9 DEF Frames
<1> HIDE DEF F
<1>13. F = Hand(q)
  BY <1>6, <1>8, <1>11, <1>12, FrameEq
<1> QED BY <1>13 DEF F, E, a, p, Pitch

(* Without a tool, its frame is the identity.                              *)
ToolKept == asibot.frameTcp \in Rigid /\ (~asibot.hasFrame => asibot.frameTcp = Identity)

(* Forward kinematics give the pose of the tip, with any tool (fwdKin,     *)
(* ICartesianSolverImpl.cpp).                                              *)
LEMMA FwdKinIsTip ==
  ASSUME NEW q, Posture(q), ToolKept
  PROVE  FwdKin(q) = Tip(q)
<1>1. Angles(q)
  BY DEF Posture, Angles
<1>2. Hand(q) \in Frames
  BY <1>1, HandPosition, RigidType
<1>3. FwdKin(q) = IF asibot.hasFrame THEN Compose(Hand(q), asibot.frameTcp) ELSE Hand(q)
  BY HandFound DEF FwdKin
<1> QED BY <1>2, <1>3, IdentityRight DEF Tip, ToolKept

---------------------------------------------------------------------------
(* The velocity of the tip, and the theorem about the Jacobians.           *)

(* A farther point is faster.                                              *)
LEMMA CrossPlus ==
  ASSUME NEW u \in Vectors, NEW v \in Vectors, NEW w \in Vectors
  PROVE  Plus(Cross(u, v), Cross(u, w)) = Cross(u, Plus(v, w))
<1> DEFINE a == Plus(Cross(u, v), Cross(u, w))
           b == Cross(u, Plus(v, w))
<1>1. a \in Vectors /\ b \in Vectors
  BY CrossType, PlusType
<1>2. /\ u[1] \in Int /\ u[2] \in Int /\ u[3] \in Int /\ v[1] \in Int /\ v[2] \in Int
      /\ v[3] \in Int
      /\ w[1] \in Int /\ w[2] \in Int /\ w[3] \in Int
  BY VectorType
<1>3. a[1] = b[1] /\ a[2] = b[2] /\ a[3] = b[3]
  BY <1>2 DEF Plus, Cross
<1> HIDE DEF a, b
<1>4. \A i \in 1 .. 3 : a[i] = b[i]
  BY <1>3
<1>5. a = b
  BY <1>1, <1>4, VectorEq
<1> QED BY <1>5 DEF a, b

LEMMA Farther ==
  ASSUME NEW u \in Vectors, NEW v \in Vectors, NEW w \in Vectors
  PROVE  Plus(Minus(u, v), w) = Minus(Plus(w, u), v)
<1> DEFINE a == Plus(Minus(u, v), w)
           b == Minus(Plus(w, u), v)
<1>1. a \in Vectors /\ b \in Vectors
  BY MinusType, PlusType
<1>2. /\ u[1] \in Int /\ u[2] \in Int /\ u[3] \in Int /\ v[1] \in Int /\ v[2] \in Int
      /\ v[3] \in Int
      /\ w[1] \in Int /\ w[2] \in Int /\ w[3] \in Int
  BY VectorType
<1>3. a[1] = b[1] /\ a[2] = b[2] /\ a[3] = b[3]
  BY <1>2 DEF Plus, Minus
<1> HIDE DEF a, b
<1>4. \A i \in 1 .. 3 : a[i] = b[i]
  BY <1>3
<1>5. a = b
  BY <1>1, <1>4, VectorEq
<1> QED BY <1>5 DEF a, b

LEMMA PointType ==
  ASSUME NEW q, Angles(q), NEW i \in 1 .. 5
  PROVE  JointAxis(q, i) \in Vectors /\ JointPoint(q, i) \in Vectors
<1>1. q[1] \in Int /\ q[2] \in Int
  BY AnglesType
<1>2. Hand(q).z \in Vectors /\ Hand(q).p \in Vectors
  BY HandPosition, RigidType
<1>3. Rotation(ez, q[1]) \in Frames
  BY <1>1, AxesType, RotationRigid, RigidType
<1>4. JointAxis(q, i) \in Vectors
  <2>1. Turn(Rotation(ez, q[1]), ey) \in Vectors
    BY <1>3, AxesType, TurnType
  <2> QED BY <1>2, <2>1, AxesType DEF JointAxis
<1>5. <<0, 0, A0>> \in Vectors
  BY Lengths, VectorMake
<1>6. Minus(Hand(q).p, Times(A3, Hand(q).z)) \in Vectors
  BY <1>2, Lengths, TimesType, MinusType
<1>7. Plus(<<0, 0, A0>>, Turn(Rotation(ez, q[1]), <<A1 * Sin(q[2]), 0, A1 * Cos(q[2])>>))
          \in Vectors
  <2> DEFINE x == A1 * Sin(q[2])
             z == A1 * Cos(q[2])
  <2>1. x \in Int /\ z \in Int
    BY <1>1, SinType, Lengths
  <2>2. <<x, 0, z>> \in Vectors
    <3> HIDE DEF x, z
    <3> QED BY <2>1, VectorMake
  <2> HIDE DEF x, z
  <2>3. Plus(<<0, 0, A0>>, Turn(Rotation(ez, q[1]), <<x, 0, z>>)) \in Vectors
    BY <1>3, <1>5, <2>2, TurnType, PlusType
  <2> QED BY <2>3 DEF x, z
<1>8. JointPoint(q, i) \in Vectors
  <2>1. CASE i = 1
    BY <2>1, ZeroType DEF JointPoint
  <2>2. CASE i = 2
    BY <2>2, <1>5 DEF JointPoint
  <2>3. CASE i = 3
    <3>1. JointPoint(q, i) = Plus(<<0, 0, A0>>,
              Turn(Rotation(ez, q[1]), <<A1 * Sin(q[2]), 0, A1 * Cos(q[2])>>))
      BY <2>3 DEF JointPoint
    <3> QED BY <1>7, <3>1
  <2>4. CASE i \in {4, 5}
    BY <2>4, <1>6 DEF JointPoint
  <2> QED BY <2>1, <2>2, <2>3, <2>4
<1> QED BY <1>4, <1>8

(* The velocity joint i gives the tip. *)
TipVelocity(q, i) == Cross(JointAxis(q, i), Minus(Tip(q).p, JointPoint(q, i)))

(* Without a tool, the tip is the hand.                                    *)
LEMMA NoToolColumns ==
  ASSUME NEW q, Posture(q), ToolKept, ~asibot.hasFrame, NEW i \in 1 .. 5
  PROVE  /\ Tip(q) = Hand(q) /\ TipVelocity(q, i) = Velocity(q, i)
         /\ Jacobian(q, "BASE_FRAME")[i] = [v |-> TipVelocity(q, i), w |-> JointAxis(q, i)]
         /\ \A frame : frame # "BASE_FRAME" =>
              Jacobian(q, frame)[i] = [v |-> TurnBack(Tip(q), TipVelocity(q, i)),
                  w |-> TurnBack(Tip(q), JointAxis(q, i))]
<1>1. Angles(q)
  BY DEF Posture, Angles
<1>2. Tip(q) = Hand(q)
  BY <1>1, HandPosition, RigidType, IdentityRight DEF Tip, ToolKept
<1>3. TipVelocity(q, i) = Velocity(q, i)
  BY <1>2 DEF TipVelocity, Velocity
<1>4. Jacobian(q, "BASE_FRAME")[i] = [v |-> TipVelocity(q, i), w |-> JointAxis(q, i)]
  <2>1. Jacobian(q, "BASE_FRAME") = ComputeBaseFrameDiffInvKin(q)
    BY DEF Jacobian
  <2> QED BY <1>1, <1>3, <2>1, BaseColumns
<1>5. ASSUME NEW frame, frame # "BASE_FRAME"
      PROVE  Jacobian(q, frame)[i]
               = [v |-> TurnBack(Tip(q), TipVelocity(q, i)),
                   w |-> TurnBack(Tip(q), JointAxis(q, i))]
  <2>1. Jacobian(q, frame) = ComputeTcpFrameDiffInvKin(q)
    BY <1>5 DEF Jacobian
  <2> QED BY <1>1, <1>2, <1>3, <2>1, TcpColumns
<1> QED BY <1>2, <1>3, <1>4, <1>5

(* With a tool that does not turn its own displacement, the offset adds    *)
(* its share.                                                              *)
LEMMA ToolColumns ==
  ASSUME NEW q, Posture(q), ToolKept, asibot.hasFrame,
         Turn(asibot.frameTcp, asibot.frameTcp.p) = asibot.frameTcp.p, NEW i \in 1 .. 5
  PROVE  Jacobian(q, "BASE_FRAME")[i] = [v |-> TipVelocity(q, i), w |-> JointAxis(q, i)]
<1> DEFINE J == ComputeBaseFrameDiffInvKin(q)
           T == asibot.frameTcp
           t == T.p
           R == Turn(Hand(q), t)
           offset == Turn(FwdKin(q), t)
           axis == JointAxis(q, i)
           arm == Minus(Hand(q).p, JointPoint(q, i))
<1>1. Angles(q)
  BY DEF Posture, Angles
<1>2. Hand(q) \in Rigid /\ Hand(q) \in Frames /\ Hand(q).p \in Vectors /\ t \in Vectors
  BY <1>1, HandPosition, RigidType DEF ToolKept
<1>3. Tip(q) = Compose(Hand(q), T) /\ T \in Frames /\ Turn(T, t) = t
  BY RigidType DEF Tip, ToolKept
<1>4. Tip(q).p = Plus(R, Hand(q).p) /\ offset = R
  <2> HIDE DEF T
  <2>2. Turn(Tip(q), t) = Turn(Hand(q), t)
    BY <1>2, <1>3, TurnTurn
  <2>3. Tip(q).p = Move(Hand(q), t)
    BY <1>3, ComposeParts
  <2> QED BY <2>2, <2>3, FwdKinIsTip DEF Move
<1>5. J[i] = [v |-> Cross(axis, arm), w |-> axis]
  BY <1>1, BaseColumns DEF Velocity
<1>6. Jacobian(q, "BASE_FRAME")[i] = [J[i] EXCEPT !.v = Plus(@, Cross(J[i].w, offset))]
  BY DEF Jacobian
<1>7. axis \in Vectors /\ JointPoint(q, i) \in Vectors
  BY <1>1, PointType
<1>8. arm \in Vectors /\ R \in Vectors
  BY <1>2, <1>7, MinusType, TurnType
<1>9. Plus(arm, R) = Minus(Tip(q).p, JointPoint(q, i))
  <2> HIDE DEF R
  <2> QED BY <1>2, <1>4, <1>7, <1>8, Farther
<1>10. Plus(Cross(axis, arm), Cross(axis, R)) = Cross(axis, Plus(arm, R))
  <2> HIDE DEF axis, arm, R
  <2> QED BY <1>7, <1>8, CrossPlus
<1>11. Jacobian(q, "BASE_FRAME")[i] = [v |-> Plus(Cross(axis, arm), Cross(axis, R)), w |-> axis]
  <2> HIDE DEF axis, arm, R, J, offset
  <2>1. [J[i] EXCEPT !.v = Plus(@, Cross(J[i].w, offset))]
            = [v |-> Plus(Cross(axis, arm), Cross(axis, R)), w |-> axis]
    BY <1>4, <1>5
  <2> QED BY <1>6, <2>1
<1> QED BY <1>9, <1>10, <1>11 DEF TipVelocity

---------------------------------------------------------------------------
Arms == [open : BOOLEAN, limits : AsibotLimits \cup {<<<<>>, <<>>>>}, hasFrame : BOOLEAN,
    frameTcp : Rigid]

(* What is kept between calls: the tool is a rigid frame, none is the      *)
(* identity, and an answer was computed by the code for what was asked.    *)
AsibotInv ==
  /\ asibot \in Arms
  /\ ToolKept
  /\ reply.call = "diffInvKin" =>
        /\ reply.q \in HandPoses /\ reply.frame \in {"BASE_FRAME", "TCP_FRAME"}
        /\ reply.J = Jacobian(reply.q, reply.frame)

LEMMA AsibotInit == AsibotOff => AsibotInv
<1> SUFFICES ASSUME AsibotOff PROVE AsibotInv
  OBVIOUS
<1>1. asibot = AsibotClosed /\ reply.call = "none"
  BY DEF AsibotOff, NoReply
<1> QED BY <1>1, IdentityRigid DEF AsibotInv, AsibotClosed, ToolKept, Arms

LEMMA OtherReply ==
  ASSUME asibot' \in Arms, ToolKept', reply'.call # "diffInvKin"
  PROVE  AsibotInv'
BY DEF AsibotInv

(* One step for each action of AsibotNext.                                 *)
LEMMA AsibotStep == AsibotInv /\ [AsibotNext]_asibotVars => AsibotInv'
<1> SUFFICES ASSUME AsibotInv, [AsibotNext]_asibotVars PROVE AsibotInv'
  OBVIOUS
<1>1. asibot \in Arms /\ ToolKept
  BY DEF AsibotInv
<1>2. NoReply.call # "diffInvKin"
  BY DEF NoReply
<1>3. ASSUME asibot' = asibot
      PROVE  asibot' \in Arms /\ ToolKept' /\ \A q,
                 frame : Jacobian(q, frame)' = Jacobian(q, frame)
  BY <1>1, <1>3 DEF ToolKept, Jacobian, FwdKin
<1>4. CASE AsibotOpen
  <2>1. reply'.call # "diffInvKin"
    BY <1>4 DEF AsibotOpen
  <2>2. asibot' \in Arms /\ ToolKept'
    BY <1>1, <1>4 DEF AsibotOpen, Arms, ToolKept
  <2> QED BY <2>1, <2>2, OtherReply
<1>5. CASE AsibotAppendLink
  <2>1. reply'.call # "diffInvKin"
    BY <1>5 DEF AsibotAppendLink
  <2>2. PICK tool \in AsibotTools : asibot'
            = [asibot EXCEPT !.hasFrame = TRUE, !.frameTcp = Compose(@, tool)]
    BY <1>5 DEF AsibotAppendLink
  <2>3. tool \in Rigid /\ asibot.frameTcp \in Rigid
    BY <1>1, AsibotToolsAssumption DEF Arms
  <2>4. Compose(asibot.frameTcp, tool) \in Rigid
    BY <2>3, ComposeRigid
  <2>5. asibot' \in Arms /\ ToolKept'
    BY <1>1, <2>2, <2>4 DEF Arms, ToolKept
  <2> QED BY <2>1, <2>5, OtherReply
<1>6. CASE AsibotRestoreOriginalChain
  <2>1. reply'.call # "diffInvKin"
    BY <1>6 DEF AsibotRestoreOriginalChain
  <2>2. asibot' \in Arms /\ ToolKept'
    BY <1>1, <1>6, IdentityRigid DEF AsibotRestoreOriginalChain, Arms, ToolKept
  <2> QED BY <2>1, <2>2, OtherReply
<1>7. CASE AsibotFwdKin
  <2>1. reply'.call # "diffInvKin" /\ asibot' = asibot
    BY <1>7 DEF AsibotFwdKin
  <2> QED BY <1>3, <2>1, OtherReply
<1>8. CASE AsibotInvKin
  <2>1. reply'.call # "diffInvKin" /\ asibot' = asibot
    BY <1>8 DEF AsibotInvKin
  <2> QED BY <1>3, <2>1, OtherReply
<1>9. CASE AsibotDiffInvKin
  <2>1. PICK q \in HandPoses, frame \in {"BASE_FRAME", "TCP_FRAME"} :
          reply' = [call |-> "diffInvKin", q |-> q, frame |-> frame, J |-> Jacobian(q, frame)]
    BY <1>9 DEF AsibotDiffInvKin
  <2>2. asibot' = asibot
    BY <1>9 DEF AsibotDiffInvKin
  <2>3. reply'.q = q /\ reply'.frame = frame /\ reply'.J = Jacobian(q, frame)
    BY <2>1
  <2>4. reply'.J = Jacobian(reply.q, reply.frame)'
    BY <1>3, <2>2, <2>3
  <2> QED BY <1>3, <2>2, <2>3, <2>4 DEF AsibotInv
<1>10. CASE AsibotClose
  <2>1. reply'.call # "diffInvKin"
    BY <1>10, <1>2 DEF AsibotClose
  <2>2. asibot' \in Arms /\ ToolKept'
    BY <1>10, IdentityRigid DEF AsibotClose, AsibotClosed, Arms, ToolKept
  <2> QED BY <2>1, <2>2, OtherReply
<1>11. CASE AsibotReturn
  <2>1. reply'.call # "diffInvKin" /\ asibot' = asibot
    BY <1>11, <1>2 DEF AsibotReturn
  <2> QED BY <1>3, <2>1, OtherReply
<1>12. CASE UNCHANGED asibotVars
  <2>1. asibot' = asibot /\ reply' = reply
    BY <1>12 DEF asibotVars
  <2> QED BY <1>3, <2>1 DEF AsibotInv
<1> QED BY <1>4, <1>5, <1>6, <1>7, <1>8, <1>9, <1>10, <1>11, <1>12 DEF AsibotNext

(* What was answered is what the theorem is about.                         *)
LEMMA TipSeen == AsibotInv => JacobianIsVelocity
<1> SUFFICES ASSUME AsibotInv, reply.call = "diffInvKin",
                    asibot.hasFrame => reply.frame = "BASE_FRAME"
                        /\ Turn(asibot.frameTcp, asibot.frameTcp.p) = asibot.frameTcp.p,
                    NEW i \in 1 .. 5
             PROVE  LET q == reply.q
                        Looked(u) == IF reply.frame = "BASE_FRAME" THEN u ELSE TurnBack(Tip(q), u)
                    IN  reply.J[i] = [v |-> Looked(TipVelocity(q, i)),
                            w |-> Looked(JointAxis(q, i))]
  BY DEF JacobianIsVelocity, ColumnsAreVelocities, TipVelocity
<1> DEFINE q == reply.q
<1>1. Posture(q) /\ ToolKept /\ reply.J = Jacobian(q, reply.frame) /\ asibot.hasFrame \in BOOLEAN
  BY HandPosesAssumption DEF AsibotInv, Arms
<1>2. CASE asibot.hasFrame
  <2>1. reply.frame = "BASE_FRAME" /\ reply.J = Jacobian(q, "BASE_FRAME")
    BY <1>1, <1>2
  <2>2. Jacobian(q, "BASE_FRAME")[i] = [v |-> TipVelocity(q, i), w |-> JointAxis(q, i)]
    <3>1. Turn(asibot.frameTcp, asibot.frameTcp.p) = asibot.frameTcp.p
      BY <1>2
    <3> HIDE DEF q
    <3> QED BY <1>1, <1>2, <3>1, ToolColumns
  <2> QED BY <2>1, <2>2
<1>3. CASE ~asibot.hasFrame
  <2> HIDE DEF q
  <2>1. /\ Jacobian(q, "BASE_FRAME")[i] = [v |-> TipVelocity(q, i), w |-> JointAxis(q, i)]
        /\ \A frame : frame # "BASE_FRAME" =>
             Jacobian(q, frame)[i] = [v |-> TurnBack(Tip(q), TipVelocity(q, i)),
                 w |-> TurnBack(Tip(q), JointAxis(q, i))]
    BY <1>1, <1>3, NoToolColumns
  <2>2. CASE reply.frame = "BASE_FRAME"
    BY <1>1, <2>1, <2>2 DEF q
  <2>3. CASE reply.frame # "BASE_FRAME"
    <3>1. reply.J[i] = [v |-> TurnBack(Tip(q), TipVelocity(q, i)),
              w |-> TurnBack(Tip(q), JointAxis(q, i))]
      BY <1>1, <2>1, <2>3
    <3> QED BY <2>3, <3>1 DEF q
  <2> QED BY <2>2, <2>3
<1> QED BY <1>2, <1>3

(* For every posture with the hand in front of the robot: the columns of   *)
(* both Jacobians are the velocities of the hand as long as there is no    *)
(* tool, and those of the base frame are the velocities of the tip of any  *)
(* tool that does not turn its own displacement.  For other tools, and in  *)
(* the frame of the tip with a tool, they are not, and nothing is claimed. *)
THEOREM JacobianAlwaysVelocity == AsibotSpec => []JacobianIsVelocity
<1>1. AsibotInv => JacobianIsVelocity
  BY TipSeen
<1> QED BY <1>1, AsibotInit, AsibotStep, PTL DEF AsibotSpec

---------------------------------------------------------------------------
(* Angles that are the same turn, and two postures of the same hand.       *)

(* The same turn, the mirrored one, and the one turned by half.            *)
Same(a, b) == Sin(a) = Sin(b) /\ Cos(a) = Cos(b)
Mirrored(a, b) == Sin(a) = -Sin(b) /\ Cos(a) = Cos(b)
HalfTurn(a, b) == Sin(a) = -Sin(b) /\ Cos(a) = -Cos(b)

LEMMA SameSum ==
  ASSUME NEW a \in Int, NEW b \in Int, NEW c \in Int, NEW d \in Int, Same(a, c), Same(b, d)
  PROVE  Same(a + b, c + d)
<1>1. Sin(a + b) = Sin(a) * Cos(b) + Cos(a) * Sin(b)
          /\ Cos(a + b) = Cos(a) * Cos(b) - Sin(a) * Sin(b)
  BY SineOfSum
<1>2. Sin(c + d) = Sin(c) * Cos(d) + Cos(c) * Sin(d)
          /\ Cos(c + d) = Cos(c) * Cos(d) - Sin(c) * Sin(d)
  BY SineOfSum
<1> QED BY <1>1, <1>2 DEF Same

LEMMA MirroredNegation ==
  ASSUME NEW a \in Int, NEW c \in Int, Same(a, c)
  PROVE  Mirrored(-a, c)
BY Quarters DEF Same, Mirrored

LEMMA SameNegation ==
  ASSUME NEW a \in Int, NEW c \in Int, Same(a, c)
  PROVE  Same(-a, -c)
BY Quarters DEF Same

LEMMA Turned ==
  ASSUME NEW a \in Int, NEW c \in Int, Same(a, c)
  PROVE  HalfTurn(a + 2, c)
<1>1. Sin(2) = 0 /\ Cos(2) = -1
  BY SineOf
<1>2. Sin(a + 2) = Sin(a) * Cos(2) + Cos(a) * Sin(2)
          /\ Cos(a + 2) = Cos(a) * Cos(2) - Sin(a) * Sin(2)
  <2> DEFINE b == 2
  <2>1. b \in Int
    OBVIOUS
  <2> HIDE DEF b
  <2>2. Sin(a + b) = Sin(a) * Cos(b) + Cos(a) * Sin(b)
            /\ Cos(a + b) = Cos(a) * Cos(b) - Sin(a) * Sin(b)
    BY <2>1, SineOfSum
  <2> QED BY <2>2 DEF b
<1>3. Sin(a) \in Int /\ Cos(a) \in Int
  BY SinType
<1> QED BY <1>1, <1>2, <1>3 DEF Same, HalfTurn

(* normalizeAngle leaves the turn as it is.                                *)
LEMMA Normalized ==
  ASSUME NEW a \in Int
  PROVE  NormalizeAngle(a) \in Int /\ Same(NormalizeAngle(a), a)
<1>1. Sin(4) = 0 /\ Cos(4) = 1
  BY SineOf
<1>2. ASSUME NEW b \in Int PROVE Same(b + 4, b)
  <2>1. Sin(b + 4) = Sin(b) * Cos(4) + Cos(b) * Sin(4)
            /\ Cos(b + 4) = Cos(b) * Cos(4) - Sin(b) * Sin(4)
    BY SineOfSum
  <2>2. Sin(b) \in Int /\ Cos(b) \in Int
    BY SinType
  <2> QED BY <1>1, <2>1, <2>2 DEF Same
<1>3. CASE a > 2
  <2>1. NormalizeAngle(a) = a - 4 /\ a - 4 \in Int /\ (a - 4) + 4 = a
    BY <1>3 DEF NormalizeAngle
  <2>2. Same((a - 4) + 4, a - 4)
    BY <1>2, <2>1
  <2> QED BY <2>1, <2>2 DEF Same
<1>4. CASE a <= -2
  <2>1. NormalizeAngle(a) = a + 4 /\ a + 4 \in Int
    BY <1>4 DEF NormalizeAngle
  <2> QED BY <1>2, <2>1
<1>5. CASE ~(a > 2) /\ ~(a <= -2)
  BY <1>5 DEF NormalizeAngle, Same
<1> QED BY <1>3, <1>4, <1>5

(* A vector turned about the vertical.                                     *)
Spun(k, v) == <<Cos(k) * v[1] - Sin(k) * v[2], Sin(k) * v[1] + Cos(k) * v[2], v[3]>>

(* A turn about the vertical of any vector.                                *)
LEMMA SpunAboutZ ==
  ASSUME NEW k \in Int, NEW v \in Vectors
  PROVE  Turn(Rotation(ez, k), v) = Spun(k, v)
<1> DEFINE x == v[1]
           y == v[2]
           z == v[3]
<1>1. x \in Int /\ y \in Int /\ z \in Int /\ v = <<x, y, z>>
  BY VectorType
<1> HIDE DEF x, y, z
<1>2. Turn(Rotation(ez, k), <<x, y, z>>) = <<Cos(k) * x - Sin(k) * y, Sin(k) * x + Cos(k) * y, z>>
  BY <1>1, TurnAboutZ
<1> QED BY <1>1, <1>2 DEF Spun, x, y, z

(* With joint 1 and the roll turned by half and the pitch mirrored, the    *)
(* hand is turned as it was.                                               *)
LEMMA TurnedOver ==
  ASSUME NEW a \in Int, NEW d \in Int, HalfTurn(d, a), NEW b \in Int, NEW e \in Int,
         Mirrored(e, b),
         NEW c \in Int, NEW f \in Int, HalfTurn(f, c), NEW v \in Vectors
  PROVE  Turn(Rotation(ez, d), Turn(Rotation(ey, e), Turn(Rotation(ez, f), v)))
           = Turn(Rotation(ez, a), Turn(Rotation(ey, b), Turn(Rotation(ez, c), v)))
<1> DEFINE x == v[1]
           y == v[2]
           z == v[3]
           u == Cos(c) * x - Sin(c) * y
           w == Sin(c) * x + Cos(c) * y
           mu == Cos(f) * x - Sin(f) * y
           mw == Sin(f) * x + Cos(f) * y
           X == Cos(b) * u + Sin(b) * z
           Z == Cos(b) * z - Sin(b) * u
           mX == Cos(e) * mu + Sin(e) * z
           mZ == Cos(e) * z - Sin(e) * mu
<1>1. x \in Int /\ y \in Int /\ z \in Int /\ v = <<x, y, z>>
  BY VectorType
<1> HIDE DEF x, y, z
<1>2. /\ Sin(a) \in Int /\ Cos(a) \in Int /\ Sin(b) \in Int /\ Cos(b) \in Int /\ Sin(c) \in Int
      /\ Cos(c) \in Int
      /\ Sin(d) \in Int /\ Cos(d) \in Int /\ Sin(e) \in Int /\ Cos(e) \in Int /\ Sin(f) \in Int
      /\ Cos(f) \in Int
  BY SinType
<1>3. /\ Turn(Rotation(ez, c), v) = <<u, w, z>> /\ Turn(Rotation(ez, f), v) = <<mu, mw, z>>
  <2>1. Turn(Rotation(ez, c), v) = <<u, w, z>>
    BY <1>1, TurnAboutZ
  <2>2. Turn(Rotation(ez, f), v) = <<mu, mw, z>>
    BY <1>1, TurnAboutZ
  <2> QED BY <2>1, <2>2
<1>4. u \in Int /\ w \in Int /\ mu \in Int /\ mw \in Int
  BY <1>1, <1>2
<1>5. mu = -u /\ mw = -w
  BY <1>1, <1>2 DEF HalfTurn
<1> HIDE DEF u, w, mu, mw
<1>6. Turn(Rotation(ey, b), <<u, w, z>>) = <<X, w, Z>>
  BY <1>1, <1>4, TurnAboutY
<1>7. Turn(Rotation(ey, e), <<mu, mw, z>>) = <<mX, mw, mZ>>
  BY <1>1, <1>4, TurnAboutY
<1>8. X \in Int /\ Z \in Int /\ mX \in Int /\ mZ \in Int
  BY <1>1, <1>2, <1>4
<1>9. mX = -X /\ mZ = Z
  BY <1>1, <1>2, <1>4, <1>5 DEF Mirrored
<1> HIDE DEF X, Z, mX, mZ
<1>10. Turn(Rotation(ez, a), <<X, w, Z>>)
           = <<Cos(a) * X - Sin(a) * w, Sin(a) * X + Cos(a) * w, Z>>
  <2>1. a \in Int /\ X \in Int /\ w \in Int /\ Z \in Int
    BY <1>4, <1>8
  <2> QED BY <2>1, TurnAboutZ, Z3
<1>11. Turn(Rotation(ez, d), <<mX, mw, mZ>>)
           = <<Cos(d) * mX - Sin(d) * mw, Sin(d) * mX + Cos(d) * mw, mZ>>
  <2> DEFINE r == <<mX, mw, mZ>>
  <2>1. r \in Vectors
    BY <1>4, <1>8, VectorMake
  <2>2. Turn(Rotation(ez, d), r) = Spun(d, r)
    <3> HIDE DEF r
    <3> QED BY <2>1, SpunAboutZ
  <2>3. Spun(d, r) = <<Cos(d) * mX - Sin(d) * mw, Sin(d) * mX + Cos(d) * mw, mZ>>
    BY DEF Spun
  <2> QED BY <2>2, <2>3
<1>12. Cos(d) * mX - Sin(d) * mw = Cos(a) * X - Sin(a) * w
           /\ Sin(d) * mX + Cos(d) * mw = Sin(a) * X + Cos(a) * w
  BY <1>2, <1>4, <1>5, <1>8, <1>9 DEF HalfTurn
<1> QED BY <1>3, <1>6, <1>7, <1>9, <1>10, <1>11, <1>12

(* At p the hand is where it is at q, its roll included when it is level.  *)
Brings(p, q) ==
  /\ Hand(p).p = Hand(q).p /\ Hand(p).z = Hand(q).z
  /\ Hand(q).z[3] = 0 => Hand(p) = Hand(q)

(* Hands at the same place that turn alike are the same frame.             *)
LEMMA SameFrame ==
  ASSUME NEW p, Angles(p), NEW q, Angles(q), Hand(p).p = Hand(q).p,
         \A v \in Vectors : Turn(Hand(p), v) = Turn(Hand(q), v)
  PROVE  Hand(p) = Hand(q)
<1>1. Hand(p) \in Frames /\ Hand(q) \in Frames
  BY HandPosition, RigidType
<1>2. <<1, 0, 0>> \in Vectors /\ <<0, 1, 0>> \in Vectors /\ <<0, 0, 1>> \in Vectors
  BY VectorMake
<1>3. /\ Turn(Hand(p), <<1, 0, 0>>) = Hand(p).x /\ Turn(Hand(p), <<0, 1, 0>>) = Hand(p).y
      /\ Turn(Hand(p), <<0, 0, 1>>) = Hand(p).z
  BY <1>1, UnitTurns
<1>4. /\ Turn(Hand(q), <<1, 0, 0>>) = Hand(q).x /\ Turn(Hand(q), <<0, 1, 0>>) = Hand(q).y
      /\ Turn(Hand(q), <<0, 0, 1>>) = Hand(q).z
  BY <1>1, UnitTurns
<1>5. Hand(p).x = Hand(q).x /\ Hand(p).y = Hand(q).y /\ Hand(p).z = Hand(q).z
  BY <1>2, <1>3, <1>4
<1> QED BY <1>1, <1>5, FrameEq

(* The hand is level when the cosine of its pitch is 0.                    *)
LEMMA Upright ==
  ASSUME NEW q, Angles(q)
  PROVE  Hand(q).z[3] = Cos(Pitch(q))
<1>1. Hand(q).z = <<Cos(q[1]) * Sin(Pitch(q)), Sin(q[1]) * Sin(Pitch(q)), Cos(Pitch(q))>>
  BY HandAxis
<1> QED BY <1>1

(* The same azimuth, pitch and sums of the arm: the hand is where it was.  *)
LEMMA ForwardPose ==
  ASSUME NEW p, Angles(p), NEW q, Angles(q), Same(p[1], q[1]), Same(Pitch(p), Pitch(q)),
         Forward(p, 2) = Forward(q, 2), Upward(p, 2) = Upward(q, 2),
         Cos(Pitch(q)) = 0 => Same(p[5], q[5])
  PROVE  Brings(p, q)
<1>1. Hand(p).p = Hand(q).p
  BY HandPosition DEF Same
<1>2. Hand(p).z = Hand(q).z
  BY HandAxis DEF Same
<1>3. ASSUME Hand(q).z[3] = 0 PROVE Hand(p) = Hand(q)
  <2>1. Same(p[5], q[5])
    BY <1>3, Upright
  <2>2. /\ Rotation(ez, p[1]) = Rotation(ez, q[1])
        /\ Rotation(ey, Pitch(p)) = Rotation(ey, Pitch(q))
        /\ Rotation(ez, p[5]) = Rotation(ez, q[5])
    BY <2>1, SameRotation DEF Same
  <2>3. \A v \in Vectors : Turn(Hand(p), v) = Turn(Hand(q), v)
    BY <2>2, HandPosition
  <2> QED BY <1>1, <2>3, SameFrame
<1> QED BY <1>1, <1>2, <1>3 DEF Brings

(* The azimuth turned by half, the rest mirrored: the hand is where it     *)
(* was.                                                                    *)
LEMMA ReversedPose ==
  ASSUME NEW p, Angles(p), NEW q, Angles(q), HalfTurn(p[1], q[1]), Mirrored(Pitch(p), Pitch(q)),
         Forward(p, 2) = -Forward(q, 2), Upward(p, 2) = Upward(q, 2),
         Cos(Pitch(q)) = 0 => HalfTurn(p[5], q[5])
  PROVE  Brings(p, q)
<1>1. /\ p[1] \in Int /\ p[5] \in Int /\ Pitch(p) \in Int /\ q[1] \in Int /\ q[5] \in Int
      /\ Pitch(q) \in Int
      /\ Forward(q, 2) \in Int
  BY AnglesType, Reaches
<1>2. \A a, b \in Int : (-a) * (-b) = a * b
  OBVIOUS
<1>3. Hand(p).p = Hand(q).p
  <2>1. Cos(q[1]) \in Int /\ Sin(q[1]) \in Int
    BY <1>1, SinType
  <2>2. Hand(p).p = <<(-Cos(q[1])) * (-Forward(q, 2)), (-Sin(q[1])) * (-Forward(q, 2)),
            Upward(q, 2) + A0>>
    BY HandPosition DEF HalfTurn
  <2>3. (-Cos(q[1])) * (-Forward(q, 2)) = Cos(q[1]) * Forward(q, 2)
            /\ (-Sin(q[1])) * (-Forward(q, 2)) = Sin(q[1]) * Forward(q, 2)
    BY <1>1, <1>2, <2>1
  <2>4. Hand(q).p = <<Cos(q[1]) * Forward(q, 2), Sin(q[1]) * Forward(q, 2), Upward(q, 2) + A0>>
    BY HandPosition
  <2> QED BY <2>2, <2>3, <2>4
<1>4. Hand(p).z = Hand(q).z
  <2>1. Cos(q[1]) \in Int /\ Sin(q[1]) \in Int /\ Sin(Pitch(q)) \in Int
    BY <1>1, SinType
  <2>2. Hand(p).z = <<(-Cos(q[1])) * (-Sin(Pitch(q))), (-Sin(q[1])) * (-Sin(Pitch(q))),
            Cos(Pitch(q))>>
    BY HandAxis DEF HalfTurn, Mirrored
  <2>3. /\ (-Cos(q[1])) * (-Sin(Pitch(q))) = Cos(q[1]) * Sin(Pitch(q))
        /\ (-Sin(q[1])) * (-Sin(Pitch(q))) = Sin(q[1]) * Sin(Pitch(q))
    BY <1>2, <2>1
  <2>4. Hand(q).z = <<Cos(q[1]) * Sin(Pitch(q)), Sin(q[1]) * Sin(Pitch(q)), Cos(Pitch(q))>>
    BY HandAxis
  <2> QED BY <2>2, <2>3, <2>4
<1>5. ASSUME Hand(q).z[3] = 0 PROVE Hand(p) = Hand(q)
  <2>1. HalfTurn(p[5], q[5])
    BY <1>5, Upright
  <2>2. ASSUME NEW v \in Vectors PROVE Turn(Hand(p), v) = Turn(Hand(q), v)
    <3> DEFINE a == q[1]
               b == Pitch(q)
               c == q[5]
               d == p[1]
               e == Pitch(p)
               f == p[5]
    <3>1. a \in Int /\ b \in Int /\ c \in Int /\ d \in Int /\ e \in Int /\ f \in Int
      BY <1>1
    <3>2. HalfTurn(d, a) /\ Mirrored(e, b) /\ HalfTurn(f, c)
      BY <2>1
    <3>3. /\ Turn(Hand(p), v) = Turn(Rotation(ez, d),
                 Turn(Rotation(ey, e), Turn(Rotation(ez, f), v)))
          /\ Turn(Hand(q), v) = Turn(Rotation(ez, a),
                 Turn(Rotation(ey, b), Turn(Rotation(ez, c), v)))
      BY HandPosition
    <3> HIDE DEF a, b, c, d, e, f
    <3> QED BY <3>1, <3>2, <3>3, TurnedOver
  <2> QED BY <1>3, <2>2, SameFrame
<1> QED BY <1>3, <1>4, <1>5 DEF Brings

---------------------------------------------------------------------------
(* A pose as it is stored: normalised, and with the elbow up or down or    *)
(* the arm reversed.                                                       *)

(* Elbow up or down, the arm is the same triangle. *)
Elbows(b2, b23, q) ==
  \/ Same(b2, q[2]) /\ Same(b23, q[2] + q[3])
  \/ Same(b2, q[2] + q[3]) /\ Same(b23, q[2])

(* The arms are equally long: exchanging their angles leaves the sums as   *)
(* they are.                                                               *)
LEMMA ArmSums ==
  ASSUME NEW p, Angles(p), NEW q, Angles(q), Same(Pitch(p), Pitch(q)),
         Elbows(p[2], p[2] + p[3], q)
  PROVE  Forward(p, 2) = Forward(q, 2) /\ Upward(p, 2) = Upward(q, 2)
<1>1. /\ Sin(q[2]) \in Int /\ Sin(q[2] + q[3]) \in Int /\ Sin(Pitch(q)) \in Int
      /\ Cos(q[2]) \in Int /\ Cos(q[2] + q[3]) \in Int /\ Cos(Pitch(q)) \in Int
  BY AnglesType, SinType
<1>2. /\ Forward(q, 2) = A1 * Sin(q[2]) + A2 * Sin(q[2] + q[3]) + A3 * Sin(Pitch(q))
      /\ Upward(q, 2) = A1 * Cos(q[2]) + A2 * Cos(q[2] + q[3]) + A3 * Cos(Pitch(q))
  BY Reaches
<1>3. /\ Forward(p, 2) = A1 * Sin(p[2]) + A2 * Sin(p[2] + p[3]) + A3 * Sin(Pitch(p))
      /\ Upward(p, 2) = A1 * Cos(p[2]) + A2 * Cos(p[2] + p[3]) + A3 * Cos(Pitch(p))
  BY Reaches
<1>4. A1 = A2 /\ A2 \in Int /\ A3 \in Int
  BY DEF A1, A2, A3
<1>5. \A a, b, c, k, l \in Int : k * a + k * b + l * c = k * b + k * a + l * c
  OBVIOUS
<1>6. CASE Same(p[2], q[2]) /\ Same(p[2] + p[3], q[2] + q[3])
  BY <1>2, <1>3, <1>6 DEF Same
<1>7. CASE Same(p[2], q[2] + q[3]) /\ Same(p[2] + p[3], q[2])
  <2>1. /\ A2 * Sin(q[2] + q[3]) + A2 * Sin(q[2]) + A3 * Sin(Pitch(q))
             = A2 * Sin(q[2]) + A2 * Sin(q[2] + q[3]) + A3 * Sin(Pitch(q))
        /\ A2 * Cos(q[2] + q[3]) + A2 * Cos(q[2]) + A3 * Cos(Pitch(q))
             = A2 * Cos(q[2]) + A2 * Cos(q[2] + q[3]) + A3 * Cos(Pitch(q))
    BY <1>1, <1>4, <1>5
  <2> QED BY <1>2, <1>3, <1>4, <1>7, <2>1 DEF Same
<1> QED BY <1>6, <1>7 DEF Elbows

(* A mirrored arm reaches as far back as it did ahead.                     *)
LEMMA ReversedSums ==
  ASSUME NEW p, Angles(p), NEW q, Angles(q), Mirrored(Pitch(p), Pitch(q)),
         \/ Mirrored(p[2], q[2]) /\ Mirrored(p[2] + p[3], q[2] + q[3])
         \/ Mirrored(p[2], q[2] + q[3]) /\ Mirrored(p[2] + p[3], q[2])
  PROVE  Forward(p, 2) = -Forward(q, 2) /\ Upward(p, 2) = Upward(q, 2)
<1>1. /\ Sin(q[2]) \in Int /\ Sin(q[2] + q[3]) \in Int /\ Sin(Pitch(q)) \in Int
      /\ Cos(q[2]) \in Int /\ Cos(q[2] + q[3]) \in Int /\ Cos(Pitch(q)) \in Int
  BY AnglesType, SinType
<1>2. /\ Forward(q, 2) = A1 * Sin(q[2]) + A2 * Sin(q[2] + q[3]) + A3 * Sin(Pitch(q))
      /\ Upward(q, 2) = A1 * Cos(q[2]) + A2 * Cos(q[2] + q[3]) + A3 * Cos(Pitch(q))
  BY Reaches
<1>3. /\ Forward(p, 2) = A1 * Sin(p[2]) + A2 * Sin(p[2] + p[3]) + A3 * Sin(Pitch(p))
      /\ Upward(p, 2) = A1 * Cos(p[2]) + A2 * Cos(p[2] + p[3]) + A3 * Cos(Pitch(p))
  BY Reaches
<1>4. A1 = A2 /\ A2 \in Int /\ A3 \in Int
  BY DEF A1, A2, A3
<1>5. \A a, b, c, k, l \in Int :
         /\ k * a + k * b + l * c = k * b + k * a + l * c
         /\ k * (-a) + k * (-b) + l * (-c) = -(k * a + k * b + l * c)
         /\ k * (-a) + k * (-b) + l * (-c) = -(k * b + k * a + l * c)
  OBVIOUS
<1>6. CASE Mirrored(p[2], q[2]) /\ Mirrored(p[2] + p[3], q[2] + q[3])
  <2>1. A2 * (-Sin(q[2])) + A2 * (-Sin(q[2] + q[3])) + A3 * (-Sin(Pitch(q)))
          = -(A2 * Sin(q[2]) + A2 * Sin(q[2] + q[3]) + A3 * Sin(Pitch(q)))
    BY <1>1, <1>4, <1>5
  <2> QED BY <1>2, <1>3, <1>4, <1>6, <2>1 DEF Mirrored
<1>7. CASE Mirrored(p[2], q[2] + q[3]) /\ Mirrored(p[2] + p[3], q[2])
  <2>1. A2 * (-Sin(q[2] + q[3])) + A2 * (-Sin(q[2])) + A3 * (-Sin(Pitch(q)))
          = -(A2 * Sin(q[2]) + A2 * Sin(q[2] + q[3]) + A3 * Sin(Pitch(q)))
    BY <1>1, <1>4, <1>5
  <2>2. A2 * Cos(q[2] + q[3]) + A2 * Cos(q[2]) + A3 * Cos(Pitch(q))
          = A2 * Cos(q[2]) + A2 * Cos(q[2] + q[3]) + A3 * Cos(Pitch(q))
    BY <1>1, <1>4, <1>5
  <2> QED BY <1>2, <1>3, <1>4, <1>7, <2>1, <2>2 DEF Mirrored
<1> QED BY <1>6, <1>7

LEMMA SameTrans ==
  ASSUME NEW a, NEW b, NEW c, Same(a, b), Same(b, c)
  PROVE  Same(a, c)
BY DEF Same

(* The angles stored are the same turns as those computed.                 *)
LEMMA Stored ==
  ASSUME NEW b1 \in Int, NEW b2 \in Int, NEW b3 \in Int, NEW b4 \in Int, NEW b5 \in Int,
         NEW orient, NEW elb
  PROVE  LET n == StoreAngles(<<b1, b2, b3, b4, b5>>, orient, elb).q
         IN  /\ Angles(n) /\ n \in [1 .. 5 -> Int]
             /\ Same(n[1], b1) /\ Same(n[2], b2) /\ Same(n[5], b5)
             /\ Same(n[2] + n[3], b2 + b3) /\ Same(Pitch(n), b2 + b3 + b4)
<1> DEFINE n == StoreAngles(<<b1, b2, b3, b4, b5>>, orient, elb).q
           n1 == NormalizeAngle(b1)
           n2 == NormalizeAngle(b2)
           n3 == NormalizeAngle(b3)
           n4 == NormalizeAngle(b4)
           n5 == NormalizeAngle(b5)
<1>1. n = [i \in 1 .. 5 |-> NormalizeAngle(<<b1, b2, b3, b4, b5>>[i])]
  BY DEF StoreAngles
<1>2. n[1] = n1 /\ n[2] = n2 /\ n[3] = n3 /\ n[4] = n4 /\ n[5] = n5
  BY <1>1
<1>3. /\ n1 \in Int /\ n2 \in Int /\ n3 \in Int /\ n4 \in Int /\ n5 \in Int
      /\ Same(n1, b1) /\ Same(n2, b2) /\ Same(n3, b3) /\ Same(n4, b4) /\ Same(n5, b5)
  BY Normalized
<1>4. n \in [1 .. 5 -> Int]
  <2> HIDE DEF n1, n2, n3, n4, n5
  <2>1. \A i \in 1 .. 5 : n[i] \in Int
    <3> HIDE DEF n
    <3> QED BY <1>2, <1>3
  <2>2. n = [i \in 1 .. 5 |-> n[i]]
    BY <1>1
  <2> HIDE DEF n
  <2> QED BY <2>1, <2>2
<1> HIDE DEF n, n1, n2, n3, n4, n5
<1>5. Same(n2 + n3, b2 + b3) /\ n2 + n3 \in Int /\ b2 + b3 \in Int
  BY <1>3, SameSum
<1>6. Same((n2 + n3) + n4, (b2 + b3) + b4)
  <2> DEFINE u == n2 + n3
             v == b2 + b3
  <2>1. u \in Int /\ v \in Int /\ Same(u, v) /\ n4 \in Int /\ Same(n4, b4)
    BY <1>3, <1>5
  <2> HIDE DEF u, v
  <2>2. Same(u + n4, v + b4)
    BY <2>1, SameSum
  <2> QED BY <2>2 DEF u, v
<1> QED BY <1>2, <1>3, <1>4, <1>5, <1>6 DEF Angles, Pitch, n

(* A pose with joint 1 forward brings the hand to where it is at q.        *)
LEMMA StoredForward ==
  ASSUME NEW q, Angles(q),
         NEW b1 \in Int, NEW b2 \in Int, NEW b3 \in Int, NEW b4 \in Int, NEW b5 \in Int,
             NEW orient, NEW elb,
         Same(b1, q[1]), Elbows(b2, b2 + b3, q), Same(b2 + b3 + b4, Pitch(q)), Cos(Pitch(q)) = 0
             => Same(b5, q[5])
  PROVE  Brings(StoreAngles(<<b1, b2, b3, b4, b5>>, orient, elb).q, q)
<1> DEFINE n == StoreAngles(<<b1, b2, b3, b4, b5>>, orient, elb).q
<1>1. /\ Angles(n) /\ Same(n[1], b1) /\ Same(n[2], b2) /\ Same(n[5], b5)
      /\ Same(n[2] + n[3], b2 + b3) /\ Same(Pitch(n), b2 + b3 + b4)
  BY Stored
<1> HIDE DEF n
<1>2. Same(n[1], q[1]) /\ Same(Pitch(n), Pitch(q)) /\ (Cos(Pitch(q)) = 0 => Same(n[5], q[5]))
  BY <1>1 DEF Same
<1>3. Elbows(n[2], n[2] + n[3], q)
  BY <1>1 DEF Same, Elbows
<1>4. Forward(n, 2) = Forward(q, 2) /\ Upward(n, 2) = Upward(q, 2)
  BY <1>1, <1>2, <1>3, ArmSums
<1>5. Brings(n, q)
  BY <1>1, <1>2, <1>4, ForwardPose
<1> QED BY <1>5 DEF n

(* A pose with joint 1 reversed brings the hand to where it is at q.       *)
LEMMA StoredReversed ==
  ASSUME NEW q, Angles(q),
         NEW b1 \in Int, NEW b2 \in Int, NEW b3 \in Int, NEW b4 \in Int, NEW b5 \in Int,
             NEW orient, NEW elb,
         NEW c3 \in Int, c3 = -b3,
         Same(b1, q[1]), Elbows(b2, b2 + b3, q), Same(b2 + b3 + b4, Pitch(q)), Cos(Pitch(q)) = 0
             => Same(b5, q[5])
  PROVE  Brings(StoreAngles(<<b1 + 2, -b2, c3, -b4, b5 + 2>>, orient, elb).q, q)
<1> DEFINE c1 == b1 + 2
           c2 == -b2
           c4 == -b4
           c5 == b5 + 2
           n == StoreAngles(<<c1, c2, c3, c4, c5>>, orient, elb).q
<1>1. c1 \in Int /\ c2 \in Int /\ c3 \in Int /\ c4 \in Int /\ c5 \in Int
  OBVIOUS
<1>2. c2 + c3 = -(b2 + b3) /\ c2 + c3 + c4 = -(b2 + b3 + b4)
  OBVIOUS
<1>3. q[1] \in Int /\ q[2] \in Int /\ q[5] \in Int /\ q[2] + q[3] \in Int /\ Pitch(q) \in Int
  BY AnglesType
<1>4. HalfTurn(c1, q[1]) /\ (Cos(Pitch(q)) = 0 => HalfTurn(c5, q[5]))
  BY <1>3, Turned
<1>5. Mirrored(c2 + c3 + c4, Pitch(q))
  <2> DEFINE b == b2 + b3 + b4
             o == Pitch(q)
  <2>1. b \in Int /\ o \in Int /\ Same(b, o)
    BY <1>3
  <2> HIDE DEF b, o
  <2>2. Mirrored(-b, o)
    BY <2>1, MirroredNegation
  <2> QED BY <1>2, <2>2 DEF b, o
<1>6. \/ Mirrored(c2, q[2]) /\ Mirrored(c2 + c3, q[2] + q[3])
      \/ Mirrored(c2, q[2] + q[3]) /\ Mirrored(c2 + c3, q[2])
  <2> DEFINE b == b2 + b3
             u == q[2]
             v == q[2] + q[3]
  <2>1. b \in Int /\ b2 \in Int /\ u \in Int /\ v \in Int
    BY <1>3
  <2>2. (Same(b2, u) /\ Same(b, v)) \/ (Same(b2, v) /\ Same(b, u))
    BY DEF Elbows
  <2> HIDE DEF b, u, v
  <2>3. (Mirrored(-b2, u) /\ Mirrored(-b, v)) \/ (Mirrored(-b2, v) /\ Mirrored(-b, u))
    <3>1. CASE Same(b2, u) /\ Same(b, v)
      BY <2>1, <3>1, MirroredNegation
    <3>2. CASE Same(b2, v) /\ Same(b, u)
      BY <2>1, <3>2, MirroredNegation
    <3> QED BY <2>2, <3>1, <3>2
  <2> QED BY <1>2, <2>3 DEF b, u, v
<1> HIDE DEF c1, c2, c4, c5
<1>7. /\ Angles(n) /\ Same(n[1], c1) /\ Same(n[2], c2) /\ Same(n[5], c5)
      /\ Same(n[2] + n[3], c2 + c3) /\ Same(Pitch(n), c2 + c3 + c4)
  BY <1>1, Stored
<1> HIDE DEF n
<1>8. HalfTurn(n[1], q[1]) /\ Mirrored(Pitch(n), Pitch(q))
          /\ (Cos(Pitch(q)) = 0 => HalfTurn(n[5], q[5]))
  BY <1>4, <1>5, <1>7 DEF Same, HalfTurn, Mirrored
<1>9. \/ Mirrored(n[2], q[2]) /\ Mirrored(n[2] + n[3], q[2] + q[3])
      \/ Mirrored(n[2], q[2] + q[3]) /\ Mirrored(n[2] + n[3], q[2])
  BY <1>6, <1>7 DEF Same, Mirrored
<1>10. Forward(n, 2) = -Forward(q, 2) /\ Upward(n, 2) = Upward(q, 2)
  BY <1>7, <1>8, <1>9, ReversedSums
<1>11. Brings(n, q)
  BY <1>7, <1>8, <1>10, ReversedPose
<1> QED BY <1>11 DEF n, c1, c2, c4, c5

---------------------------------------------------------------------------
(* The elbow triangle of the inverse kinematics, stretched and bent.       *)

(* The elbow triangle of Solve: W and H are how far forward and up it reaches. *)
Len2(W, H) == H * H + W * W
Ct2(W, H) == (Len2(W, H) - A1 * A1 - A2 * A2) \div (2 * A1 * A2)
St2(W, H) == 1 - Ct2(W, H)
T1(W, H, e) == Atan2(((A1 + A2 * Ct2(W, H)) * W - e * A2 * St2(W, H) * H) \div Len2(W, H),
                     ((A1 + A2 * Ct2(W, H)) * H + e * A2 * St2(W, H) * W) \div Len2(W, H))
T2(W, H) == Atan2(St2(W, H), Ct2(W, H))

(* The divisions of the elbow triangle leave no remainder.                 *)
LEMMA Divided ==
  /\ \A k \in {-1, 0, 1} : (64 * k) \div 64 = k /\ (32 * k) \div 32 = k
  /\ 32 \div 32 = 1 /\ 0 \div 32 = 0
OBVIOUS

(* Atan2 finds the angle of a sine and a cosine.                           *)
LEMMA AngleFound ==
  ASSUME NEW k \in Int
  PROVE  Atan2(Sin(k), Cos(k)) \in Int /\ Same(Atan2(Sin(k), Cos(k)), k)
<1>1. 1 \in Int /\ 1 > 0 /\ 1 * Sin(k) = Sin(k) /\ 1 * Cos(k) = Cos(k)
  BY SinType
<1> DEFINE r == 1
<1>2. r \in Int /\ r > 0 /\ r * Sin(k) = Sin(k) /\ r * Cos(k) = Cos(k)
  BY <1>1
<1> HIDE DEF r
<1>3. /\ Atan2(r * Sin(k), r * Cos(k)) \in -1 .. 2
      /\ Sin(Atan2(r * Sin(k), r * Cos(k))) = Sin(k)
      /\ Cos(Atan2(r * Sin(k), r * Cos(k))) = Cos(k)
  BY <1>2, SameAngle
<1>4. \A t \in -1 .. 2 : t \in Int
  OBVIOUS
<1> QED BY <1>2, <1>3, <1>4 DEF Same

(* A stretched arm: both elbows are the same.                              *)
LEMMA Stretched ==
  ASSUME NEW q, Angles(q), Cos(q[3]) = 1,
         NEW W, W = A1 * Sin(q[2]) + A2 * Sin(q[2] + q[3]),
         NEW H, H = A1 * Cos(q[2]) + A2 * Cos(q[2] + q[3]),
         NEW e \in {-1, 1}
  PROVE  /\ Len2(W, H) = 64 /\ T1(W, H, e) \in Int /\ T2(W, H) = 0
         /\ Elbows(T1(W, H, e), T1(W, H, e), q)
<1> DEFINE a == q[2]
           b == q[2] + q[3]
<1>1. a \in Int /\ b \in Int /\ q[3] \in Int
  BY AnglesType
<1>2. Sin(q[3]) = 0
  BY <1>1, Quarters
<1>3. Sin(b) = Sin(a) /\ Cos(b) = Cos(a) /\ Sin(a) \in {-1, 0, 1} /\ Cos(a) \in {-1, 0, 1}
  <2>1. Sin(a + q[3]) = Sin(a) * Cos(q[3]) + Cos(a) * Sin(q[3])
            /\ Cos(a + q[3]) = Cos(a) * Cos(q[3]) - Sin(a) * Sin(q[3])
    <3> HIDE DEF a
    <3> QED BY <1>1, SineOfSum
  <2>2. Sin(a) \in {-1, 0, 1} /\ Cos(a) \in {-1, 0, 1}
    BY <1>1, Quarters
  <2> HIDE DEF a
  <2>3. Sin(a + q[3]) = Sin(a) /\ Cos(a + q[3]) = Cos(a)
    BY <1>2, <2>1, <2>2
  <2> QED BY <2>2, <2>3 DEF a
<1>4. W = 8 * Sin(a) /\ H = 8 * Cos(a)
  <2> HIDE DEF a, b
  <2>1. W = 4 * Sin(a) + 4 * Sin(a) /\ H = 4 * Cos(a) + 4 * Cos(a)
    BY <1>3 DEF a, b, A1, A2
  <2> QED BY <1>3, <2>1
<1>5. Sin(a) * Sin(a) + Cos(a) * Cos(a) = 1
  BY <1>1, Squares
<1> HIDE DEF a, b
<1> DEFINE s == Sin(a)
           c == Cos(a)
<1>6. s \in {-1, 0, 1} /\ c \in {-1, 0, 1} /\ s \in Int /\ c \in Int /\ s * s + c * c = 1
          /\ W = 8 * s /\ H = 8 * c
  BY <1>3, <1>4, <1>5
<1>7. Same(Atan2(s, c), a) /\ Atan2(s, c) \in Int
  BY <1>1, AngleFound
<1> HIDE DEF s, c
<1>8. Len2(W, H) = 64
  <2>1. (8 * c) * (8 * c) + (8 * s) * (8 * s) = 64 * (s * s + c * c)
    BY <1>6
  <2> QED BY <1>6, <2>1 DEF Len2
<1>9. Ct2(W, H) = 1 /\ St2(W, H) = 0
  BY <1>8, Divided DEF Ct2, St2, A1, A2
<1>10. T2(W, H) = 0
  BY <1>9 DEF T2, Atan2
<1>11. /\ (A1 + A2 * 1) * W - e * A2 * 0 * H = 64 * s
       /\ (A1 + A2 * 1) * H + e * A2 * 0 * W = 64 * c
  BY <1>6 DEF A1, A2
<1>12. T1(W, H, e) = Atan2((64 * s) \div 64, (64 * c) \div 64)
  BY <1>8, <1>9, <1>11 DEF T1
<1>13. T1(W, H, e) = Atan2(s, c)
  BY <1>6, <1>12, Divided
<1>14. T1(W, H, e) \in Int /\ Same(T1(W, H, e), a) /\ Same(T1(W, H, e), b)
  <2>1. Same(Atan2(s, c), a) /\ Atan2(s, c) \in Int /\ Sin(b) = Sin(a) /\ Cos(b) = Cos(a)
    BY <1>3, <1>7
  <2> QED BY <1>13, <2>1 DEF Same
<1> QED BY <1>8, <1>10, <1>14 DEF Elbows, a, b

(* The length of the sum of two vectors of length 4.                       *)
LEMMA Spread ==
  ASSUME NEW c \in Int, NEW d \in Int, NEW s \in Int, NEW t \in Int
  PROVE  (4 * c + 4 * d) * (4 * c + 4 * d) + (4 * s + 4 * t) * (4 * s + 4 * t)
           = 16 * (s * s + c * c) + 16 * (t * t + d * d) + 32 * (c * d + s * t)
OBVIOUS

(* A bent arm: the elbow is up or down, a quarter turn either way.         *)
LEMMA Bent ==
  ASSUME NEW q, Angles(q), Cos(q[3]) = 0,
         NEW W, W = A1 * Sin(q[2]) + A2 * Sin(q[2] + q[3]),
         NEW H, H = A1 * Cos(q[2]) + A2 * Cos(q[2] + q[3]),
         NEW e \in {-1, 1}
  PROVE  /\ Len2(W, H) = 32 /\ T1(W, H, e) \in Int /\ T2(W, H) = 1
         /\ Elbows(T1(W, H, e), T1(W, H, e) + e, q)
<1> DEFINE a == q[2]
           b == q[2] + q[3]
           k == Sin(q[3])
<1>1. a \in Int /\ b \in Int /\ q[3] \in Int /\ e \in Int
  BY AnglesType
<1>2. k \in {-1, 1} /\ k \in Int
  BY <1>1, Quarters
<1>3. Sin(a) \in {-1, 0, 1} /\ Cos(a) \in {-1, 0, 1} /\ Sin(a) \in Int /\ Cos(a) \in Int
  BY <1>1, Quarters
<1>4. Sin(b) = Cos(a) * k /\ Cos(b) = -(Sin(a) * k)
  <2>1. Sin(a + q[3]) = Sin(a) * Cos(q[3]) + Cos(a) * Sin(q[3])
            /\ Cos(a + q[3]) = Cos(a) * Cos(q[3]) - Sin(a) * Sin(q[3])
    <3> HIDE DEF a
    <3> QED BY <1>1, SineOfSum
  <2> HIDE DEF a, k
  <2>2. \A s, c, t \in Int : s * 0 + c * t = c * t /\ c * 0 - s * t = -(s * t)
    OBVIOUS
  <2>3. Sin(a + q[3]) = Cos(a) * k /\ Cos(a + q[3]) = -(Sin(a) * k)
    <3>1. Sin(a) * 0 + Cos(a) * k = Cos(a) * k /\ Cos(a) * 0 - Sin(a) * k = -(Sin(a) * k)
      BY <1>2, <1>3, <2>2
    <3> QED BY <2>1, <3>1 DEF k
  <2> QED BY <2>3 DEF a
<1>5. W = 4 * Sin(a) + 4 * Sin(b) /\ H = 4 * Cos(a) + 4 * Cos(b)
  BY DEF a, b, A1, A2
<1>6. Sin(a) * Sin(a) + Cos(a) * Cos(a) = 1
  BY <1>1, Squares
<1>7. /\ Same(Atan2(Sin(a), Cos(a)), a) /\ Atan2(Sin(a), Cos(a)) \in Int
      /\ Same(Atan2(Sin(b), Cos(b)), b) /\ Atan2(Sin(b), Cos(b)) \in Int
  BY <1>1, AngleFound
<1>8. Same(k, q[3]) /\ Same(-k, -q[3]) /\ b = a + q[3] /\ a = b + (-q[3]) /\ -q[3] \in Int
  <2>1. /\ Sin(1) = 1 /\ Cos(1) = 0 /\ Sin(-1) = -1 /\ Cos(-1) = 0
    <3>1. Sin(1) = 1 /\ Cos(1) = 0
      BY SineOf
    <3>2. Cos(-1) = Cos(1) /\ Sin(-1) = -Sin(1)
      BY Quarters
    <3> QED BY <3>1, <3>2
  <2>2. Same(k, q[3])
    <3>1. CASE k = 1
      <4>1. Sin(q[3]) = 1
        BY <3>1
      <4> HIDE DEF k
      <4> QED BY <2>1, <3>1, <4>1 DEF Same
    <3>2. CASE k = -1
      <4>1. Sin(q[3]) = -1
        BY <3>2
      <4> HIDE DEF k
      <4> QED BY <2>1, <3>2, <4>1 DEF Same
    <3> QED BY <1>2, <3>1, <3>2
  <2> HIDE DEF k
  <2>3. Same(-k, -q[3])
    BY <1>1, <1>2, <2>2, SameNegation
  <2> QED BY <1>1, <2>2, <2>3
<1> HIDE DEF a, b, k
<1> DEFINE s == Sin(a)
           c == Cos(a)
           sb == Sin(b)
           cb == Cos(b)
<1>9. /\ s \in {-1, 0, 1} /\ c \in {-1, 0, 1} /\ s \in Int /\ c \in Int /\ s * s + c * c = 1
      /\ sb = c * k /\ cb = -(s * k) /\ W = 4 * s + 4 * sb /\ H = 4 * c + 4 * cb
  BY <1>3, <1>4, <1>5, <1>6
<1>10. /\ Same(Atan2(s, c), a) /\ Atan2(s, c) \in Int /\ Same(Atan2(sb, cb), b)
       /\ Atan2(sb, cb) \in Int
  BY <1>7
<1> HIDE DEF s, c, sb, cb
<1>11. sb \in {-1, 0, 1} /\ cb \in {-1, 0, 1} /\ sb \in Int /\ cb \in Int
  BY <1>2, <1>9
<1>12. k * k = 1
  BY <1>2
<1>13. sb * sb + cb * cb = 1 /\ c * cb + s * sb = 0
  <2>1. sb * sb + cb * cb = (k * k) * (s * s + c * c)
    BY <1>2, <1>9
  <2>2. c * cb + s * sb = 0
    BY <1>2, <1>9
  <2> QED BY <1>9, <1>12, <2>1, <2>2
<1>14. Len2(W, H) = 32
  <2>0. c \in Int /\ cb \in Int /\ s \in Int /\ sb \in Int
    BY <1>9, <1>11
  <2>1. (4 * c + 4 * cb) * (4 * c + 4 * cb) + (4 * s + 4 * sb) * (4 * s + 4 * sb)
           = 16 * (s * s + c * c) + 16 * (sb * sb + cb * cb) + 32 * (c * cb + s * sb)
    BY <2>0, Spread
  <2> QED BY <1>9, <1>13, <2>1 DEF Len2
<1>15. Ct2(W, H) = 0 /\ St2(W, H) = 1
  BY <1>14, Divided DEF Ct2, St2, A1, A2
<1>16. T2(W, H) = 1
  BY <1>15 DEF T2, Atan2
<1>17. T1(W, H, e) = Atan2((4 * W - e * 4 * H) \div 32, (4 * H + e * 4 * W) \div 32)
  <2>1. W \in Int /\ H \in Int
    BY <1>9, <1>11
  <2>2. /\ (A1 + A2 * 0) * W - e * A2 * 1 * H = 4 * W - e * 4 * H
        /\ (A1 + A2 * 0) * H + e * A2 * 1 * W = 4 * H + e * 4 * W
    BY <1>1, <2>1 DEF A1, A2
  <2> QED BY <1>14, <1>15, <2>2 DEF T1
<1>18. CASE e = k
  <2>1. 4 * W - e * 4 * H = 32 * s /\ 4 * H + e * 4 * W = 32 * c
    <3>1. CASE k = 1
      BY <3>1, <1>9, <1>11, <1>18
    <3>2. CASE k = -1
      BY <3>2, <1>9, <1>11, <1>18
    <3> QED BY <1>2, <3>1, <3>2
  <2>2. T1(W, H, e) = Atan2(s, c)
    BY <1>9, <1>17, <2>1, Divided
  <2> DEFINE t == Atan2(s, c)
  <2>3. t \in Int /\ Same(t, a) /\ a \in Int /\ k \in Int /\ q[3] \in Int /\ Same(k, q[3])
    BY <1>1, <1>2, <1>8, <1>10
  <2> HIDE DEF t
  <2>4. Same(t + k, a + q[3])
    BY <2>3, SameSum
  <2> QED BY <1>8, <1>14, <1>16, <1>18, <2>2, <2>3, <2>4 DEF Elbows, a, b, t
<1>19. CASE e = -k
  <2>1. 4 * W - e * 4 * H = 32 * sb /\ 4 * H + e * 4 * W = 32 * cb
    <3>1. CASE k = 1
      BY <3>1, <1>9, <1>11, <1>19
    <3>2. CASE k = -1
      BY <3>2, <1>9, <1>11, <1>19
    <3> QED BY <1>2, <3>1, <3>2
  <2>2. T1(W, H, e) = Atan2(sb, cb)
    BY <1>11, <1>17, <2>1, Divided
  <2> DEFINE t == Atan2(sb, cb)
             m == -k
             n == -q[3]
  <2>3. t \in Int /\ Same(t, b) /\ b \in Int /\ m \in Int /\ n \in Int /\ Same(m, n)
    BY <1>1, <1>2, <1>8, <1>10
  <2> HIDE DEF t, m, n
  <2>4. Same(t + m, b + n)
    BY <2>3, SameSum
  <2> QED BY <1>8, <1>14, <1>16, <1>19, <2>2, <2>3, <2>4 DEF Elbows, a, b, t, m, n
<1> QED BY <1>2, <1>18, <1>19

---------------------------------------------------------------------------
(* The Euler angles of a hand, and the angles of its triangle.             *)

(* How high the sides of the hand point. *)
LEMMA HandSides ==
  ASSUME NEW q, Angles(q)
  PROVE  Hand(q).x[3] = -(Sin(Pitch(q)) * Cos(q[5])) /\ Hand(q).y[3] = Sin(Pitch(q)) * Sin(q[5])
<1> DEFINE o == Pitch(q)
           c == Cos(q[5])
           s == Sin(q[5])
<1>1. q[1] \in Int /\ q[5] \in Int /\ o \in Int
  BY AnglesType
<1>2. c \in Int /\ s \in Int /\ Sin(o) \in Int /\ Cos(o) \in Int
  BY <1>1, SinType
<1>3. Hand(q) \in Frames /\ <<1, 0, 0>> \in Vectors /\ <<0, 1, 0>> \in Vectors
  BY HandPosition, RigidType, VectorMake
<1>4. Hand(q).x = Turn(Hand(q), <<1, 0, 0>>) /\ Hand(q).y = Turn(Hand(q), <<0, 1, 0>>)
  BY <1>3, UnitTurns
<1>5. /\ Turn(Hand(q), <<1, 0, 0>>)
           = Turn(Rotation(ez, q[1]),
               Turn(Rotation(ey, o), Turn(Rotation(ez, q[5]), <<1, 0, 0>>)))
      /\ Turn(Hand(q), <<0, 1, 0>>)
           = Turn(Rotation(ez, q[1]),
               Turn(Rotation(ey, o), Turn(Rotation(ez, q[5]), <<0, 1, 0>>)))
  BY <1>3, HandPosition
<1>6. Turn(Rotation(ez, q[5]), <<1, 0, 0>>) = <<c, s, 0>>
          /\ Turn(Rotation(ez, q[5]), <<0, 1, 0>>) = <<-s, c, 0>>
  <2>1. Spun(q[5], <<1, 0, 0>>) = <<c * 1 - s * 0, s * 1 + c * 0, 0>>
            /\ Spun(q[5], <<0, 1, 0>>) = <<c * 0 - s * 1, s * 0 + c * 1, 0>>
    BY DEF Spun
  <2>2. Turn(Rotation(ez, q[5]), <<1, 0, 0>>) = Spun(q[5], <<1, 0, 0>>)
            /\ Turn(Rotation(ez, q[5]), <<0, 1, 0>>) = Spun(q[5], <<0, 1, 0>>)
    BY <1>1, <1>3, SpunAboutZ
  <2>3. c * 1 - s * 0 = c /\ s * 1 + c * 0 = s /\ c * 0 - s * 1 = -s /\ s * 0 + c * 1 = c
    <3> HIDE DEF c, s
    <3> QED BY <1>2
  <2> QED BY <2>1, <2>2, <2>3
<1> HIDE DEF c, s, o
<1>7. ASSUME NEW x \in Int, NEW y \in Int
      PROVE  Turn(Rotation(ez, q[1]), Turn(Rotation(ey, o), <<x, y, 0>>))[3] = -(Sin(o) * x)
  <2> DEFINE X == Cos(o) * x + Sin(o) * 0
             Z == Cos(o) * 0 - Sin(o) * x
  <2>1. X \in Int /\ Z \in Int /\ Z = -(Sin(o) * x)
    BY <1>2
  <2>2. Turn(Rotation(ey, o), <<x, y, 0>>) = <<X, y, Z>>
    <3>1. 0 \in Int
      OBVIOUS
    <3> QED BY <1>1, <3>1, TurnAboutY
  <2> DEFINE r == <<X, y, Z>>
  <2> HIDE DEF X, Z
  <2>3. r \in Vectors /\ r[3] = Z
    BY <2>1, VectorMake
  <2> HIDE DEF r
  <2>4. Turn(Rotation(ez, q[1]), r) = Spun(q[1], r)
    BY <1>1, <2>3, SpunAboutZ
  <2>5. Spun(q[1], r)[3] = Z
    BY <2>3 DEF Spun
  <2> QED BY <2>1, <2>2, <2>4, <2>5 DEF r
<1>8. -s \in Int /\ -(Sin(o) * (-s)) = Sin(o) * s
  BY <1>2
<1>9. /\ Turn(Rotation(ez, q[1]), Turn(Rotation(ey, o), <<c, s, 0>>))[3] = -(Sin(o) * c)
      /\ Turn(Rotation(ez, q[1]), Turn(Rotation(ey, o), <<-s, c, 0>>))[3] = -(Sin(o) * (-s))
  BY <1>2, <1>7, <1>8
<1> QED BY <1>4, <1>5, <1>6, <1>8, <1>9 DEF c, s, o

(* DecodeEulerYZ: the pitch of the hand, and its roll when it is level. *)
LEMMA Decoded ==
  ASSUME NEW q, Angles(q), Pitch(q) % 4 \in 0 .. 2
  PROVE  /\ DecodeEulerYZ(Hand(q))[1] \in Int /\ DecodeEulerYZ(Hand(q))[2] \in Int
         /\ Same(DecodeEulerYZ(Hand(q))[1], Pitch(q))
         /\ Cos(Pitch(q)) = 0 => Same(DecodeEulerYZ(Hand(q))[2], q[5])
<1> DEFINE o == Pitch(q)
           F == Hand(q)
<1>1. o \in Int /\ q[5] \in Int /\ F.z[3] = Cos(o)
  BY AnglesType, Upright
<1>2. /\ Sin(0) = 0 /\ Cos(0) = 1 /\ Sin(1) = 1 /\ Cos(1) = 0 /\ Sin(2) = 0 /\ Cos(2) = -1
  BY SineOf
<1>3. F.x[3] = -(Sin(o) * Cos(q[5])) /\ F.y[3] = Sin(o) * Sin(q[5])
  BY HandSides
<1> HIDE DEF F
<1>4. CASE o % 4 = 0
  <2>1. Sin(o) = 0 /\ Cos(o) = 1
    BY <1>1, <1>4, SineOf
  <2>2. DecodeEulerYZ(F) = <<0, 0>>
    BY <1>1, <2>1 DEF DecodeEulerYZ
  <2> HIDE DEF o
  <2> QED BY <1>2, <2>1, <2>2 DEF Same, F, o
<1>5. CASE o % 4 = 2
  <2>1. Sin(o) = 0 /\ Cos(o) = -1
    BY <1>1, <1>5, SineOf
  <2>2. DecodeEulerYZ(F) = <<2, 0>>
    BY <1>1, <2>1 DEF DecodeEulerYZ
  <2> HIDE DEF o
  <2> QED BY <1>2, <2>1, <2>2 DEF Same, F, o
<1>6. CASE o % 4 = 1
  <2>1. Sin(o) = 1 /\ Cos(o) = 0
    BY <1>1, <1>6, SineOf
  <2>2. F.y[3] = Sin(q[5]) /\ -F.x[3] = Cos(q[5])
    <3>1. Sin(q[5]) \in Int /\ Cos(q[5]) \in Int
      BY <1>1, SinType
    <3>2. \A s, c \in Int : 1 * s = s /\ -(-(1 * c)) = c
      OBVIOUS
    <3> HIDE DEF o
    <3> QED BY <1>3, <2>1, <3>1, <3>2
  <2>3. DecodeEulerYZ(F) = <<1, Atan2(Sin(q[5]), Cos(q[5]))>>
    BY <1>1, <2>1, <2>2 DEF DecodeEulerYZ
  <2>4. Atan2(Sin(q[5]), Cos(q[5])) \in Int /\ Same(Atan2(Sin(q[5]), Cos(q[5])), q[5])
    BY <1>1, AngleFound
  <2> DEFINE t == Atan2(Sin(q[5]), Cos(q[5]))
  <2> HIDE DEF o, t
  <2>5. DecodeEulerYZ(F)[1] = 1 /\ DecodeEulerYZ(F)[2] = t /\ t \in Int /\ Same(t, q[5])
    BY <2>3, <2>4 DEF t
  <2>6. Same(1, o)
    BY <1>2, <2>1 DEF Same
  <2> QED BY <2>5, <2>6 DEF F, o
<1>7. o % 4 = 0 \/ o % 4 = 1 \/ o % 4 = 2
  <2>1. o % 4 \in 0 .. 2
    OBVIOUS
  <2> HIDE DEF o
  <2> QED BY <2>1
<1> QED BY <1>4, <1>5, <1>6, <1>7

(* How far forward and up the two arms reach.                              *)
Wide(q) == A1 * Sin(q[2]) + A2 * Sin(q[2] + q[3])
High(q) == A1 * Cos(q[2]) + A2 * Cos(q[2] + q[3])

LEMMA Triangle ==
  ASSUME NEW q, Angles(q), Cos(q[3]) >= 0
  PROVE  /\ Len2(Wide(q), High(q)) \in {32, 64} /\ T2(Wide(q), High(q)) \in Int
         /\ T1(Wide(q), High(q), 1) \in Int /\ T1(Wide(q), High(q), -1) \in Int
         /\ Elbows(T1(Wide(q), High(q), 1), T1(Wide(q), High(q), 1) + T2(Wide(q), High(q)), q)
         /\ Elbows(T1(Wide(q), High(q), -1), T1(Wide(q), High(q), -1)
                + (-T2(Wide(q), High(q))), q)
<1> DEFINE W == Wide(q)
           H == High(q)
<1>1. W = A1 * Sin(q[2]) + A2 * Sin(q[2] + q[3]) /\ H = A1 * Cos(q[2]) + A2 * Cos(q[2] + q[3])
  BY DEF Wide, High
<1> HIDE DEF W, H
<1>2. q[3] \in Int
  BY AnglesType
<1>3. CASE Cos(q[3]) = 1
  <2>1. \A e \in {-1, 1} : /\ Len2(W, H) = 64 /\ T1(W, H, e) \in Int /\ T2(W, H) = 0
                            /\ Elbows(T1(W, H, e), T1(W, H, e), q)
    BY <1>1, <1>3, Stretched
  <2>2. /\ Len2(W, H) = 64 /\ T2(W, H) = 0 /\ T1(W, H, 1) \in Int /\ T1(W, H, -1) \in Int
        /\ Elbows(T1(W, H, 1), T1(W, H, 1), q) /\ Elbows(T1(W, H, -1), T1(W, H, -1), q)
    BY <2>1
  <2>3. T1(W, H, 1) + T2(W, H) = T1(W, H, 1) /\ T1(W, H, -1) + (-T2(W, H)) = T1(W, H, -1)
    BY <2>2
  <2> QED BY <2>2, <2>3 DEF W, H
<1>4. CASE Cos(q[3]) = 0
  <2>1. \A e \in {-1, 1} : /\ Len2(W, H) = 32 /\ T1(W, H, e) \in Int /\ T2(W, H) = 1
                            /\ Elbows(T1(W, H, e), T1(W, H, e) + e, q)
    BY <1>1, <1>4, Bent
  <2>2. /\ Len2(W, H) = 32 /\ T2(W, H) = 1 /\ T1(W, H, 1) \in Int /\ T1(W, H, -1) \in Int
        /\ Elbows(T1(W, H, 1), T1(W, H, 1) + 1, q) /\ Elbows(T1(W, H, -1), T1(W, H, -1) + (-1), q)
    BY <2>1
  <2>3. -T2(W, H) = -1
    BY <2>2
  <2> QED BY <2>2, <2>3 DEF W, H
<1>5. Cos(q[3]) = 1 \/ Cos(q[3]) = 0
  BY <1>2, Quarters
<1> QED BY <1>3, <1>4, <1>5

---------------------------------------------------------------------------
(* The four poses computed all bring the hand where it was asked.          *)

(* The poses given to the choice: each brings the hand to where it is at q. *)
Reaching(poses, q) ==
  /\ DOMAIN poses \subseteq 1 .. 4
  /\ \A i \in DOMAIN poses :
        poses[i].q \in [1 .. 5 -> Int] /\ Brings(poses[i].q, q) /\ CheckJointsInLimits(poses[i])
  /\ \A i, j \in DOMAIN poses : i # j /\ poses[i].orient = poses[j].orient
         => poses[i].elb # poses[j].elb

(* configure: each pose within limits brings the hand where it is at q,    *)
(* and two of the same side have different elbows.                         *)
LEMMA AllReach ==
  ASSUME NEW q, Angles(q),
         NEW b1 \in Int, NEW u \in Int, NEW d \in Int, NEW t \in Int, NEW u4 \in Int,
             NEW d4 \in Int, NEW b5 \in Int,
         Same(b1, q[1]), Cos(Pitch(q)) = 0 => Same(b5, q[5]),
         Elbows(u, u + t, q), Elbows(d, d + (-t), q),
         Same(u + t + u4, Pitch(q)), Same(d + (-t) + d4, Pitch(q))
  PROVE  Reaching(Configure(b1, u, d, t, u4, d4, b5), q)
<1> DEFINE t3 == -t
           s1 == StoreAngles(<<b1, u, t, u4, b5>>, "FORWARD", "UP")
           s2 == StoreAngles(<<b1, d, t3, d4, b5>>, "FORWARD", "DOWN")
           s3 == StoreAngles(<<b1 + 2, -u, t3, -u4, b5 + 2>>, "REVERSED", "UP")
           s4 == StoreAngles(<<b1 + 2, -d, t, -d4, b5 + 2>>, "REVERSED", "DOWN")
           all == <<s1, s2, s3, s4>>
           poses == Valid(all)
<1>1. Configure(b1, u, d, t, u4, d4, b5) = poses
  BY DEF Configure
<1>2. t3 \in Int /\ t3 = -t /\ t = -t3
  OBVIOUS
<1>3. Elbows(d, d + t3, q) /\ Same(d + t3 + d4, Pitch(q))
  OBVIOUS
<1> HIDE DEF t3
<1>4. Brings(s1.q, q)
  BY StoredForward
<1>5. Brings(s2.q, q)
  BY <1>2, <1>3, StoredForward
<1>6. Brings(s3.q, q)
  BY <1>2, StoredReversed
<1>7. Brings(s4.q, q)
  BY <1>2, <1>3, StoredReversed
<1>8. s1.q \in [1 .. 5 -> Int] /\ s2.q \in [1 .. 5 -> Int]
  BY <1>2, Stored
<1>9. s3.q \in [1 .. 5 -> Int] /\ s4.q \in [1 .. 5 -> Int]
  <2> DEFINE v1 == b1 + 2
             v2 == -u
             v4 == -u4
             v5 == b5 + 2
             w2 == -d
             w4 == -d4
  <2>1. v1 \in Int /\ v2 \in Int /\ v4 \in Int /\ v5 \in Int /\ w2 \in Int /\ w4 \in Int
    OBVIOUS
  <2> HIDE DEF v1, v2, v4, v5, w2, w4
  <2>2. /\ StoreAngles(<<v1, v2, t3, v4, v5>>, "REVERSED", "UP").q \in [1 .. 5 -> Int]
        /\ StoreAngles(<<v1, w2, t, w4, v5>>, "REVERSED", "DOWN").q \in [1 .. 5 -> Int]
    BY <1>2, <2>1, Stored
  <2> QED BY <2>2 DEF v1, v2, v4, v5, w2, w4
<1>10. /\ s1.orient = "FORWARD" /\ s2.orient = "FORWARD" /\ s3.orient = "REVERSED"
       /\ s4.orient = "REVERSED"
       /\ s1.elb = "UP" /\ s2.elb = "DOWN" /\ s3.elb = "UP" /\ s4.elb = "DOWN"
  BY DEF StoreAngles
<1> HIDE DEF s1, s2, s3, s4
<1>11. /\ DOMAIN poses \subseteq 1 .. 4
       /\ \A i \in DOMAIN poses : poses[i] = all[i] /\ CheckJointsInLimits(all[i])
  BY DEF Valid
<1>12. \A i \in 1 .. 4 : i = 1 \/ i = 2 \/ i = 3 \/ i = 4
  OBVIOUS
<1>13. all[1] = s1 /\ all[2] = s2 /\ all[3] = s3 /\ all[4] = s4
  OBVIOUS
<1> HIDE DEF poses, all
<1>14. ASSUME NEW i \in DOMAIN poses
       PROVE  poses[i].q \in [1 .. 5 -> Int] /\ Brings(poses[i].q, q)
                  /\ CheckJointsInLimits(poses[i])
  BY <1>4, <1>5, <1>6, <1>7, <1>8, <1>9, <1>11, <1>12, <1>13
<1>15. ASSUME NEW i \in DOMAIN poses, NEW j \in DOMAIN poses, i # j,
                  poses[i].orient = poses[j].orient
       PROVE  poses[i].elb # poses[j].elb
  BY <1>10, <1>11, <1>12, <1>13, <1>15
<1> QED BY <1>1, <1>11, <1>14, <1>15 DEF Reaching

(* The hand is within the length of the arm. *)
LEMMA Within ==
  ASSUME NEW q, Angles(q)
  PROVE  Forward(q, 2) * Forward(q, 2) + Upward(q, 2) * Upward(q, 2) <= 121
<1> DEFINE a == q[2]
           b == q[2] + q[3]
           o == Pitch(q)
<1>1. a \in Int /\ b \in Int /\ o \in Int
  BY AnglesType
<1>2. Forward(q, 2) = 4 * Sin(a) + 4 * Sin(b) + 3 * Sin(o)
          /\ Upward(q, 2) = 4 * Cos(a) + 4 * Cos(b) + 3 * Cos(o)
  BY Reaches DEF A1, A2, A3
<1> HIDE DEF a, b, o
<1>3. ASSUME NEW k \in Int, NEW l \in Int PROVE Cos(k) * Cos(l) + Sin(k) * Sin(l) <= 1
  <2>1. Cos(k - l) = Cos(k) * Cos(l) + Sin(k) * Sin(l)
    BY SineOfDifference
  <2> DEFINE m == k - l
  <2>2. m \in Int
    OBVIOUS
  <2>3. Cos(m) <= 1
    <3> HIDE DEF m
    <3> QED BY <2>2, Quarters
  <2> QED BY <2>1, <2>3
<1> DEFINE sa == Sin(a)
           ca == Cos(a)
           sb == Sin(b)
           cb == Cos(b)
           so == Sin(o)
           co == Cos(o)
<1>4. sa \in Int /\ ca \in Int /\ sb \in Int /\ cb \in Int /\ so \in Int /\ co \in Int
  BY <1>1, SinType
<1>5. sa * sa + ca * ca = 1 /\ sb * sb + cb * cb = 1 /\ so * so + co * co = 1
  BY <1>1, Squares
<1>6. ca * cb + sa * sb <= 1 /\ ca * co + sa * so <= 1 /\ cb * co + sb * so <= 1
  BY <1>1, <1>3
<1> HIDE DEF sa, ca, sb, cb, so, co
<1>7. (4 * sa + 4 * sb + 3 * so) * (4 * sa + 4 * sb + 3 * so)
          + (4 * ca + 4 * cb + 3 * co) * (4 * ca + 4 * cb + 3 * co)
        = 16 * (sa * sa + ca * ca) + 16 * (sb * sb + cb * cb) + 9 * (so * so + co * co)
            + 32 * (ca * cb + sa * sb) + 24 * (ca * co + sa * so) + 24 * (cb * co + sb * so)
  BY <1>4
<1> DEFINE k == ca * cb + sa * sb
           l == ca * co + sa * so
           m == cb * co + sb * so
<1>8. k \in Int /\ l \in Int /\ m \in Int /\ k <= 1 /\ l <= 1 /\ m <= 1
  BY <1>4, <1>6
<1> HIDE DEF k, l, m
<1>9. 16 * 1 + 16 * 1 + 9 * 1 + 32 * k + 24 * l + 24 * m <= 121
  BY <1>8
<1> QED BY <1>2, <1>5, <1>7, <1>9 DEF sa, ca, sb, cb, so, co, k, l, m

(* What a target is made of: the azimuth of the hand is joint 1. *)
LEMMA Azimuth ==
  ASSUME NEW q, Posture(q)
  PROVE  LET p == Hand(q).p
         IN  /\ Atan2(p[2], p[1]) \in Int /\ Same(Atan2(p[2], p[1]), q[1])
             /\ Abs(p[1]) + Abs(p[2]) = Forward(q, 2)
             /\ p[3] - A0 = Upward(q, 2)
<1> DEFINE f == Forward(q, 2)
           u == Upward(q, 2)
           s == Sin(q[1])
           c == Cos(q[1])
<1>1. Angles(q) /\ f \in Int /\ u \in Int /\ f > 0
  <2>1. Angles(q) /\ f > 0
    BY DEF Posture, Angles
  <2> QED BY <2>1, Reaches
<1>2. q[1] \in Int /\ s \in Int /\ c \in Int
  BY <1>1, AnglesType, SinType
<1>3. Hand(q).p = <<c * f, s * f, u + A0>>
  BY <1>1, HandPosition
<1>4. c * f = f * c /\ s * f = f * s /\ (u + A0) - A0 = u
  <2> HIDE DEF f, u, s, c
  <2> QED BY <1>1, <1>2, Lengths
<1>5. Atan2(f * s, f * c) \in Int /\ Same(Atan2(f * s, f * c), q[1])
  <2> HIDE DEF f
  <2>1. Atan2(f * s, f * c) \in -1 .. 2 /\ Sin(Atan2(f * s, f * c)) = s
            /\ Cos(Atan2(f * s, f * c)) = c
    BY <1>1, <1>2, SameAngle
  <2>2. \A t \in -1 .. 2 : t \in Int
    OBVIOUS
  <2> QED BY <2>1, <2>2 DEF Same
<1>6. Abs(c * f) + Abs(s * f) = f
  <2>1. (c = 1 /\ s = 0) \/ (c = 0 /\ s = 1) \/ (c = -1 /\ s = 0) \/ (c = 0 /\ s = -1)
    BY <1>2, Quarters
  <2> HIDE DEF f, s, c
  <2>2. 1 * f = f /\ 0 * f = 0 /\ (-1) * f = -f
    BY <1>1
  <2>3. Abs(f) = f /\ Abs(-f) = f /\ Abs(0) = 0
    BY <1>1 DEF Abs
  <2> QED BY <1>1, <2>1, <2>2, <2>3
<1> DEFINE p == Hand(q).p
<1> HIDE DEF f, u, s, c
<1>7. p[1] = c * f /\ p[2] = s * f /\ p[3] = u + A0
  BY <1>3
<1>8. Atan2(p[2], p[1]) = Atan2(f * s, f * c)
  BY <1>4, <1>7
<1> HIDE DEF p
<1>9. /\ Atan2(p[2], p[1]) \in Int /\ Same(Atan2(p[2], p[1]), q[1])
      /\ Abs(p[1]) + Abs(p[2]) = f
      /\ p[3] - A0 = u
  <2>1. Atan2(p[2], p[1]) \in Int /\ Same(Atan2(p[2], p[1]), q[1])
    BY <1>5, <1>8
  <2>2. Abs(p[1]) + Abs(p[2]) = f
    BY <1>6, <1>7
  <2>3. p[3] - A0 = u
    BY <1>4, <1>7
  <2> QED BY <2>1, <2>2, <2>3
<1> QED BY <1>9 DEF f, u, p

---------------------------------------------------------------------------
(* Inverse kinematics, from the target to the poses.                       *)

(* What Solve answers when it has computed the poses. *)
Answering(poses, guess) ==
  IF DOMAIN poses = {} THEN [kind |-> "out of limits"]
  ELSE [kind |-> "joints", q |-> FindOptimalConfiguration(poses, guess).q, poses |-> poses]

(* invKin: the target is within reach, and the poses computed bring the    *)
(* hand there.                                                             *)
LEMMA AnswerMade ==
  ASSUME NEW q, Posture(q), Cos(q[3]) >= 0, Pitch(q) % 4 \in 0 .. 2, NEW x, NEW guess,
         (IF asibot.hasFrame THEN Compose(x, Invert(asibot.frameTcp)) ELSE x) = Hand(q)
  PROVE  \E poses : Reaching(poses, q) /\ Solve(x, guess) = Answering(poses, guess)
<1> DEFINE F == IF asibot.hasFrame THEN Compose(x, Invert(asibot.frameTcp)) ELSE x
           yz == DecodeEulerYZ(F)
           ozd == Atan2(F.p[2], F.p[1])
           prPd == Abs(F.p[1]) + Abs(F.p[2])
           phPd == F.p[3] - A0
           prWd == prPd - A3 * Sin(yz[1])
           phWd == phPd - A3 * Cos(yz[1])
           len2 == phWd * phWd + prWd * prWd
           ct2 == (len2 - A1 * A1 - A2 * A2) \div (2 * A1 * A2)
           st2 == 1 - ct2
           t1(e) == Atan2(((A1 + A2 * ct2) * prWd - e * A2 * st2 * phWd) \div len2,
                          ((A1 + A2 * ct2) * phWd + e * A2 * st2 * prWd) \div len2)
           t2 == Atan2(st2, ct2)
           poses == Configure(ozd, t1(1), t1(-1), t2, yz[1] - t1(1) - t2, yz[1] - t1(-1)
               + t2, yz[2])
<1>1. Solve(x, guess) =
        IF prPd * prPd + phPd * phPd > (A1 + A2 + A3) * (A1 + A2 + A3)
            \/ len2 > (A1 + A2) * (A1 + A2)
        THEN [kind |-> "out of reach"]
        ELSE Answering(poses, guess)
  BY DEF Solve, Answering
<1>2. Angles(q) /\ F = Hand(q)
  BY DEF Posture, Angles
<1> HIDE DEF F
<1> DEFINE f == Forward(q, 2)
           u == Upward(q, 2)
           W == Wide(q)
           H == High(q)
           o == Pitch(q)
<1>3. /\ ozd \in Int /\ Same(ozd, q[1]) /\ prPd = f /\ phPd = u
      /\ yz[1] \in Int /\ yz[2] \in Int /\ Same(yz[1], o) /\ (Cos(o) = 0 => Same(yz[2], q[5]))
  BY <1>2, Azimuth, Decoded
<1> HIDE DEF ozd, prPd, phPd, yz
<1>4. f = W + A3 * Sin(o) /\ u = H + A3 * Cos(o)
  BY <1>2, Reaches DEF Wide, High
<1>5. W \in Int /\ H \in Int /\ A3 * Sin(o) \in Int /\ A3 * Cos(o) \in Int
  <2>1. /\ Sin(q[2]) \in Int /\ Sin(q[2] + q[3]) \in Int /\ Cos(q[2]) \in Int
        /\ Cos(q[2] + q[3]) \in Int
        /\ Sin(o) \in Int /\ Cos(o) \in Int
    BY <1>2, AnglesType, SinType
  <2> HIDE DEF o
  <2> QED BY <2>1, Lengths DEF Wide, High
<1>6. f * f + u * u <= 121
  BY <1>2, Within
<1> HIDE DEF f, u, W, H, o
<1>7. prWd = W /\ phWd = H
  <2> DEFINE a == A3 * Sin(o)
             b == A3 * Cos(o)
  <2>1. prWd = f - a /\ phWd = u - b
    BY <1>3 DEF Same
  <2> HIDE DEF a, b, prWd, phWd
  <2>2. f = W + a /\ u = H + b /\ a \in Int /\ b \in Int /\ W \in Int /\ H \in Int
    BY <1>4, <1>5 DEF a, b
  <2> QED BY <2>1, <2>2
<1> HIDE DEF prWd, phWd
<1>8. len2 = Len2(W, H)
  BY <1>7 DEF Len2
<1> HIDE DEF len2
<1>9. ct2 = Ct2(W, H)
  BY <1>8 DEF Ct2
<1> HIDE DEF ct2
<1>10. st2 = St2(W, H)
  BY <1>9 DEF St2
<1> HIDE DEF st2
<1>11. t1(1) = T1(W, H, 1) /\ t1(-1) = T1(W, H, -1) /\ t2 = T2(W, H)
  BY <1>7, <1>8, <1>9, <1>10 DEF T1, T2
<1>12. /\ Len2(W, H) \in {32, 64} /\ T2(W, H) \in Int
       /\ T1(W, H, 1) \in Int /\ T1(W, H, -1) \in Int
       /\ Elbows(T1(W, H, 1), T1(W, H, 1) + T2(W, H), q)
       /\ Elbows(T1(W, H, -1), T1(W, H, -1) + (-T2(W, H)), q)
  BY <1>2, Triangle DEF W, H
<1> DEFINE d == t1(1)
           e == t1(-1)
           t == t2
           y == yz[1]
           d4 == y - d - t
           e4 == y - e + t
<1>13. /\ d \in Int /\ e \in Int /\ t \in Int /\ y \in Int
       /\ Elbows(d, d + t, q) /\ Elbows(e, e + (-t), q) /\ Same(y, o)
  BY <1>3, <1>11, <1>12
<1>14. poses = Configure(ozd, d, e, t, d4, e4, yz[2])
  OBVIOUS
<1> HIDE DEF poses
<1> HIDE DEF t1, t2, d, e, t, y
<1>15. d4 \in Int /\ e4 \in Int /\ d + t + d4 = y /\ e + (-t) + e4 = y
  BY <1>13
<1> HIDE DEF d4, e4
<1>16. Reaching(Configure(ozd, d, e, t, d4, e4, yz[2]), q)
  <2> DEFINE b5 == yz[2]
  <2>1. /\ b5 \in Int /\ ozd \in Int /\ Same(ozd, q[1]) /\ (Cos(Pitch(q)) = 0 => Same(b5, q[5]))
        /\ Same(d + t + d4, Pitch(q)) /\ Same(e + (-t) + e4, Pitch(q))
    BY <1>3, <1>13, <1>15 DEF o
  <2> HIDE DEF b5
  <2>2. Reaching(Configure(ozd, d, e, t, d4, e4, b5), q)
    BY <1>2, <1>13, <1>15, <2>1, AllReach
  <2> QED BY <2>2 DEF b5
<1>17. Solve(x, guess) = Answering(poses, guess)
  <2>1. ~(prPd * prPd + phPd * phPd > (A1 + A2 + A3) * (A1 + A2 + A3))
    <3>1. f \in Int /\ u \in Int
      BY <1>2, Reaches DEF f, u
    <3> QED BY <1>3, <1>6, <3>1 DEF A1, A2, A3
  <2>2. ~(len2 > (A1 + A2) * (A1 + A2))
    BY <1>8, <1>12 DEF A1, A2
  <2> QED BY <1>1, <2>1, <2>2
<1> QED BY <1>14, <1>16, <1>17

---------------------------------------------------------------------------
(* The choice among the poses.                                             *)

(* Of at most four numbers one is the least.                               *)
LEMMA SmallestOfFour ==
  ASSUME NEW K, K \subseteq 1 .. 4, K # {}, NEW D, \A i \in K : D[i] \in Int
  PROVE  \E i \in K : \A j \in K : D[i] <= D[j]
<1> DEFINE Upto(n) == {i \in K : i <= n}
           Found1(n) == Upto(n) # {} => \E i \in Upto(n) : \A j \in Upto(n) : D[i] <= D[j]
<1>0. \A i \in K : i \in Int /\ 1 <= i /\ i <= 4
  OBVIOUS
<1>1. Upto(0) = {}
  <2>1. \A i \in Int : 1 <= i => ~(i <= 0)
    OBVIOUS
  <2> QED BY <1>0, <2>1
<1>2. ASSUME NEW n \in 0 .. 3, Found1(n) PROVE Found1(n + 1)
  <2>1. Upto(n + 1) = Upto(n) \cup (K \cap {n + 1})
    <3>1. n \in Int /\ \A i \in Int : i <= n + 1 <=> i <= n \/ i = n + 1
      OBVIOUS
    <3>2. \A i : i \in Upto(n + 1) <=> i \in Upto(n) \cup (K \cap {n + 1})
      <4>1. \A i : i \in Upto(n + 1) <=> i \in K /\ i <= n + 1
        OBVIOUS
      <4>2. \A i : i \in Upto(n) \cup (K \cap {n + 1})
                <=> (i \in K /\ i <= n) \/ (i \in K /\ i = n + 1)
        OBVIOUS
      <4> QED BY <1>0, <3>1, <4>1, <4>2
    <3> HIDE DEF Upto
    <3> QED BY <3>2
  <2>2. CASE n + 1 \notin K
    <3>1. Upto(n + 1) = Upto(n)
      BY <2>1, <2>2
    <3> QED BY <1>2, <3>1
  <2>3. CASE n + 1 \in K /\ Upto(n) = {}
    <3>1. Upto(n + 1) = {n + 1}
      BY <2>1, <2>3
    <3> QED BY <2>3, <3>1
  <2>4. CASE n + 1 \in K /\ Upto(n) # {}
    <3>1. PICK i \in Upto(n) : \A j \in Upto(n) : D[i] <= D[j]
      BY <1>2, <2>4
    <3>2. Upto(n + 1) = Upto(n) \cup {n + 1}
      BY <2>1, <2>4
    <3>3. D[i] \in Int /\ D[n + 1] \in Int /\ \A j \in Upto(n) : D[j] \in Int
      BY <2>4
    <3> HIDE DEF Upto
    <3>4. CASE D[i] <= D[n + 1]
      <4>1. i \in Upto(n + 1) /\ \A j \in Upto(n + 1) : D[i] <= D[j]
        BY <3>1, <3>2, <3>4
      <4> QED BY <4>1
    <3>5. CASE D[n + 1] <= D[i]
      <4>1. n + 1 \in Upto(n + 1) /\ \A j \in Upto(n + 1) : D[n + 1] <= D[j]
        BY <3>1, <3>2, <3>3, <3>5
      <4> QED BY <4>1
    <3> QED BY <3>3, <3>4, <3>5
  <2> QED BY <2>2, <2>3, <2>4
<1>3. Upto(4) = K
  BY <1>0
<1>4. Found1(0)
  BY <1>1
<1> HIDE DEF Found1
<1>5. Found1(0 + 1) /\ 0 + 1 = 1
  BY <1>2, <1>4
<1>6. Found1(1 + 1) /\ 1 + 1 = 2
  BY <1>2, <1>5
<1>7. Found1(2 + 1) /\ 2 + 1 = 3
  BY <1>2, <1>6
<1>8. Found1(3 + 1) /\ 3 + 1 = 4
  BY <1>2, <1>7
<1>9. Found1(4)
  BY <1>8
<1> QED BY <1>3, <1>9 DEF Found1

(* LeastOf finds the least displacement.                                   *)
LEMMA LeastFound ==
  ASSUME NEW poses, NEW guess, NEW K, K \subseteq 1 .. 4, K # {},
         \A i \in K : Displacement(guess, poses[i]) \in Int
  PROVE  /\ LeastOf(K, poses, guess) \in K
         /\ \A j \in K : Displacement(guess,
                poses[LeastOf(K, poses, guess)]) <= Displacement(guess, poses[j])
<1> DEFINE D == [i \in K |-> Displacement(guess, poses[i])]
<1>1. \A i \in K : D[i] = Displacement(guess, poses[i]) /\ D[i] \in Int
  OBVIOUS
<1> HIDE DEF D
<1>2. \E i \in K : \A j \in K : D[i] <= D[j]
  BY <1>1, SmallestOfFour
<1>3. \E i \in K : \A j \in K : Displacement(guess, poses[i]) <= Displacement(guess, poses[j])
  BY <1>1, <1>2
<1> QED BY <1>3 DEF LeastOf

(* Displacements are numbers.                                              *)
LEMMA Measured ==
  ASSUME NEW guess, Posture(guess), NEW pose, pose.q \in [1 .. 5 -> Int]
  PROVE  Displacement(guess, pose) \in Int /\ Travel(guess, pose) \in Int
<1>1. ASSUME NEW i \in 1 .. 5 PROVE GetDiffs(guess, pose)[i] \in Int
  <2>1. guess[i] \in Int /\ pose.q[i] \in Int
    BY DEF Posture
  <2>2. GetDiffs(guess, pose)[i] = Abs(guess[i] - pose.q[i])
    BY DEF GetDiffs
  <2> QED BY <2>1, <2>2 DEF Abs
<1>2. /\ GetDiffs(guess, pose)[1] \in Int /\ GetDiffs(guess, pose)[2] \in Int
      /\ GetDiffs(guess, pose)[3] \in Int
      /\ GetDiffs(guess, pose)[4] \in Int /\ GetDiffs(guess, pose)[5] \in Int
  BY <1>1
<1> QED BY <1>2 DEF Displacement, Travel

(* FindOptimalConfiguration *)
LEMMA PreferredFound ==
  ASSUME NEW poses, NEW q, Reaching(poses, q), DOMAIN poses # {}, NEW guess, Posture(guess)
  PROVE  /\ \E i \in DOMAIN poses : FindOptimalConfiguration(poses, guess) = poses[i]
         /\ Preferred(Answering(poses, guess), guess)
<1> DEFINE D(i) == Displacement(guess, poses[i])
           T(i) == Travel(guess, poses[i])
           dom == DOMAIN poses
           keys == Keys(poses, guess)
           first == LeastOf(keys, poses, guess)
           second == LeastOf(keys \ {first}, poses, guess)
           chosen == FindOptimalConfiguration(poses, guess)
<1>1. dom \subseteq 1 .. 4 /\ \A i \in dom : D(i) \in Int /\ T(i) \in Int
  BY Measured DEF Reaching
<1>2. keys \subseteq dom /\ keys = {i \in dom : \A j \in dom : j < i => D(j) # D(i)}
  BY DEF Keys
<1>3. ASSUME NEW i \in dom PROVE \E k \in keys : D(k) = D(i)
  <2> DEFINE E == {j \in dom : D(j) = D(i)}
             I == [j \in E |-> j]
  <2>1. E \subseteq 1 .. 4 /\ E # {} /\ \A j \in E : I[j] = j /\ I[j] \in Int
    <3>1. E \subseteq 1 .. 4
      BY <1>1
    <3>2. i \in E
      OBVIOUS
    <3> HIDE DEF E
    <3> QED BY <3>1, <3>2
  <2>2. \E k \in E : \A j \in E : I[k] <= I[j]
    <3> HIDE DEF E, I
    <3> QED BY <2>1, SmallestOfFour
  <2>3. PICK k \in E : \A j \in E : I[k] <= I[j]
    BY <2>2
  <2>4. \A j \in E : k <= j
    <3> HIDE DEF E, I
    <3> QED BY <2>1, <2>3
  <2>5. k \in dom /\ D(k) = D(i) /\ k \in Int
    BY <2>1, <2>3
  <2> HIDE DEF D, I
  <2>6. ASSUME NEW j \in dom, j < k PROVE D(j) # D(k)
    <3>1. j \in Int
      BY <1>1
    <3>2. j \notin E
      <4> HIDE DEF E
      <4> QED BY <2>4, <2>5, <2>6, <3>1
    <3> QED BY <2>5, <3>2
  <2>7. k \in keys
    BY <1>2, <2>5, <2>6
  <2> QED BY <2>5, <2>7
<1>4. keys # {} /\ keys \subseteq 1 .. 4 /\ \A k \in keys : Displacement(guess, poses[k]) \in Int
  <2> HIDE DEF keys
  <2>1. keys # {} /\ keys \subseteq 1 .. 4 /\ \A k \in keys : D(k) \in Int
    <3> HIDE DEF D, T
    <3> QED BY <1>1, <1>2, <1>3
  <2> QED BY <2>1
<1> HIDE DEF keys
<1>5. first \in keys /\ \A k \in keys : D(first) <= D(k)
  BY <1>4, LeastFound
<1>6. keys # {first} => second \in keys /\ second # first /\ \A k \in keys : k # first
          => D(second) <= D(k)
  <2> DEFINE K == keys \ {first}
  <2> SUFFICES ASSUME keys # {first}
      PROVE second \in keys /\ second # first /\ \A k \in keys : k # first => D(second) <= D(k)
    OBVIOUS
  <2> HIDE DEF first
  <2>1. K # {} /\ K \subseteq 1 .. 4 /\ \A k \in K : Displacement(guess, poses[k]) \in Int
    BY <1>4, <1>5
  <2>2. second = LeastOf(K, poses, guess)
    OBVIOUS
  <2> HIDE DEF second, K
  <2>3. second \in K /\ \A k \in K : D(second) <= D(k)
    BY <2>1, <2>2, LeastFound
  <2> HIDE DEF D
  <2> QED BY <2>3 DEF K
<1>7. \/ chosen = poses[first]
      \/ /\ chosen = poses[second] /\ keys # {first}
         /\ poses[second].orient = poses[first].orient
         /\ T(second) < T(first) \/ T(second) = T(first)
  BY DEF FindOptimalConfiguration, keys
<1>8. \A i \in dom : D(first) <= D(i)
  <2> HIDE DEF D, first
  <2> QED BY <1>3, <1>5
<1> DEFINE a == Answering(poses, guess)
           all == {poses[i] : i \in dom}
           Less(p, r) == Displacement(guess, p) < Displacement(guess, r)
           least == {p \in all : ~\E r \in all : Less(r, p)}
           Good(pose) == /\ pose.q = a.q
                         /\ \/ pose \in least
                            \/ \E best \in least : /\ best.orient = pose.orient
                                   /\ best.elb # pose.elb
                                                   /\ Travel(guess, pose) <= Travel(guess, best)
                         /\ \A other \in all : Less(other, pose) => other \in least
<1>9. a.q = chosen.q /\ a.poses = poses
  BY DEF Answering
<1>10. Preferred(a, guess) <=> \E pose \in all : Good(pose)
  BY <1>9 DEF Preferred
<1> HIDE DEF chosen, first, second, a
<1>11. first \in dom /\ poses[first] \in all
  BY <1>2, <1>5
<1>12. ASSUME NEW i \in dom, D(i) = D(first) PROVE poses[i] \in least
  <2>1. ASSUME NEW j \in dom PROVE ~Less(poses[j], poses[i])
    <3>1. D(first) <= D(j) /\ D(j) \in Int /\ D(first) \in Int
      BY <1>1, <1>8, <1>11
    <3>2. Less(poses[j], poses[i]) <=> D(j) < D(i)
      OBVIOUS
    <3> HIDE DEF D, Less
    <3> QED BY <1>12, <3>1, <3>2
  <2> HIDE DEF Less
  <2> QED BY <2>1
<1>13. poses[first] \in least
  BY <1>11, <1>12
<1>14. CASE chosen = poses[first]
  <2>1. \A other \in all : ~Less(other, poses[first])
    BY <1>13
  <2> HIDE DEF all, Less, least
  <2>2. Good(poses[first])
    BY <1>9, <1>13, <1>14, <2>1
  <2>3. \E pose \in all : Good(pose)
    BY <1>11, <2>2
  <2> HIDE DEF Good
  <2> QED BY <1>10, <1>11, <1>14, <2>3 DEF chosen, a
<1>15. CASE /\ chosen = poses[second] /\ keys # {first}
            /\ poses[second].orient = poses[first].orient
            /\ T(second) < T(first) \/ T(second) = T(first)
  <2>1. second \in keys /\ second # first /\ second \in dom /\ poses[second] \in all
    BY <1>2, <1>6, <1>15
  <2>2. poses[first].elb # poses[second].elb
    BY <1>11, <1>15, <2>1 DEF Reaching
  <2>3. Travel(guess, poses[second]) <= Travel(guess, poses[first])
    <3>1. T(first) \in Int /\ T(second) \in Int
      BY <1>1, <1>11, <2>1
    <3>2. T(second) <= T(first)
      <4> HIDE DEF T
      <4> QED BY <1>15, <3>1
    <3> QED BY <3>2
  <2>4. ASSUME NEW i \in dom, Less(poses[i], poses[second]) PROVE poses[i] \in least
    <3>1. PICK k \in keys : D(k) = D(i)
      BY <1>3
    <3>2. D(i) < D(second)
      BY <2>4
    <3>3. D(i) \in Int /\ D(second) \in Int
      BY <1>1, <2>1
    <3>4. k = first
      <4> HIDE DEF D
      <4> QED BY <1>6, <1>15, <3>1, <3>2, <3>3
    <3>5. D(i) = D(first)
      BY <3>1, <3>4
    <3> HIDE DEF D, least
    <3> QED BY <1>12, <3>5
  <2>5. \A other \in all : Less(other, poses[second]) => other \in least
    <3> HIDE DEF Less, least
    <3> QED BY <2>4
  <2> HIDE DEF all, Less, least
  <2>6. Good(poses[second])
    BY <1>9, <1>13, <1>15, <2>2, <2>3, <2>5
  <2>7. \E pose \in all : Good(pose)
    BY <2>1, <2>6
  <2> HIDE DEF Good
  <2> QED BY <1>10, <1>15, <2>1, <2>7 DEF chosen, a
<1> HIDE DEF D, T
<1> QED BY <1>7, <1>14, <1>15

---------------------------------------------------------------------------
(* The theorem about forward and inverse kinematics.                       *)

(* Without the tool, the tip is the hand.                                  *)
LEMMA TipRigid ==
  ASSUME NEW q, Posture(q), ToolKept
  PROVE  /\ Tip(q) \in Rigid /\ Angles(q)
         /\ (IF asibot.hasFrame THEN Compose(Tip(q), Invert(asibot.frameTcp)) ELSE Tip(q))
                = Hand(q)
<1> DEFINE T == asibot.frameTcp
           H == Hand(q)
<1>1. Angles(q)
  BY DEF Posture, Angles
<1>2. H \in Rigid /\ H \in Frames /\ T \in Rigid /\ T \in Frames
          /\ (~asibot.hasFrame => T = Identity)
  BY <1>1, HandPosition, RigidType DEF ToolKept
<1>3. Tip(q) = Compose(H, T)
  BY DEF Tip
<1> HIDE DEF H, T
<1>4. Invert(T) \in Frames
  BY <1>2, InvertRigid, RigidType
<1>5. Compose(Compose(H, T), Invert(T)) = H
  <2>1. Compose(Compose(H, T), Invert(T)) = Compose(H, Compose(T, Invert(T)))
    BY <1>2, <1>4, ComposeAssoc
  <2>2. Compose(T, Invert(T)) = Identity
    BY <1>2, InverseRight
  <2> QED BY <1>2, <2>1, <2>2, IdentityRight
<1>6. Compose(H, T) \in Rigid
  BY <1>2, ComposeRigid
<1>7. ~asibot.hasFrame => Compose(H, T) = H
  BY <1>2, IdentityRight
<1>8. (IF asibot.hasFrame THEN Compose(Compose(H, T), Invert(T)) ELSE Compose(H, T)) = H
  BY <1>5, <1>7
<1> QED BY <1>1, <1>3, <1>6, <1>8 DEF H, T

(* The pose asked from where the tool is now. *)
LEMMA AskedFromTool ==
  ASSUME NEW q, Posture(q), NEW guess, Posture(guess), ToolKept
  PROVE  Compose(FwdKin(guess), Compose(Invert(Tip(guess)), Tip(q))) = Tip(q)
<1> DEFINE G == Tip(guess)
           T == Tip(q)
<1>1. FwdKin(guess) = G
  BY FwdKinIsTip
<1>2. G \in Rigid /\ T \in Rigid
  BY TipRigid
<1> HIDE DEF G, T
<1>3. G \in Frames /\ T \in Frames /\ Invert(G) \in Frames
  BY <1>2, InvertRigid, RigidType
<1>4. Compose(G, Compose(Invert(G), T)) = Compose(Compose(G, Invert(G)), T)
  BY <1>3, ComposeAssoc
<1>5. Compose(G, Invert(G)) = Identity
  BY <1>2, InverseRight
<1>6. Compose(G, Compose(Invert(G), T)) = T
  BY <1>3, <1>4, <1>5, IdentityLeft
<1> QED BY <1>1, <1>6 DEF G, T

(* What Solve answers when asked for the pose the tool has at q. *)
Answered(a, q, guess) ==
  /\ a.kind # "out of reach"
  /\ a.kind = "joints" =>
        /\ \A i \in 1 .. 5 : a.q[i] \in asibot.limits[1][i] .. asibot.limits[2][i]
        /\ Brings(a.q, q)
        /\ Preferred(a, guess)

(* What is answered for the pose the tool has at q.                        *)
LEMMA AnswerReaches ==
  ASSUME NEW q \in HandPoses, NEW guess \in Guesses, ToolKept
  PROVE  Answered(Solve(Tip(q), guess), q, guess)
<1>1. Posture(q) /\ Cos(q[3]) >= 0 /\ Pitch(q) % 4 \in 0 .. 2 /\ Posture(guess)
  BY HandPosesAssumption, GuessesAssumption DEF Pitch
<1> DEFINE x == Tip(q)
<1>2. (IF asibot.hasFrame THEN Compose(x, Invert(asibot.frameTcp)) ELSE x) = Hand(q)
  BY <1>1, TipRigid
<1> HIDE DEF x
<1>3. PICK poses : Reaching(poses, q) /\ Solve(x, guess) = Answering(poses, guess)
  BY <1>1, <1>2, AnswerMade
<1> DEFINE a == Answering(poses, guess)
<1>4. CASE DOMAIN poses = {}
  <2>1. a.kind = "out of limits"
    BY <1>4 DEF Answering
  <2> HIDE DEF a
  <2> QED BY <1>3, <2>1 DEF Answered, a, x
<1>5. CASE DOMAIN poses # {}
  <2>1. a.kind = "joints" /\ a.q = FindOptimalConfiguration(poses, guess).q
    BY <1>5 DEF Answering
  <2>2. PICK i \in DOMAIN poses : FindOptimalConfiguration(poses, guess) = poses[i]
    BY <1>1, <1>3, <1>5, PreferredFound
  <2>3. Preferred(a, guess)
    BY <1>1, <1>3, <1>5, PreferredFound
  <2>4. Brings(poses[i].q, q) /\ CheckJointsInLimits(poses[i])
    BY <1>3 DEF Reaching
  <2>5. \A j \in 1 .. 5 : poses[i].q[j] \in asibot.limits[1][j] .. asibot.limits[2][j]
    BY <2>4 DEF CheckJointsInLimits
  <2> HIDE DEF a
  <2>6. a.q = poses[i].q
    BY <2>1, <2>2
  <2>7. a.kind # "out of reach"
    BY <2>1
  <2>8. Answered(a, q, guess)
    BY <2>3, <2>4, <2>5, <2>6, <2>7 DEF Answered
  <2> QED BY <1>3, <2>8 DEF a, x
<1> QED BY <1>4, <1>5

(* With what was answered, the inductive invariant of the theorem below.   *)
ReachInv ==
  /\ AsibotInv
  /\ reply.call = "fwdKin" => reply.x = Tip(reply.q)
  /\ reply.call = "invKin" => Answered(reply.answer, reply.q, reply.guess)

LEMMA ReachInit == AsibotOff => ReachInv
<1> SUFFICES ASSUME AsibotOff PROVE ReachInv
  OBVIOUS
<1>1. reply.call = "none"
  BY DEF AsibotOff, NoReply
<1> QED BY <1>1, AsibotInit DEF ReachInv

(* One step for each action of AsibotNext.                                 *)
LEMMA ReachStep == ReachInv /\ [AsibotNext]_asibotVars => ReachInv'
<1> SUFFICES ASSUME ReachInv, [AsibotNext]_asibotVars PROVE ReachInv'
  OBVIOUS
<1>1. AsibotInv /\ AsibotInv' /\ ToolKept
  BY AsibotStep DEF ReachInv, AsibotInv
<1>2. ASSUME reply'.call # "fwdKin", reply'.call # "invKin" PROVE ReachInv'
  BY <1>1, <1>2 DEF ReachInv
<1>3. ASSUME asibot' = asibot
      PROVE  (\A q : Tip(q)' = Tip(q)) /\ \A a, q,
                 guess : Answered(a, q, guess)' = Answered(a, q, guess)
  BY <1>3 DEF Tip, Answered
<1>4. CASE AsibotOpen \/ AsibotAppendLink \/ AsibotRestoreOriginalChain \/ AsibotDiffInvKin
  <2>1. reply'.call = "open" \/ reply'.call = "appendLink" \/ reply'.call = "restoreOriginalChain"
            \/ reply'.call = "diffInvKin"
    <3>1. AsibotOpen => reply'.call = "open"
      BY DEF AsibotOpen
    <3>2. AsibotAppendLink => reply'.call = "appendLink"
      BY DEF AsibotAppendLink
    <3>3. AsibotRestoreOriginalChain => reply'.call = "restoreOriginalChain"
      BY DEF AsibotRestoreOriginalChain
    <3>4. AsibotDiffInvKin => reply'.call = "diffInvKin"
      BY DEF AsibotDiffInvKin
    <3> QED BY <1>4, <3>1, <3>2, <3>3, <3>4
  <2> QED BY <1>2, <2>1
<1>5. CASE AsibotClose \/ AsibotReturn
  <2>1. reply' = NoReply
    BY <1>5 DEF AsibotClose, AsibotReturn
  <2>2. reply'.call # "fwdKin" /\ reply'.call # "invKin"
    BY <2>1 DEF NoReply
  <2> QED BY <1>2, <2>2
<1>6. CASE AsibotFwdKin
  <2>1. PICK q \in HandPoses : reply' = [call |-> "fwdKin", q |-> q, x |-> FwdKin(q)]
    BY <1>6 DEF AsibotFwdKin
  <2>2. asibot' = asibot
    BY <1>6 DEF AsibotFwdKin
  <2>3. reply'.call = "fwdKin" /\ reply'.q = q /\ reply'.x = FwdKin(q)
    BY <2>1
  <2>4. Posture(q)
    BY HandPosesAssumption
  <2>5. FwdKin(q) = Tip(q)
    BY <1>1, <2>4, FwdKinIsTip
  <2>6. (reply.x = Tip(reply.q))'
    BY <1>3, <2>2, <2>3, <2>5
  <2>7. reply'.call # "invKin"
    BY <2>3
  <2> QED BY <1>1, <2>6, <2>7 DEF ReachInv
<1>7. CASE AsibotInvKin
  <2>1. asibot' = asibot
    BY <1>7 DEF AsibotInvKin
  <2>2. PICK q \in HandPoses, guess \in Guesses, frame \in {"BASE_FRAME", "TCP_FRAME"} :
          LET xd == IF frame = "BASE_FRAME" THEN Tip(q) ELSE Compose(Invert(Tip(guess)), Tip(q))
              x  == IF frame = "BASE_FRAME" THEN xd ELSE Compose(FwdKin(guess), xd)
          IN  reply' = [call |-> "invKin", q |-> q, guess |-> guess, answer |-> Solve(x, guess)]
    BY <1>7 DEF AsibotInvKin
  <2>3. Posture(q) /\ Posture(guess)
    BY HandPosesAssumption, GuessesAssumption
  <2>4. Compose(FwdKin(guess), Compose(Invert(Tip(guess)), Tip(q))) = Tip(q)
    BY <1>1, <2>3, AskedFromTool
  <2>5. reply' = [call |-> "invKin", q |-> q, guess |-> guess, answer |-> Solve(Tip(q), guess)]
    BY <2>2, <2>4
  <2>6. reply'.call = "invKin" /\ reply'.q = q /\ reply'.guess = guess
            /\ reply'.answer = Solve(Tip(q), guess)
    BY <2>5
  <2>7. Answered(Solve(Tip(q), guess), q, guess)
    BY <1>1, AnswerReaches
  <2>8. Answered(reply.answer, reply.q, reply.guess)'
    <3> DEFINE a == Solve(Tip(q), guess)
    <3>1. Answered(a, q, guess) /\ reply'.answer = a
      BY <2>6, <2>7
    <3> HIDE DEF a
    <3> QED BY <2>1, <2>6, <3>1 DEF Answered
  <2>9. reply'.call # "fwdKin"
    BY <2>6
  <2> QED BY <1>1, <2>8, <2>9 DEF ReachInv
<1>8. CASE UNCHANGED asibotVars
  <2>1. asibot' = asibot /\ reply' = reply
    BY <1>8 DEF asibotVars
  <2> QED BY <1>1, <1>3, <2>1 DEF ReachInv
<1> QED BY <1>4, <1>5, <1>6, <1>7, <1>8 DEF AsibotNext

(* Forward kinematics give the pose of the tip; inverse kinematics of a    *)
(* pose of the tip never find it out of reach and, when a pose is within   *)
(* limits, answer one that is, that brings the hand there and that is the  *)
(* preferred one (fwdKin and invKin, ICartesianSolverImpl.cpp), for every  *)
(* posture, position of the robot, tool and limits.                        *)
THEOREM HandAlwaysReachesTarget == AsibotSpec => []HandReachesTarget
<1>1. ReachInv => HandReachesTarget
  BY DEF ReachInv, Answered, Brings, HandReachesTarget
<1> QED BY <1>1, ReachInit, ReachStep, PTL DEF AsibotSpec
===============================================================================
