--------------------------- MODULE KinematicsProofs ---------------------------
(*****************************************************************************)
(* What holds of the screw theory solver and of the trajectories for every   *)
(* robot and tool that a configuration may give: the representations of a    *)
(* chain agree, the solver answers for the chain as it is now, and a         *)
(* trajectory deletes what it created once.                                  *)
(*                                                                           *)
(* The first half is the algebra of rigid frames whose axes are those of     *)
(* the base and of the products of exponentials over them; all of it is      *)
(* exact, in integers.  Recursive functions are unfolded by an induction     *)
(* over the first n numbers that follows from the well-founded order of the  *)
(* naturals.                                                                 *)
(*****************************************************************************)
EXTENDS KdlTrajectory, KdlSolver, WellFoundedInduction, TLAPS

---------------------------------------------------------------------------
(* Vectors and frames: their types, coordinate by coordinate.              *)
LEMMA VectorEq ==
  ASSUME NEW u \in Vectors, NEW v \in Vectors, \A i \in 1 .. 3 : u[i] = v[i]
  PROVE  u = v
BY DEF Vectors

LEMMA VectorAt == ASSUME NEW v \in Vectors, NEW i \in 1 .. 3 PROVE v[i] \in Int
BY DEF Vectors

LEMMA VectorType ==
  ASSUME NEW v \in Vectors
  PROVE  v[1] \in Int /\ v[2] \in Int /\ v[3] \in Int /\ v = <<v[1], v[2], v[3]>>
BY DEF Vectors

LEMMA VectorMake ==
  ASSUME NEW a \in Int, NEW b \in Int, NEW c \in Int
  PROVE  <<a, b, c>> \in Vectors /\ <<a, b, c>>[1] = a /\ <<a, b, c>>[2] = b /\ <<a, b, c>>[3] = c
BY DEF Vectors

LEMMA PlusType == ASSUME NEW u \in Vectors, NEW v \in Vectors PROVE Plus(u, v) \in Vectors
BY VectorType, VectorMake DEF Plus

LEMMA MinusType == ASSUME NEW u \in Vectors, NEW v \in Vectors PROVE Minus(u, v) \in Vectors
BY VectorType, VectorMake DEF Minus

LEMMA TimesType == ASSUME NEW k \in Int, NEW v \in Vectors PROVE Times(k, v) \in Vectors
BY VectorType, VectorMake DEF Times

LEMMA CrossType == ASSUME NEW u \in Vectors, NEW v \in Vectors PROVE Cross(u, v) \in Vectors
BY VectorType, VectorMake DEF Cross

LEMMA DotType == ASSUME NEW u \in Vectors, NEW v \in Vectors PROVE Dot(u, v) \in Int
BY VectorType DEF Dot

LEMMA PlusAt == ASSUME NEW u, NEW v, NEW i \in 1 .. 3 PROVE Plus(u, v)[i] = u[i] + v[i]
BY DEF Plus

LEMMA MinusAt == ASSUME NEW u, NEW v, NEW i \in 1 .. 3 PROVE Minus(u, v)[i] = u[i] - v[i]
BY DEF Minus

LEMMA TimesAt == ASSUME NEW k, NEW v, NEW i \in 1 .. 3 PROVE Times(k, v)[i] = k * v[i]
BY DEF Times

LEMMA FrameType ==
  ASSUME NEW F \in Frames
  PROVE  F.x \in Vectors /\ F.y \in Vectors /\ F.z \in Vectors /\ F.p \in Vectors
BY DEF Frames

LEMMA FrameEq ==
  ASSUME NEW F \in Frames, NEW G \in Frames, F.x = G.x, F.y = G.y, F.z = G.z, F.p = G.p
  PROVE  F = G
BY DEF Frames

LEMMA FrameMake ==
  ASSUME NEW a \in Vectors, NEW b \in Vectors, NEW c \in Vectors, NEW d \in Vectors
  PROVE  FrameOf(a, b, c, d) \in Frames
BY DEF FrameOf, Frames

LEMMA TurnType == ASSUME NEW F \in Frames, NEW v \in Vectors PROVE Turn(F, v) \in Vectors
BY VectorType, FrameType, PlusType, TimesType DEF Turn

LEMMA MoveType == ASSUME NEW F \in Frames, NEW v \in Vectors PROVE Move(F, v) \in Vectors
BY TurnType, FrameType, PlusType DEF Move

LEMMA TurnBackType == ASSUME NEW F \in Frames, NEW v \in Vectors PROVE TurnBack(F, v) \in Vectors
BY FrameType, DotType, VectorMake DEF TurnBack

LEMMA ComposeParts ==
  ASSUME NEW F, NEW G
  PROVE  /\ Compose(F, G).x = Turn(F, G.x) /\ Compose(F, G).y = Turn(F, G.y)
         /\ Compose(F, G).z = Turn(F, G.z)
         /\ Compose(F, G).p = Move(F, G.p)
BY DEF Compose, FrameOf

LEMMA ComposeType == ASSUME NEW F \in Frames, NEW G \in Frames PROVE Compose(F, G) \in Frames
BY TurnType, MoveType, FrameType, FrameMake DEF Compose

LEMMA TurnAt ==
  ASSUME NEW F \in Frames, NEW v, NEW i \in 1 .. 3
  PROVE  Turn(F, v)[i] = v[1] * F.x[i] + v[2] * F.y[i] + v[3] * F.z[i]
BY PlusAt, TimesAt DEF Turn

LEMMA TurnPlus ==
  ASSUME NEW F \in Frames, NEW u \in Vectors, NEW v \in Vectors
  PROVE  Turn(F, Plus(u, v)) = Plus(Turn(F, u), Turn(F, v))
<1>1. Turn(F, Plus(u, v)) \in Vectors /\ Plus(Turn(F, u), Turn(F, v)) \in Vectors
  BY PlusType, TurnType
<1>2. ASSUME NEW i \in 1 .. 3 PROVE Turn(F, Plus(u, v))[i] = Plus(Turn(F, u), Turn(F, v))[i]
  <2>1. /\ u[1] \in Int /\ u[2] \in Int /\ u[3] \in Int /\ v[1] \in Int /\ v[2] \in Int
        /\ v[3] \in Int
        /\ F.x[i] \in Int /\ F.y[i] \in Int /\ F.z[i] \in Int
    BY FrameType, VectorType, VectorAt
  <2>2. Turn(F, Plus(u, v))[i] = (u[1] + v[1]) * F.x[i] + (u[2] + v[2]) * F.y[i]
            + (u[3] + v[3]) * F.z[i]
    BY TurnAt, PlusAt
  <2>3. Plus(Turn(F, u), Turn(F, v))[i] = (u[1] * F.x[i] + u[2] * F.y[i] + u[3] * F.z[i])
                                           + (v[1] * F.x[i] + v[2] * F.y[i] + v[3] * F.z[i])
    BY TurnAt, PlusAt
  <2> QED BY <2>1, <2>2, <2>3
<1> QED BY <1>1, <1>2, VectorEq

LEMMA TurnMinus ==
  ASSUME NEW F \in Frames, NEW u \in Vectors, NEW v \in Vectors
  PROVE  Turn(F, Minus(u, v)) = Minus(Turn(F, u), Turn(F, v))
<1>1. Turn(F, Minus(u, v)) \in Vectors /\ Minus(Turn(F, u), Turn(F, v)) \in Vectors
  BY MinusType, TurnType
<1>2. ASSUME NEW i \in 1 .. 3 PROVE Turn(F, Minus(u, v))[i] = Minus(Turn(F, u), Turn(F, v))[i]
  <2>1. /\ u[1] \in Int /\ u[2] \in Int /\ u[3] \in Int /\ v[1] \in Int /\ v[2] \in Int
        /\ v[3] \in Int
        /\ F.x[i] \in Int /\ F.y[i] \in Int /\ F.z[i] \in Int
    BY FrameType, VectorType, VectorAt
  <2>2. Turn(F, Minus(u, v))[i] = (u[1] - v[1]) * F.x[i] + (u[2] - v[2]) * F.y[i]
            + (u[3] - v[3]) * F.z[i]
    BY TurnAt, MinusAt
  <2>3. Minus(Turn(F, u), Turn(F, v))[i] = (u[1] * F.x[i] + u[2] * F.y[i] + u[3] * F.z[i])
                                           - (v[1] * F.x[i] + v[2] * F.y[i] + v[3] * F.z[i])
    BY TurnAt, MinusAt
  <2> QED BY <2>1, <2>2, <2>3
<1> QED BY <1>1, <1>2, VectorEq

LEMMA TurnTimes ==
  ASSUME NEW F \in Frames, NEW k \in Int, NEW v \in Vectors
  PROVE  Turn(F, Times(k, v)) = Times(k, Turn(F, v))
<1>1. Turn(F, Times(k, v)) \in Vectors /\ Times(k, Turn(F, v)) \in Vectors
  BY TimesType, TurnType
<1>2. ASSUME NEW i \in 1 .. 3 PROVE Turn(F, Times(k, v))[i] = Times(k, Turn(F, v))[i]
  <2>1. /\ v[1] \in Int /\ v[2] \in Int /\ v[3] \in Int
        /\ F.x[i] \in Int /\ F.y[i] \in Int /\ F.z[i] \in Int
    BY FrameType, VectorType, VectorAt
  <2>2. Turn(F, Times(k, v))[i] = (k * v[1]) * F.x[i] + (k * v[2]) * F.y[i] + (k * v[3]) * F.z[i]
    BY TurnAt, TimesAt
  <2>3. Times(k, Turn(F, v))[i] = k * (v[1] * F.x[i] + v[2] * F.y[i] + v[3] * F.z[i])
    BY TurnAt, TimesAt
  <2> QED BY <2>1, <2>2, <2>3
<1> QED BY <1>1, <1>2, VectorEq

LEMMA TurnTurn ==
  ASSUME NEW F \in Frames, NEW G \in Frames, NEW v \in Vectors
  PROVE  Turn(Compose(F, G), v) = Turn(F, Turn(G, v))
<1>1. /\ G.x \in Vectors /\ G.y \in Vectors /\ G.z \in Vectors /\ v[1] \in Int /\ v[2] \in Int
      /\ v[3] \in Int
  BY FrameType, VectorType
<1>2. /\ Times(v[1], G.x) \in Vectors /\ Times(v[2], G.y) \in Vectors
      /\ Times(v[3], G.z) \in Vectors
      /\ Plus(Times(v[1], G.x), Times(v[2], G.y)) \in Vectors
  BY <1>1, TimesType, PlusType
<1>3. Turn(F, Turn(G, v)) = Plus(Turn(F, Plus(Times(v[1], G.x), Times(v[2], G.y))),
          Turn(F, Times(v[3], G.z)))
  BY <1>1, <1>2, TurnPlus DEF Turn
<1>4. Turn(F, Plus(Times(v[1], G.x), Times(v[2], G.y)))
          = Plus(Turn(F, Times(v[1], G.x)), Turn(F, Times(v[2], G.y)))
  BY <1>1, <1>2, TurnPlus
<1>5. /\ Turn(F, Times(v[1], G.x)) = Times(v[1], Turn(F, G.x))
      /\ Turn(F, Times(v[2], G.y)) = Times(v[2], Turn(F, G.y))
      /\ Turn(F, Times(v[3], G.z)) = Times(v[3], Turn(F, G.z))
  BY <1>1, TurnTimes
<1>6. Turn(Compose(F, G), v) =
         Plus(Plus(Times(v[1], Turn(F, G.x)), Times(v[2], Turn(F, G.y))),
             Times(v[3], Turn(F, G.z)))
  BY ComposeParts DEF Turn
<1> QED BY <1>3, <1>4, <1>5, <1>6

---------------------------------------------------------------------------
(* Composition is associative and has an identity.                         *)

LEMMA PlusAssoc ==
  ASSUME NEW u \in Vectors, NEW v \in Vectors, NEW w \in Vectors
  PROVE  Plus(Plus(u, v), w) = Plus(u, Plus(v, w))
<1>1. Plus(Plus(u, v), w) \in Vectors /\ Plus(u, Plus(v, w)) \in Vectors
  BY PlusType
<1>2. ASSUME NEW i \in 1 .. 3 PROVE Plus(Plus(u, v), w)[i] = Plus(u, Plus(v, w))[i]
  BY PlusAt, VectorAt
<1> QED BY <1>1, <1>2, VectorEq

LEMMA MoveMove ==
  ASSUME NEW F \in Frames, NEW G \in Frames, NEW v \in Vectors
  PROVE  Move(Compose(F, G), v) = Move(F, Move(G, v))
<1>1. /\ G.p \in Vectors /\ F.p \in Vectors /\ Turn(G, v) \in Vectors
      /\ Turn(F, Turn(G, v)) \in Vectors
      /\ Turn(F, G.p) \in Vectors
  BY FrameType, TurnType
<1>2. Move(Compose(F, G), v) = Plus(Turn(F, Turn(G, v)), Plus(Turn(F, G.p), F.p))
  BY TurnTurn, ComposeParts DEF Move
<1>3. Move(F, Move(G, v)) = Plus(Plus(Turn(F, Turn(G, v)), Turn(F, G.p)), F.p)
  BY <1>1, TurnPlus DEF Move
<1> QED BY <1>1, <1>2, <1>3, PlusAssoc

LEMMA ComposeAssoc ==
  ASSUME NEW F \in Frames, NEW G \in Frames, NEW H \in Frames
  PROVE  Compose(Compose(F, G), H) = Compose(F, Compose(G, H))
<1> DEFINE L == Compose(Compose(F, G), H)
           R == Compose(F, Compose(G, H))
<1>1. L \in Frames /\ R \in Frames
  BY ComposeType
<1>2. H.x \in Vectors /\ H.y \in Vectors /\ H.z \in Vectors /\ H.p \in Vectors
  BY FrameType
<1>3. /\ L.x = Turn(Compose(F, G), H.x) /\ L.y = Turn(Compose(F, G), H.y)
      /\ L.z = Turn(Compose(F, G), H.z) /\ L.p = Move(Compose(F, G), H.p)
  BY ComposeParts
<1>4. /\ R.x = Turn(F, Turn(G, H.x)) /\ R.y = Turn(F, Turn(G, H.y))
      /\ R.z = Turn(F, Turn(G, H.z)) /\ R.p = Move(F, Move(G, H.p))
  BY ComposeParts
<1>5. L.x = R.x /\ L.y = R.y /\ L.z = R.z /\ L.p = R.p
  BY <1>2, <1>3, <1>4, TurnTurn, MoveMove
<1> HIDE DEF L, R
<1> QED BY <1>1, <1>5, FrameEq DEF L, R

LEMMA TranslateType ==
  ASSUME NEW p \in Vectors
  PROVE  Translate(p) \in Frames /\ Translate(p).x = <<1, 0, 0>> /\ Translate(p).y = <<0, 1, 0>>
         /\ Translate(p).z = <<0, 0, 1>> /\ Translate(p).p = p
<1>1. <<1, 0, 0>> \in Vectors /\ <<0, 1, 0>> \in Vectors /\ <<0, 0, 1>> \in Vectors
  BY VectorMake
<1> QED BY <1>1, FrameMake DEF Translate, FrameOf

LEMMA TranslateTurns ==
  ASSUME NEW p \in Vectors, NEW v \in Vectors
  PROVE  Turn(Translate(p), v) = v
<1>1. Turn(Translate(p), v) \in Vectors
  BY TranslateType, TurnType
<1>2. /\ Turn(Translate(p), v)[1] = v[1] * 1 + v[2] * 0 + v[3] * 0
      /\ Turn(Translate(p), v)[2] = v[1] * 0 + v[2] * 1 + v[3] * 0
      /\ Turn(Translate(p), v)[3] = v[1] * 0 + v[2] * 0 + v[3] * 1
  BY TranslateType, TurnAt
<1>3. v[1] \in Int /\ v[2] \in Int /\ v[3] \in Int
  BY VectorType
<1>4. Turn(Translate(p), v)[1] = v[1] /\ Turn(Translate(p), v)[2] = v[2]
          /\ Turn(Translate(p), v)[3] = v[3]
  BY <1>2, <1>3
<1>5. ASSUME NEW i \in 1 .. 3 PROVE Turn(Translate(p), v)[i] = v[i]
  BY <1>4
<1> QED BY <1>1, <1>5, VectorEq

LEMMA ZeroType == Zero \in Vectors
BY VectorMake DEF Zero

LEMMA ZeroPlus == ASSUME NEW v \in Vectors PROVE Plus(v, Zero) = v /\ Plus(Zero, v) = v
<1>1. Plus(v, Zero) \in Vectors /\ Plus(Zero, v) \in Vectors
  BY ZeroType, PlusType
<1>2. ASSUME NEW i \in 1 .. 3 PROVE Zero[i] = 0
  BY DEF Zero
<1>3. ASSUME NEW i \in 1 .. 3 PROVE Plus(v, Zero)[i] = v[i] /\ Plus(Zero, v)[i] = v[i]
  BY <1>2, PlusAt, VectorAt
<1> QED BY <1>1, <1>3, VectorEq

LEMMA TurnZero == ASSUME NEW F \in Frames PROVE Turn(F, Zero) = Zero
<1>1. ASSUME NEW i \in 1 .. 3 PROVE Turn(F, Zero)[i] = Zero[i]
  <2>1. Turn(F, Zero)[i] = 0 * F.x[i] + 0 * F.y[i] + 0 * F.z[i]
    BY TurnAt DEF Zero
  <2>2. F.x[i] \in Int /\ F.y[i] \in Int /\ F.z[i] \in Int
    BY FrameType, VectorAt
  <2>3. Zero[i] = 0
    BY DEF Zero
  <2> QED BY <2>1, <2>2, <2>3
<1> QED BY <1>1, TurnType, ZeroType, VectorEq

LEMMA IdentityType == Identity \in Frames
BY ZeroType, TranslateType DEF Identity

LEMMA IdentityLeft == ASSUME NEW F \in Frames PROVE Compose(Identity, F) = F
<1>1. F.x \in Vectors /\ F.y \in Vectors /\ F.z \in Vectors /\ F.p \in Vectors
  BY FrameType
<1>2. Move(Identity, F.p) = F.p
  BY <1>1, ZeroType, TranslateTurns, TranslateType, ZeroPlus DEF Move, Identity
<1>3. Turn(Identity, F.x) = F.x /\ Turn(Identity, F.y) = F.y /\ Turn(Identity, F.z) = F.z
  BY <1>1, ZeroType, TranslateTurns DEF Identity
<1> QED BY <1>2, <1>3, ComposeParts, ComposeType, IdentityType, FrameEq

LEMMA UnitTurns ==
  ASSUME NEW F \in Frames
  PROVE  Turn(F, <<1, 0, 0>>) = F.x /\ Turn(F, <<0, 1, 0>>) = F.y /\ Turn(F, <<0, 0, 1>>) = F.z
<1>1. /\ F.x \in Vectors /\ F.y \in Vectors /\ F.z \in Vectors
      /\ <<1, 0, 0>> \in Vectors /\ <<0, 1, 0>> \in Vectors /\ <<0, 0, 1>> \in Vectors
  BY FrameType, VectorMake
<1>2. ASSUME NEW i \in 1 .. 3
      PROVE  /\ Turn(F, <<1, 0, 0>>)[i] = F.x[i] /\ Turn(F, <<0, 1, 0>>)[i] = F.y[i]
             /\ Turn(F, <<0, 0, 1>>)[i] = F.z[i]
  <2>1. F.x[i] \in Int /\ F.y[i] \in Int /\ F.z[i] \in Int
    BY <1>1, VectorAt
  <2>2. /\ Turn(F, <<1, 0, 0>>)[i] = 1 * F.x[i] + 0 * F.y[i] + 0 * F.z[i]
        /\ Turn(F, <<0, 1, 0>>)[i] = 0 * F.x[i] + 1 * F.y[i] + 0 * F.z[i]
        /\ Turn(F, <<0, 0, 1>>)[i] = 0 * F.x[i] + 0 * F.y[i] + 1 * F.z[i]
    BY TurnAt
  <2> QED BY <2>1, <2>2
<1> QED BY <1>1, <1>2, TurnType, VectorEq

LEMMA IdentityRight == ASSUME NEW F \in Frames PROVE Compose(F, Identity) = F
<1>1. /\ Identity.x = <<1, 0, 0>> /\ Identity.y = <<0, 1, 0>> /\ Identity.z = <<0, 0, 1>>
      /\ Identity.p = Zero
  BY ZeroType, TranslateType DEF Identity
<1>2. Move(F, Zero) = F.p
  BY TurnZero, ZeroPlus, FrameType DEF Move
<1> QED BY <1>1, <1>2, UnitTurns, ComposeParts, ComposeType, IdentityType, FrameEq

---------------------------------------------------------------------------
(* Rigid frames: their axes are orthonormal, on both sides.                *)

LEMMA UnitType == ASSUME NEW u \in Units PROVE u \in Vectors
BY VectorMake DEF Units

(* A unit has one coordinate that is not zero.                             *)
LEMMA UnitCases ==
  ASSUME NEW u \in Units
  PROVE  \/ u[1] = 1 /\ u[2] = 0 /\ u[3] = 0
         \/ u[1] = 0 /\ u[2] = 1 /\ u[3] = 0
         \/ u[1] = 0 /\ u[2] = 0 /\ u[3] = 1
         \/ u[1] = -1 /\ u[2] = 0 /\ u[3] = 0
         \/ u[1] = 0 /\ u[2] = -1 /\ u[3] = 0
         \/ u[1] = 0 /\ u[2] = 0 /\ u[3] = -1
BY DEF Units

LEMMA RigidType ==
  ASSUME NEW F \in Rigid
  PROVE  F \in Frames /\ F.x \in Vectors /\ F.y \in Vectors /\ F.z \in Vectors /\ F.p \in Vectors
BY FrameType DEF Rigid

(* The third axis is the cross product of the others.                      *)
LEMMA RigidCoordinates ==
  ASSUME NEW F \in Rigid
  PROVE  /\ F.x[1] * F.y[1] + F.x[2] * F.y[2] + F.x[3] * F.y[3] = 0
         /\ F.z[1] = F.x[2] * F.y[3] - F.x[3] * F.y[2]
         /\ F.z[2] = F.x[3] * F.y[1] - F.x[1] * F.y[3]
         /\ F.z[3] = F.x[1] * F.y[2] - F.x[2] * F.y[1]
BY DEF Rigid, Dot, Cross

(* The rows of a rigid frame are orthonormal too.                          *)
LEMMA Rows ==
  ASSUME NEW F \in Rigid
  PROVE  /\ F.x[1] * F.x[1] + F.y[1] * F.y[1] + F.z[1] * F.z[1] = 1
         /\ F.x[2] * F.x[2] + F.y[2] * F.y[2] + F.z[2] * F.z[2] = 1
         /\ F.x[3] * F.x[3] + F.y[3] * F.y[3] + F.z[3] * F.z[3] = 1
         /\ F.x[1] * F.x[2] + F.y[1] * F.y[2] + F.z[1] * F.z[2] = 0
         /\ F.x[1] * F.x[3] + F.y[1] * F.y[3] + F.z[1] * F.z[3] = 0
         /\ F.x[2] * F.x[3] + F.y[2] * F.y[3] + F.z[2] * F.z[3] = 0
<1>1. F.x \in Units /\ F.y \in Units
  BY DEF Rigid
<1> QED BY <1>1, UnitCases, RigidCoordinates

(* The axes of a rigid frame are orthonormal.                              *)
LEMMA Columns ==
  ASSUME NEW F \in Rigid
  PROVE  /\ Dot(F.x, F.x) = 1 /\ Dot(F.y, F.y) = 1 /\ Dot(F.z, F.z) = 1
         /\ Dot(F.x, F.y) = 0 /\ Dot(F.x, F.z) = 0 /\ Dot(F.y, F.z) = 0
         /\ Dot(F.y, F.x) = 0 /\ Dot(F.z, F.x) = 0 /\ Dot(F.z, F.y) = 0
<1>1. F.x \in Units /\ F.y \in Units
  BY DEF Rigid
<1> QED BY <1>1, UnitCases, RigidCoordinates DEF Dot

LEMMA DotTurn ==
  ASSUME NEW F \in Frames, NEW u \in Vectors, NEW v \in Vectors
  PROVE  Dot(u, Turn(F, v)) = v[1] * Dot(u, F.x) + v[2] * Dot(u, F.y) + v[3] * Dot(u, F.z)
<1>1. /\ u[1] \in Int /\ u[2] \in Int /\ u[3] \in Int /\ v[1] \in Int /\ v[2] \in Int
      /\ v[3] \in Int
      /\ F.x[1] \in Int /\ F.x[2] \in Int /\ F.x[3] \in Int
      /\ F.y[1] \in Int /\ F.y[2] \in Int /\ F.y[3] \in Int
      /\ F.z[1] \in Int /\ F.z[2] \in Int /\ F.z[3] \in Int
  BY FrameType, VectorType
<1>2. /\ Turn(F, v)[1] = v[1] * F.x[1] + v[2] * F.y[1] + v[3] * F.z[1]
      /\ Turn(F, v)[2] = v[1] * F.x[2] + v[2] * F.y[2] + v[3] * F.z[2]
      /\ Turn(F, v)[3] = v[1] * F.x[3] + v[2] * F.y[3] + v[3] * F.z[3]
  BY TurnAt
<1> QED BY <1>1, <1>2 DEF Dot

(* The transpose undoes the rotation.                                      *)
LEMMA BackTurn ==
  ASSUME NEW F \in Rigid, NEW v \in Vectors
  PROVE  TurnBack(F, Turn(F, v)) = v
<1>1. F \in Frames /\ F.x \in Vectors /\ F.y \in Vectors /\ F.z \in Vectors
  BY RigidType
<1>2. v[1] \in Int /\ v[2] \in Int /\ v[3] \in Int /\ v = <<v[1], v[2], v[3]>>
  BY VectorType
<1>3. Dot(F.x, Turn(F, v)) = v[1] /\ Dot(F.y, Turn(F, v)) = v[2] /\ Dot(F.z, Turn(F, v)) = v[3]
  BY <1>1, <1>2, DotTurn, Columns
<1> QED BY <1>2, <1>3 DEF TurnBack

(* The rotation undoes its transpose.                                      *)
LEMMA TurnBackAgain ==
  ASSUME NEW F \in Rigid, NEW v \in Vectors
  PROVE  Turn(F, TurnBack(F, v)) = v
<1> DEFINE w == Turn(F, TurnBack(F, v))
<1>1. F \in Frames /\ w \in Vectors
  BY RigidType, TurnType, TurnBackType
<1>2. /\ v[1] \in Int /\ v[2] \in Int /\ v[3] \in Int
      /\ F.x[1] \in Int /\ F.x[2] \in Int /\ F.x[3] \in Int
      /\ F.y[1] \in Int /\ F.y[2] \in Int /\ F.y[3] \in Int
      /\ F.z[1] \in Int /\ F.z[2] \in Int /\ F.z[3] \in Int
  BY RigidType, VectorType
<1>3. ASSUME NEW i \in 1 .. 3
      PROVE  w[i] = Dot(F.x, v) * F.x[i] + Dot(F.y, v) * F.y[i] + Dot(F.z, v) * F.z[i]
  BY <1>1, TurnAt DEF TurnBack
<1>5. w[1] = v[1]
  <2>1. w[1] = Dot(F.x, v) * F.x[1] + Dot(F.y, v) * F.y[1] + Dot(F.z, v) * F.z[1]
    BY <1>3
  <2> HIDE DEF w
  <2>2. w[1] = v[1] * (F.x[1] * F.x[1] + F.y[1] * F.y[1] + F.z[1] * F.z[1])
            + v[2] * (F.x[1] * F.x[2] + F.y[1] * F.y[2] + F.z[1] * F.z[2])
                + v[3] * (F.x[1] * F.x[3] + F.y[1] * F.y[3] + F.z[1] * F.z[3])
    BY <1>2, <2>1 DEF Dot
  <2>3. w[1] = v[1] * 1 + v[2] * 0 + v[3] * 0
    BY <2>2, Rows
  <2> QED BY <1>2, <2>3
<1>6. w[2] = v[2]
  <2>1. w[2] = Dot(F.x, v) * F.x[2] + Dot(F.y, v) * F.y[2] + Dot(F.z, v) * F.z[2]
    BY <1>3
  <2> HIDE DEF w
  <2>2. w[2] = v[1] * (F.x[1] * F.x[2] + F.y[1] * F.y[2] + F.z[1] * F.z[2])
            + v[2] * (F.x[2] * F.x[2] + F.y[2] * F.y[2] + F.z[2] * F.z[2])
                + v[3] * (F.x[2] * F.x[3] + F.y[2] * F.y[3] + F.z[2] * F.z[3])
    BY <1>2, <2>1 DEF Dot
  <2>3. w[2] = v[1] * 0 + v[2] * 1 + v[3] * 0
    BY <2>2, Rows
  <2> QED BY <1>2, <2>3
<1>7. w[3] = v[3]
  <2>1. w[3] = Dot(F.x, v) * F.x[3] + Dot(F.y, v) * F.y[3] + Dot(F.z, v) * F.z[3]
    BY <1>3
  <2> HIDE DEF w
  <2>2. w[3] = v[1] * (F.x[1] * F.x[3] + F.y[1] * F.y[3] + F.z[1] * F.z[3])
            + v[2] * (F.x[2] * F.x[3] + F.y[2] * F.y[3] + F.z[2] * F.z[3])
                + v[3] * (F.x[3] * F.x[3] + F.y[3] * F.y[3] + F.z[3] * F.z[3])
    BY <1>2, <2>1 DEF Dot
  <2>3. w[3] = v[1] * 0 + v[2] * 0 + v[3] * 1
    BY <2>2, Rows
  <2> QED BY <1>2, <2>3
<1>8. ASSUME NEW i \in 1 .. 3 PROVE w[i] = v[i]
  BY <1>5, <1>6, <1>7
<1> HIDE DEF w
<1>9. w = v
  BY <1>1, <1>8, VectorEq
<1> QED BY <1>9 DEF w

(* A rotation keeps lengths and angles.                                    *)
LEMMA DotRigid ==
  ASSUME NEW F \in Rigid, NEW u \in Vectors, NEW v \in Vectors
  PROVE  Dot(Turn(F, u), Turn(F, v)) = Dot(u, v)
<1>1. F \in Frames /\ Turn(F, u) \in Vectors
  BY RigidType, TurnType
<1>2. Dot(Turn(F, u), Turn(F, v))
          = v[1] * Dot(Turn(F, u), F.x) + v[2] * Dot(Turn(F, u), F.y)
              + v[3] * Dot(Turn(F, u), F.z)
  BY <1>1, DotTurn
<1>3. ASSUME NEW w \in Vectors PROVE Dot(Turn(F, u), w) = Dot(w, Turn(F, u))
  BY <1>1, VectorType DEF Dot
<1>4. TurnBack(F, Turn(F, u)) = u
  BY BackTurn
<1>5. Dot(F.x, Turn(F, u)) = u[1] /\ Dot(F.y, Turn(F, u)) = u[2] /\ Dot(F.z, Turn(F, u)) = u[3]
  BY <1>4 DEF TurnBack
<1>6. Dot(Turn(F, u), F.x) = u[1] /\ Dot(Turn(F, u), F.y) = u[2] /\ Dot(Turn(F, u), F.z) = u[3]
  BY <1>3, <1>5, RigidType
<1> QED BY <1>2, <1>6, VectorType DEF Dot

(* Each axis is the cross product of the next two.                         *)
LEMMA Adjugate ==
  ASSUME NEW F \in Rigid
  PROVE  /\ F.y[2] * F.z[3] - F.y[3] * F.z[2] = F.x[1]
         /\ F.y[3] * F.z[1] - F.y[1] * F.z[3] = F.x[2]
         /\ F.y[1] * F.z[2] - F.y[2] * F.z[1] = F.x[3]
         /\ F.z[2] * F.x[3] - F.z[3] * F.x[2] = F.y[1]
         /\ F.z[3] * F.x[1] - F.z[1] * F.x[3] = F.y[2]
         /\ F.z[1] * F.x[2] - F.z[2] * F.x[1] = F.y[3]
         /\ F.x[2] * F.y[3] - F.x[3] * F.y[2] = F.z[1]
         /\ F.x[3] * F.y[1] - F.x[1] * F.y[3] = F.z[2]
         /\ F.x[1] * F.y[2] - F.x[2] * F.y[1] = F.z[3]
<1>1. F.x \in Units /\ F.y \in Units
  BY DEF Rigid
<1> QED BY <1>1, UnitCases, RigidCoordinates

\* The minors of a product, for one pair of rows.
LEMMA Minors ==
  ASSUME NEW u1 \in Int, NEW u2 \in Int, NEW u3 \in Int, NEW v1 \in Int, NEW v2 \in Int,
         NEW v3 \in Int,
         NEW a \in Int, NEW b \in Int, NEW c \in Int, NEW d \in Int, NEW e \in Int, NEW f \in Int
  PROVE  (u1 * a + u2 * b + u3 * c) * (v1 * d + v2 * e + v3 * f)
             - (u1 * d + u2 * e + u3 * f) * (v1 * a + v2 * b + v3 * c)
           = (u2 * v3 - u3 * v2) * (b * f - e * c) + (u3 * v1 - u1 * v3) * (c * d - f * a)
             + (u1 * v2 - u2 * v1) * (a * e - d * b)
OBVIOUS

(* A rotation turns cross products.                                        *)
LEMMA CrossRigid ==
  ASSUME NEW F \in Rigid, NEW u \in Vectors, NEW v \in Vectors
  PROVE  Cross(Turn(F, u), Turn(F, v)) = Turn(F, Cross(u, v))
<1> DEFINE a == Cross(Turn(F, u), Turn(F, v))
           b == Turn(F, Cross(u, v))
<1>1. F \in Frames /\ a \in Vectors /\ b \in Vectors
  BY RigidType, TurnType, CrossType
<1>2. /\ v[1] \in Int /\ v[2] \in Int /\ v[3] \in Int
      /\ u[1] \in Int /\ u[2] \in Int /\ u[3] \in Int
      /\ F.x[1] \in Int /\ F.x[2] \in Int /\ F.x[3] \in Int
      /\ F.y[1] \in Int /\ F.y[2] \in Int /\ F.y[3] \in Int
      /\ F.z[1] \in Int /\ F.z[2] \in Int /\ F.z[3] \in Int
  BY RigidType, VectorType
<1>4. /\ Turn(F, u)[1] = u[1] * F.x[1] + u[2] * F.y[1] + u[3] * F.z[1]
      /\ Turn(F, u)[2] = u[1] * F.x[2] + u[2] * F.y[2] + u[3] * F.z[2]
      /\ Turn(F, u)[3] = u[1] * F.x[3] + u[2] * F.y[3] + u[3] * F.z[3]
      /\ Turn(F, v)[1] = v[1] * F.x[1] + v[2] * F.y[1] + v[3] * F.z[1]
      /\ Turn(F, v)[2] = v[1] * F.x[2] + v[2] * F.y[2] + v[3] * F.z[2]
      /\ Turn(F, v)[3] = v[1] * F.x[3] + v[2] * F.y[3] + v[3] * F.z[3]
  BY <1>1, TurnAt
<1>5. ASSUME NEW i \in 1 .. 3
      PROVE  b[i] = (u[2] * v[3] - u[3] * v[2]) * F.x[i] + (u[3] * v[1] - u[1] * v[3]) * F.y[i]
                     + (u[1] * v[2] - u[2] * v[1]) * F.z[i]
  BY <1>1, TurnAt DEF Cross
<1>6. a[1] = b[1]
  <2>1. a[1] = Turn(F, u)[2] * Turn(F, v)[3] - Turn(F, u)[3] * Turn(F, v)[2]
    BY DEF Cross
  <2>2. b[1] = (u[2] * v[3] - u[3] * v[2]) * F.x[1] + (u[3] * v[1] - u[1] * v[3]) * F.y[1]
                     + (u[1] * v[2] - u[2] * v[1]) * F.z[1]
    BY <1>5
  <2> HIDE DEF a, b
  <2>3. a[1] = (u[2] * v[3] - u[3] * v[2]) * (F.y[2] * F.z[3] - F.y[3] * F.z[2])
                + (u[3] * v[1] - u[1] * v[3]) * (F.z[2] * F.x[3] - F.z[3] * F.x[2])
                + (u[1] * v[2] - u[2] * v[1]) * (F.x[2] * F.y[3] - F.x[3] * F.y[2])
    <3>1. (u[1] * F.x[2] + u[2] * F.y[2] + u[3] * F.z[2])
              * (v[1] * F.x[3] + v[2] * F.y[3] + v[3] * F.z[3])
                - (u[1] * F.x[3] + u[2] * F.y[3] + u[3] * F.z[3])
                    * (v[1] * F.x[2] + v[2] * F.y[2] + v[3] * F.z[2])
              = (u[2] * v[3] - u[3] * v[2]) * (F.y[2] * F.z[3] - F.y[3] * F.z[2])
                + (u[3] * v[1] - u[1] * v[3]) * (F.z[2] * F.x[3] - F.z[3] * F.x[2])
                + (u[1] * v[2] - u[2] * v[1]) * (F.x[2] * F.y[3] - F.x[3] * F.y[2])
      BY <1>2, Minors
    <3>2. a[1] = (u[1] * F.x[2] + u[2] * F.y[2] + u[3] * F.z[2])
              * (v[1] * F.x[3] + v[2] * F.y[3] + v[3] * F.z[3])
                - (u[1] * F.x[3] + u[2] * F.y[3] + u[3] * F.z[3])
                    * (v[1] * F.x[2] + v[2] * F.y[2] + v[3] * F.z[2])
      BY <1>4, <2>1
    <3> QED BY <3>1, <3>2
  <2> QED BY <1>2, <2>2, <2>3, Adjugate
<1>7. a[2] = b[2]
  <2>1. a[2] = Turn(F, u)[3] * Turn(F, v)[1] - Turn(F, u)[1] * Turn(F, v)[3]
    BY DEF Cross
  <2>2. b[2] = (u[2] * v[3] - u[3] * v[2]) * F.x[2] + (u[3] * v[1] - u[1] * v[3]) * F.y[2]
                     + (u[1] * v[2] - u[2] * v[1]) * F.z[2]
    BY <1>5
  <2> HIDE DEF a, b
  <2>3. a[2] = (u[2] * v[3] - u[3] * v[2]) * (F.y[3] * F.z[1] - F.y[1] * F.z[3])
                + (u[3] * v[1] - u[1] * v[3]) * (F.z[3] * F.x[1] - F.z[1] * F.x[3])
                + (u[1] * v[2] - u[2] * v[1]) * (F.x[3] * F.y[1] - F.x[1] * F.y[3])
    <3>1. (u[1] * F.x[3] + u[2] * F.y[3] + u[3] * F.z[3])
              * (v[1] * F.x[1] + v[2] * F.y[1] + v[3] * F.z[1])
                - (u[1] * F.x[1] + u[2] * F.y[1] + u[3] * F.z[1])
                    * (v[1] * F.x[3] + v[2] * F.y[3] + v[3] * F.z[3])
              = (u[2] * v[3] - u[3] * v[2]) * (F.y[3] * F.z[1] - F.y[1] * F.z[3])
                + (u[3] * v[1] - u[1] * v[3]) * (F.z[3] * F.x[1] - F.z[1] * F.x[3])
                + (u[1] * v[2] - u[2] * v[1]) * (F.x[3] * F.y[1] - F.x[1] * F.y[3])
      BY <1>2, Minors
    <3>2. a[2] = (u[1] * F.x[3] + u[2] * F.y[3] + u[3] * F.z[3])
              * (v[1] * F.x[1] + v[2] * F.y[1] + v[3] * F.z[1])
                - (u[1] * F.x[1] + u[2] * F.y[1] + u[3] * F.z[1])
                    * (v[1] * F.x[3] + v[2] * F.y[3] + v[3] * F.z[3])
      BY <1>4, <2>1
    <3> QED BY <3>1, <3>2
  <2> QED BY <1>2, <2>2, <2>3, Adjugate
<1>8. a[3] = b[3]
  <2>1. a[3] = Turn(F, u)[1] * Turn(F, v)[2] - Turn(F, u)[2] * Turn(F, v)[1]
    BY DEF Cross
  <2>2. b[3] = (u[2] * v[3] - u[3] * v[2]) * F.x[3] + (u[3] * v[1] - u[1] * v[3]) * F.y[3]
                     + (u[1] * v[2] - u[2] * v[1]) * F.z[3]
    BY <1>5
  <2> HIDE DEF a, b
  <2>3. a[3] = (u[2] * v[3] - u[3] * v[2]) * (F.y[1] * F.z[2] - F.y[2] * F.z[1])
                + (u[3] * v[1] - u[1] * v[3]) * (F.z[1] * F.x[2] - F.z[2] * F.x[1])
                + (u[1] * v[2] - u[2] * v[1]) * (F.x[1] * F.y[2] - F.x[2] * F.y[1])
    <3>1. (u[1] * F.x[1] + u[2] * F.y[1] + u[3] * F.z[1])
              * (v[1] * F.x[2] + v[2] * F.y[2] + v[3] * F.z[2])
                - (u[1] * F.x[2] + u[2] * F.y[2] + u[3] * F.z[2])
                    * (v[1] * F.x[1] + v[2] * F.y[1] + v[3] * F.z[1])
              = (u[2] * v[3] - u[3] * v[2]) * (F.y[1] * F.z[2] - F.y[2] * F.z[1])
                + (u[3] * v[1] - u[1] * v[3]) * (F.z[1] * F.x[2] - F.z[2] * F.x[1])
                + (u[1] * v[2] - u[2] * v[1]) * (F.x[1] * F.y[2] - F.x[2] * F.y[1])
      BY <1>2, Minors
    <3>2. a[3] = (u[1] * F.x[1] + u[2] * F.y[1] + u[3] * F.z[1])
              * (v[1] * F.x[2] + v[2] * F.y[2] + v[3] * F.z[2])
                - (u[1] * F.x[2] + u[2] * F.y[2] + u[3] * F.z[2])
                    * (v[1] * F.x[1] + v[2] * F.y[1] + v[3] * F.z[1])
      BY <1>4, <2>1
    <3> QED BY <3>1, <3>2
  <2> QED BY <1>2, <2>2, <2>3, Adjugate
<1>9. ASSUME NEW i \in 1 .. 3 PROVE a[i] = b[i]
  BY <1>6, <1>7, <1>8
<1> HIDE DEF a, b
<1>10. a = b
  BY <1>1, <1>9, VectorEq
<1> QED BY <1>10 DEF a, b

---------------------------------------------------------------------------
(* Rigid frames are a group: products and inverses of rigid frames are     *)
(* rigid.                                                                  *)

LEMMA ThirdUnit == ASSUME NEW F \in Rigid PROVE F.x \in Units /\ F.y \in Units /\ F.z \in Units
<1>1. F.x \in Units /\ F.y \in Units /\ F.z \in Vectors /\ F.z = <<F.z[1], F.z[2], F.z[3]>>
  BY RigidType, VectorType DEF Rigid
<1>2. \/ F.z[1] = 1 /\ F.z[2] = 0 /\ F.z[3] = 0
      \/ F.z[1] = 0 /\ F.z[2] = 1 /\ F.z[3] = 0
      \/ F.z[1] = 0 /\ F.z[2] = 0 /\ F.z[3] = 1
      \/ F.z[1] = -1 /\ F.z[2] = 0 /\ F.z[3] = 0
      \/ F.z[1] = 0 /\ F.z[2] = -1 /\ F.z[3] = 0
      \/ F.z[1] = 0 /\ F.z[2] = 0 /\ F.z[3] = -1
  BY <1>1, UnitCases, RigidCoordinates
<1> QED BY <1>1, <1>2 DEF Units

LEMMA Opposite == ASSUME NEW u \in Units PROVE Times(-1, u) \in Units
<1>1. Times(-1, u) = <<(-1) * u[1], (-1) * u[2], (-1) * u[3]>>
  BY DEF Times
<1> QED BY <1>1, UnitCases DEF Units

LEMMA TurnUnit ==
  ASSUME NEW F \in Rigid, NEW u \in Units
  PROVE  Turn(F, u) \in Units
<1>1. F \in Frames /\ F.x \in Units /\ F.y \in Units /\ F.z \in Units
  BY ThirdUnit, RigidType
<1>2. /\ <<1, 0, 0>> \in Vectors /\ <<0, 1, 0>> \in Vectors /\ <<0, 0, 1>> \in Vectors
  BY VectorMake
<1>3. \/ u = <<1, 0, 0>> \/ u = <<0, 1, 0>> \/ u = <<0, 0, 1>>
      \/ u = Times(-1, <<1, 0, 0>>) \/ u = Times(-1, <<0, 1, 0>>) \/ u = Times(-1, <<0, 0, 1>>)
  BY DEF Units, Times
<1>4. CASE u = <<1, 0, 0>> \/ u = <<0, 1, 0>> \/ u = <<0, 0, 1>>
  BY <1>1, <1>4, UnitTurns
<1>5. CASE u = Times(-1, <<1, 0, 0>>)
  BY <1>1, <1>2, <1>5, UnitTurns, TurnTimes, Opposite
<1>6. CASE u = Times(-1, <<0, 1, 0>>)
  BY <1>1, <1>2, <1>6, UnitTurns, TurnTimes, Opposite
<1>7. CASE u = Times(-1, <<0, 0, 1>>)
  BY <1>1, <1>2, <1>7, UnitTurns, TurnTimes, Opposite
<1> QED BY <1>3, <1>4, <1>5, <1>6, <1>7

(* The composition of rigid frames is rigid.                               *)
LEMMA ComposeRigid == ASSUME NEW F \in Rigid, NEW G \in Rigid PROVE Compose(F, G) \in Rigid
<1>1. /\ F \in Frames /\ G \in Frames /\ G.x \in Units /\ G.y \in Units /\ G.x \in Vectors
      /\ G.y \in Vectors
      /\ Dot(G.x, G.y) = 0 /\ G.z = Cross(G.x, G.y)
  BY UnitType DEF Rigid
<1>2. Turn(F, G.x) \in Units /\ Turn(F, G.y) \in Units
  BY <1>1, TurnUnit
<1>3. Dot(Turn(F, G.x), Turn(F, G.y)) = 0 /\ Cross(Turn(F, G.x), Turn(F, G.y)) = Turn(F, G.z)
  BY <1>1, DotRigid, CrossRigid
<1> QED BY <1>1, <1>2, <1>3, ComposeType, ComposeParts DEF Rigid

LEMMA InvertParts ==
  ASSUME NEW F \in Frames
  PROVE  /\ Invert(F).x = <<F.x[1], F.y[1], F.z[1]>>
         /\ Invert(F).y = <<F.x[2], F.y[2], F.z[2]>>
         /\ Invert(F).z = <<F.x[3], F.y[3], F.z[3]>>
         /\ Invert(F).p = Times(-1, TurnBack(F, F.p))
         /\ Invert(F) \in Frames
<1>1. /\ F.x[1] \in Int /\ F.x[2] \in Int /\ F.x[3] \in Int
      /\ F.y[1] \in Int /\ F.y[2] \in Int /\ F.y[3] \in Int
      /\ F.z[1] \in Int /\ F.z[2] \in Int /\ F.z[3] \in Int
  BY FrameType, VectorType
<1>2. ASSUME NEW v \in Vectors
      PROVE  Dot(v, <<1, 0, 0>>) = v[1] /\ Dot(v, <<0, 1, 0>>) = v[2]
                 /\ Dot(v, <<0, 0, 1>>) = v[3]
  BY VectorType DEF Dot
<1>3. /\ TurnBack(F, <<1, 0, 0>>) = <<F.x[1], F.y[1], F.z[1]>>
      /\ TurnBack(F, <<0, 1, 0>>) = <<F.x[2], F.y[2], F.z[2]>>
      /\ TurnBack(F, <<0, 0, 1>>) = <<F.x[3], F.y[3], F.z[3]>>
  BY <1>2, FrameType DEF TurnBack
<1>4. /\ <<F.x[1], F.y[1], F.z[1]>> \in Vectors
      /\ <<F.x[2], F.y[2], F.z[2]>> \in Vectors
      /\ <<F.x[3], F.y[3], F.z[3]>> \in Vectors
      /\ Times(-1, TurnBack(F, F.p)) \in Vectors
  BY <1>1, VectorMake, TurnBackType, TimesType, FrameType
<1> QED BY <1>3, <1>4, FrameMake DEF Invert, FrameOf

(* So is the inverse.                                                      *)
LEMMA InvertRigid == ASSUME NEW F \in Rigid PROVE Invert(F) \in Rigid
<1>1. F \in Frames /\ F.x \in Units /\ F.y \in Units
  BY RigidType DEF Rigid
<1>2. /\ F.x[1] \in Int /\ F.x[2] \in Int /\ F.x[3] \in Int
      /\ F.y[1] \in Int /\ F.y[2] \in Int /\ F.y[3] \in Int
      /\ F.z[1] \in Int /\ F.z[2] \in Int /\ F.z[3] \in Int
  BY <1>1, FrameType, VectorType
<1>3. <<F.x[1], F.y[1], F.z[1]>> \in Units
  <2>1. \/ F.x[1] = 1 /\ F.y[1] = 0 /\ F.z[1] = 0
        \/ F.x[1] = 0 /\ F.y[1] = 1 /\ F.z[1] = 0
        \/ F.x[1] = 0 /\ F.y[1] = 0 /\ F.z[1] = 1
        \/ F.x[1] = -1 /\ F.y[1] = 0 /\ F.z[1] = 0
        \/ F.x[1] = 0 /\ F.y[1] = -1 /\ F.z[1] = 0
        \/ F.x[1] = 0 /\ F.y[1] = 0 /\ F.z[1] = -1
    BY <1>1, UnitCases, RigidCoordinates
  <2> QED BY <2>1 DEF Units
<1>4. <<F.x[2], F.y[2], F.z[2]>> \in Units
  <2>1. \/ F.x[2] = 1 /\ F.y[2] = 0 /\ F.z[2] = 0
        \/ F.x[2] = 0 /\ F.y[2] = 1 /\ F.z[2] = 0
        \/ F.x[2] = 0 /\ F.y[2] = 0 /\ F.z[2] = 1
        \/ F.x[2] = -1 /\ F.y[2] = 0 /\ F.z[2] = 0
        \/ F.x[2] = 0 /\ F.y[2] = -1 /\ F.z[2] = 0
        \/ F.x[2] = 0 /\ F.y[2] = 0 /\ F.z[2] = -1
    BY <1>1, UnitCases, RigidCoordinates
  <2> QED BY <2>1 DEF Units
<1>5. Dot(<<F.x[1], F.y[1], F.z[1]>>, <<F.x[2], F.y[2], F.z[2]>>) = 0
  BY Rows DEF Dot
<1>6. Cross(<<F.x[1], F.y[1], F.z[1]>>, <<F.x[2], F.y[2], F.z[2]>>) = <<F.x[3], F.y[3], F.z[3]>>
  <2>1. /\ F.y[1] * F.z[2] - F.z[1] * F.y[2] = F.x[3]
        /\ F.z[1] * F.x[2] - F.x[1] * F.z[2] = F.y[3]
        /\ F.x[1] * F.y[2] - F.y[1] * F.x[2] = F.z[3]
    <3>1. /\ F.y[2] * F.z[1] = F.z[1] * F.y[2] /\ F.x[2] * F.z[1] = F.z[1] * F.x[2]
          /\ F.y[1] * F.x[2] = F.x[2] * F.y[1]
      BY <1>2
    <3>2. /\ F.y[1] * F.z[2] - F.y[2] * F.z[1] = F.x[3]
          /\ F.z[1] * F.x[2] - F.z[2] * F.x[1] = F.y[3]
          /\ F.x[1] * F.y[2] - F.x[2] * F.y[1] = F.z[3]
      BY Adjugate
    <3> QED BY <1>2, <3>1, <3>2
  <2> QED BY <2>1 DEF Cross
<1> QED BY <1>1, <1>3, <1>4, <1>5, <1>6, InvertParts DEF Rigid

LEMMA InvertTurns ==
  ASSUME NEW F \in Frames, NEW v \in Vectors
  PROVE  Turn(Invert(F), v) = TurnBack(F, v)
<1>1. Turn(Invert(F), v) \in Vectors /\ TurnBack(F, v) \in Vectors
  BY InvertParts, TurnType, TurnBackType
<1>2. /\ F.x[1] \in Int /\ F.x[2] \in Int /\ F.x[3] \in Int
      /\ F.y[1] \in Int /\ F.y[2] \in Int /\ F.y[3] \in Int
      /\ F.z[1] \in Int /\ F.z[2] \in Int /\ F.z[3] \in Int
      /\ v[1] \in Int /\ v[2] \in Int /\ v[3] \in Int
  BY FrameType, VectorType
<1>3. /\ Turn(Invert(F), v)[1] = v[1] * F.x[1] + v[2] * F.x[2] + v[3] * F.x[3]
      /\ Turn(Invert(F), v)[2] = v[1] * F.y[1] + v[2] * F.y[2] + v[3] * F.y[3]
      /\ Turn(Invert(F), v)[3] = v[1] * F.z[1] + v[2] * F.z[2] + v[3] * F.z[3]
  BY InvertParts, TurnAt
<1>4. /\ TurnBack(F, v)[1] = F.x[1] * v[1] + F.x[2] * v[2] + F.x[3] * v[3]
      /\ TurnBack(F, v)[2] = F.y[1] * v[1] + F.y[2] * v[2] + F.y[3] * v[3]
      /\ TurnBack(F, v)[3] = F.z[1] * v[1] + F.z[2] * v[2] + F.z[3] * v[3]
  BY DEF TurnBack, Dot
<1>5. /\ Turn(Invert(F), v)[1] = TurnBack(F, v)[1]
      /\ Turn(Invert(F), v)[2] = TurnBack(F, v)[2]
      /\ Turn(Invert(F), v)[3] = TurnBack(F, v)[3]
  BY <1>2, <1>3, <1>4
<1>6. ASSUME NEW i \in 1 .. 3 PROVE Turn(Invert(F), v)[i] = TurnBack(F, v)[i]
  BY <1>5
<1> QED BY <1>1, <1>6, VectorEq

LEMMA InverseRight == ASSUME NEW F \in Rigid PROVE Compose(F, Invert(F)) = Identity
<1>1. /\ F \in Frames /\ F.p \in Vectors /\ TurnBack(F, F.p) \in Vectors
      /\ <<1, 0, 0>> \in Vectors /\ <<0, 1, 0>> \in Vectors /\ <<0, 0, 1>> \in Vectors
  BY RigidType, VectorMake, TurnBackType
<1>2. /\ Invert(F).x = TurnBack(F, <<1, 0, 0>>) /\ Invert(F).y = TurnBack(F, <<0, 1, 0>>)
      /\ Invert(F).z = TurnBack(F, <<0, 0, 1>>) /\ Invert(F).p = Times(-1, TurnBack(F, F.p))
  BY DEF Invert, FrameOf
<1>3. /\ Turn(F, Invert(F).x) = <<1, 0, 0>> /\ Turn(F, Invert(F).y) = <<0, 1, 0>>
      /\ Turn(F, Invert(F).z) = <<0, 0, 1>>
  BY <1>1, <1>2, TurnBackAgain
<1>4. Turn(F, Invert(F).p) = Times(-1, F.p)
  BY <1>1, <1>2, TurnTimes, TurnBackAgain
<1>5. Plus(Times(-1, F.p), F.p) = Zero
  <2>1. Times(-1, F.p) = <<(-1) * F.p[1], (-1) * F.p[2], (-1) * F.p[3]>>
    BY DEF Times
  <2> QED BY <1>1, <2>1, VectorType DEF Plus, Zero
<1>6. Move(F, Invert(F).p) = Zero
  BY <1>4, <1>5 DEF Move
<1> QED BY <1>1, <1>3, <1>6 DEF Compose, Identity, Translate

LEMMA InverseLeft == ASSUME NEW F \in Rigid PROVE Compose(Invert(F), F) = Identity
<1> DEFINE G == Invert(F)
           K == Invert(G)
<1>1. F \in Frames /\ G \in Rigid /\ G \in Frames /\ K \in Rigid /\ K \in Frames
  BY InvertRigid, RigidType
<1>2. Compose(F, G) = Identity /\ Compose(G, K) = Identity
  BY <1>1, InverseRight
<1> HIDE DEF G, K
<1>3. Compose(F, Compose(G, K)) = Compose(Compose(F, G), K)
  BY <1>1, ComposeAssoc
<1>4. F = K
  BY <1>1, <1>2, <1>3, IdentityLeft, IdentityRight
<1> QED BY <1>2, <1>4 DEF G

(* A frame has one inverse.                                                *)
LEMMA InverseUnique ==
  ASSUME NEW F \in Rigid, NEW G \in Frames, Compose(F, G) = Identity
  PROVE  G = Invert(F)
<1>1. F \in Frames /\ Invert(F) \in Frames
  BY InvertRigid, RigidType
<1>2. Compose(Invert(F), Compose(F, G)) = Compose(Compose(Invert(F), F), G)
  BY <1>1, ComposeAssoc
<1> QED BY <1>1, <1>2, InverseLeft, IdentityLeft, IdentityRight

LEMMA IdentityRigid == Identity \in Rigid
<1>1. <<1, 0, 0>> \in Units /\ <<0, 1, 0>> \in Units
  BY DEF Units
<1>2. Dot(<<1, 0, 0>>, <<0, 1, 0>>) = 0 /\ Cross(<<1, 0, 0>>, <<0, 1, 0>>) = <<0, 0, 1>>
  BY DEF Dot, Cross
<1> QED BY <1>1, <1>2, IdentityType, TranslateType, ZeroType DEF Rigid, Identity

LEMMA TranslateRigid == ASSUME NEW p \in Vectors PROVE Translate(p) \in Rigid
<1>1. <<1, 0, 0>> \in Units /\ <<0, 1, 0>> \in Units
  BY DEF Units
<1>2. Dot(<<1, 0, 0>>, <<0, 1, 0>>) = 0 /\ Cross(<<1, 0, 0>>, <<0, 1, 0>>) = <<0, 0, 1>>
  BY DEF Dot, Cross
<1> QED BY <1>1, <1>2, TranslateType DEF Rigid

(* The inverse of a composition is that of its parts in the opposite       *)
(* order.                                                                  *)
LEMMA InverseOfProduct ==
  ASSUME NEW F \in Rigid, NEW G \in Rigid
  PROVE  Invert(Compose(F, G)) = Compose(Invert(G), Invert(F))
<1>1. /\ F \in Frames /\ G \in Frames /\ Invert(F) \in Frames /\ Invert(G) \in Frames
      /\ Compose(F, G) \in Rigid /\ Compose(Invert(G), Invert(F)) \in Frames
  BY RigidType, InvertRigid, ComposeRigid, ComposeType
<1>2. Compose(Compose(F, G), Compose(Invert(G), Invert(F)))
          = Compose(F, Compose(G, Compose(Invert(G), Invert(F))))
  BY <1>1, ComposeAssoc
<1>3. Compose(G, Compose(Invert(G), Invert(F))) = Compose(Compose(G, Invert(G)), Invert(F))
  BY <1>1, ComposeAssoc
<1>4. Compose(Compose(F, G), Compose(Invert(G), Invert(F))) = Identity
  BY <1>1, <1>2, <1>3, InverseRight, IdentityLeft
<1> QED BY <1>1, <1>4, InverseUnique

---------------------------------------------------------------------------
(* Rotations about an axis are rigid, and turn with the axis.              *)
LEMMA Quarters ==
  ASSUME NEW k \in Int
  PROVE  /\ \/ Cos(k) = 1 /\ Sin(k) = 0
            \/ Cos(k) = 0 /\ Sin(k) = 1
            \/ Cos(k) = -1 /\ Sin(k) = 0
            \/ Cos(k) = 0 /\ Sin(k) = -1
         /\ Cos(-k) = Cos(k) /\ Sin(-k) = -Sin(k)
<1>1. k % 4 \in 0 .. 3 /\ (-k) % 4 = (IF k % 4 = 0 THEN 0 ELSE 4 - (k % 4))
  OBVIOUS
<1> QED BY <1>1 DEF Sin, Cos

LEMMA RotateParts ==
  ASSUME NEW a, NEW k, NEW v
  PROVE  /\ Rotate(a, k, v) = Plus(Plus(Times(Cos(k), v), Times(Sin(k), Cross(a, v))),
                Times((1 - Cos(k)) * Dot(a, v), a))
         /\ Rotate(a, k, v)[1] = Cos(k) * v[1] + Sin(k) * (a[2] * v[3] - a[3] * v[2])
                + ((1 - Cos(k)) * Dot(a, v)) * a[1]
         /\ Rotate(a, k, v)[2] = Cos(k) * v[2] + Sin(k) * (a[3] * v[1] - a[1] * v[3])
                + ((1 - Cos(k)) * Dot(a, v)) * a[2]
         /\ Rotate(a, k, v)[3] = Cos(k) * v[3] + Sin(k) * (a[1] * v[2] - a[2] * v[1])
                + ((1 - Cos(k)) * Dot(a, v)) * a[3]
<1>1. Rotate(a, k, v) = Plus(Plus(Times(Cos(k), v), Times(Sin(k), Cross(a, v))),
          Times((1 - Cos(k)) * Dot(a, v), a))
  BY DEF Rotate, Cos, Sin
<1> DEFINE c == Cos(k)
           t == Sin(k)
           m == (1 - Cos(k)) * Dot(a, v)
           n == Cross(a, v)
           p == Times(c, v)
           r == Times(t, n)
           o == Times(m, a)
<1>2. \A i \in 1 .. 3 : Plus(Plus(p, r), o)[i] = p[i] + r[i] + o[i]
  <2> HIDE DEF p, r, o
  <2> QED BY DEF Plus
<1>3. /\ p[1] = c * v[1] /\ p[2] = c * v[2] /\ p[3] = c * v[3]
      /\ r[1] = t * n[1] /\ r[2] = t * n[2] /\ r[3] = t * n[3]
      /\ o[1] = m * a[1] /\ o[2] = m * a[2] /\ o[3] = m * a[3]
  <2> HIDE DEF c, t, m, n
  <2> QED BY DEF p, r, o, Times
<1>4. n[1] = a[2] * v[3] - a[3] * v[2] /\ n[2] = a[3] * v[1] - a[1] * v[3]
          /\ n[3] = a[1] * v[2] - a[2] * v[1]
  BY DEF Cross
<1>5. Rotate(a, k, v) = Plus(Plus(p, r), o)
  BY <1>1
<1> HIDE DEF n, p, r, o
<1> QED BY <1>1, <1>2, <1>3, <1>4, <1>5

LEMMA RotateType ==
  ASSUME NEW a \in Units, NEW k \in Int, NEW v \in Vectors
  PROVE  Rotate(a, k, v) \in Vectors
<1>1. a \in Vectors /\ Cos(k) \in Int /\ Sin(k) \in Int
  BY UnitType, Quarters
<1>2. Cross(a, v) \in Vectors /\ Dot(a, v) \in Int
  BY <1>1, CrossType, DotType
<1>3. (1 - Cos(k)) * Dot(a, v) \in Int
  BY <1>1, <1>2
<1>4. Times(Cos(k), v) \in Vectors /\ Times(Sin(k), Cross(a, v)) \in Vectors
          /\ Times((1 - Cos(k)) * Dot(a, v), a) \in Vectors
  BY <1>1, <1>2, <1>3, TimesType
<1> QED BY <1>4, PlusType, RotateParts

LEMMA RotationParts ==
  ASSUME NEW a \in Units, NEW k \in Int
  PROVE  LET R == Rotation(a, k)
         IN  /\ R \in Frames /\ R.p = Zero
             /\ R.x = Rotate(a, k, <<1, 0, 0>>) /\ R.y = Rotate(a, k, <<0, 1, 0>>)
             /\ R.z = Rotate(a, k, <<0, 0, 1>>)
<1>1. <<1, 0, 0>> \in Vectors /\ <<0, 1, 0>> \in Vectors /\ <<0, 0, 1>> \in Vectors
  BY VectorMake
<1> QED BY <1>1, RotateType, ZeroType, FrameMake DEF Rotation, FrameOf

LEMMA RotationTurns ==
  ASSUME NEW a \in Units, NEW k \in Int, NEW v \in Vectors
  PROVE  Turn(Rotation(a, k), v) = Rotate(a, k, v)
<1> DEFINE l == Turn(Rotation(a, k), v)
           r == Rotate(a, k, v)
<1>1. l \in Vectors /\ r \in Vectors
  BY RotationParts, TurnType, RotateType
<1>2. /\ a[1] \in Int /\ a[2] \in Int /\ a[3] \in Int /\ v[1] \in Int /\ v[2] \in Int
      /\ v[3] \in Int
      /\ Cos(k) \in Int /\ Sin(k) \in Int
  BY UnitType, VectorType, Quarters
<1>3. ASSUME NEW i \in 1 .. 3
      PROVE  l[i] = v[1] * Rotate(a, k, <<1, 0, 0>>)[i] + v[2] * Rotate(a, k, <<0, 1, 0>>)[i]
                     + v[3] * Rotate(a, k, <<0, 0, 1>>)[i]
  BY RotationParts, TurnAt
<1>4. /\ Dot(a, <<1, 0, 0>>) = a[1] /\ Dot(a, <<0, 1, 0>>) = a[2] /\ Dot(a, <<0, 0, 1>>) = a[3]
      /\ Dot(a, v) = a[1] * v[1] + a[2] * v[2] + a[3] * v[3]
  BY <1>2 DEF Dot
<1> HIDE DEF l, r
<1>5. l[1] = r[1]
  <2>1. /\ Rotate(a, k, <<1, 0, 0>>)[1] = Cos(k) + (1 - Cos(k)) * a[1] * a[1]
        /\ Rotate(a, k, <<0, 1, 0>>)[1] = -Sin(k) * a[3] + (1 - Cos(k)) * a[2] * a[1]
        /\ Rotate(a, k, <<0, 0, 1>>)[1] = Sin(k) * a[2] + (1 - Cos(k)) * a[3] * a[1]
    BY <1>2, <1>4, RotateParts
  <2>2. r[1] = Cos(k) * v[1] + Sin(k) * (a[2] * v[3] - a[3] * v[2])
            + ((1 - Cos(k)) * Dot(a, v)) * a[1]
    BY RotateParts DEF r
  <2>3. l[1] = v[1] * Rotate(a, k, <<1, 0, 0>>)[1] + v[2] * Rotate(a, k, <<0, 1, 0>>)[1]
                + v[3] * Rotate(a, k, <<0, 0, 1>>)[1]
    BY <1>3
  <2> QED BY <1>2, <1>4, <2>1, <2>2, <2>3
<1>6. l[2] = r[2]
  <2>1. /\ Rotate(a, k, <<1, 0, 0>>)[2] = Sin(k) * a[3] + (1 - Cos(k)) * a[1] * a[2]
        /\ Rotate(a, k, <<0, 1, 0>>)[2] = Cos(k) + (1 - Cos(k)) * a[2] * a[2]
        /\ Rotate(a, k, <<0, 0, 1>>)[2] = -Sin(k) * a[1] + (1 - Cos(k)) * a[3] * a[2]
    BY <1>2, <1>4, RotateParts
  <2>2. r[2] = Cos(k) * v[2] + Sin(k) * (a[3] * v[1] - a[1] * v[3])
            + ((1 - Cos(k)) * Dot(a, v)) * a[2]
    BY RotateParts DEF r
  <2>3. l[2] = v[1] * Rotate(a, k, <<1, 0, 0>>)[2] + v[2] * Rotate(a, k, <<0, 1, 0>>)[2]
                + v[3] * Rotate(a, k, <<0, 0, 1>>)[2]
    BY <1>3
  <2> QED BY <1>2, <1>4, <2>1, <2>2, <2>3
<1>7. l[3] = r[3]
  <2>1. /\ Rotate(a, k, <<1, 0, 0>>)[3] = -Sin(k) * a[2] + (1 - Cos(k)) * a[1] * a[3]
        /\ Rotate(a, k, <<0, 1, 0>>)[3] = Sin(k) * a[1] + (1 - Cos(k)) * a[2] * a[3]
        /\ Rotate(a, k, <<0, 0, 1>>)[3] = Cos(k) + (1 - Cos(k)) * a[3] * a[3]
    BY <1>2, <1>4, RotateParts
  <2>2. r[3] = Cos(k) * v[3] + Sin(k) * (a[1] * v[2] - a[2] * v[1])
            + ((1 - Cos(k)) * Dot(a, v)) * a[3]
    BY RotateParts DEF r
  <2>3. l[3] = v[1] * Rotate(a, k, <<1, 0, 0>>)[3] + v[2] * Rotate(a, k, <<0, 1, 0>>)[3]
                + v[3] * Rotate(a, k, <<0, 0, 1>>)[3]
    BY <1>3
  <2> QED BY <1>2, <1>4, <2>1, <2>2, <2>3
<1>8. ASSUME NEW i \in 1 .. 3 PROVE l[i] = r[i]
  BY <1>5, <1>6, <1>7
<1>9. l = r
  BY <1>1, <1>8, VectorEq
<1> QED BY <1>9 DEF l, r

LEMMA RotationRigid == ASSUME NEW a \in Units, NEW k \in Int PROVE Rotation(a, k) \in Rigid
<1> DEFINE R == Rotation(a, k)
<1>1. /\ R \in Frames /\ R.x \in Vectors /\ R.y \in Vectors /\ R.z \in Vectors
      /\ R.x = Rotate(a, k, <<1, 0, 0>>) /\ R.y = Rotate(a, k, <<0, 1, 0>>)
      /\ R.z = Rotate(a, k, <<0, 0, 1>>)
  BY RotationParts, FrameType
<1>2. /\ a[1] \in Int /\ a[2] \in Int /\ a[3] \in Int
      /\ Cos(k) \in Int /\ Sin(k) \in Int
  BY UnitType, VectorType, Quarters
<1>4. /\ Dot(a, <<1, 0, 0>>) = a[1] /\ Dot(a, <<0, 1, 0>>) = a[2] /\ Dot(a, <<0, 0, 1>>) = a[3]
  BY <1>2 DEF Dot
<1> HIDE DEF R
<1>5. /\ R.x[1] = Cos(k) + (1 - Cos(k)) * a[1] * a[1]
      /\ R.x[2] = Sin(k) * a[3] + (1 - Cos(k)) * a[1] * a[2]
      /\ R.x[3] = -Sin(k) * a[2] + (1 - Cos(k)) * a[1] * a[3]
  BY <1>1, <1>2, <1>4, RotateParts
<1>6. /\ R.y[1] = -Sin(k) * a[3] + (1 - Cos(k)) * a[2] * a[1]
      /\ R.y[2] = Cos(k) + (1 - Cos(k)) * a[2] * a[2]
      /\ R.y[3] = Sin(k) * a[1] + (1 - Cos(k)) * a[2] * a[3]
  BY <1>1, <1>2, <1>4, RotateParts
<1>7. /\ R.z[1] = Sin(k) * a[2] + (1 - Cos(k)) * a[3] * a[1]
      /\ R.z[2] = -Sin(k) * a[1] + (1 - Cos(k)) * a[3] * a[2]
      /\ R.z[3] = Cos(k) + (1 - Cos(k)) * a[3] * a[3]
  BY <1>1, <1>2, <1>4, RotateParts
<1>8. R.x \in Units
  <2>1. \/ R.x[1] = 1 /\ R.x[2] = 0 /\ R.x[3] = 0
        \/ R.x[1] = 0 /\ R.x[2] = 1 /\ R.x[3] = 0
        \/ R.x[1] = 0 /\ R.x[2] = 0 /\ R.x[3] = 1
        \/ R.x[1] = -1 /\ R.x[2] = 0 /\ R.x[3] = 0
        \/ R.x[1] = 0 /\ R.x[2] = -1 /\ R.x[3] = 0
        \/ R.x[1] = 0 /\ R.x[2] = 0 /\ R.x[3] = -1
    BY <1>5, UnitCases, Quarters
  <2> QED BY <1>1, <2>1, VectorType DEF Units
<1>9. R.y \in Units
  <2>1. \/ R.y[1] = 1 /\ R.y[2] = 0 /\ R.y[3] = 0
        \/ R.y[1] = 0 /\ R.y[2] = 1 /\ R.y[3] = 0
        \/ R.y[1] = 0 /\ R.y[2] = 0 /\ R.y[3] = 1
        \/ R.y[1] = -1 /\ R.y[2] = 0 /\ R.y[3] = 0
        \/ R.y[1] = 0 /\ R.y[2] = -1 /\ R.y[3] = 0
        \/ R.y[1] = 0 /\ R.y[2] = 0 /\ R.y[3] = -1
    BY <1>6, UnitCases, Quarters
  <2> QED BY <1>1, <2>1, VectorType DEF Units
<1>10. Dot(R.x, R.y) = 0
  BY <1>5, <1>6, UnitCases, Quarters DEF Dot
<1>11. R.z = Cross(R.x, R.y)
  <2>1. /\ R.z[1] = R.x[2] * R.y[3] - R.x[3] * R.y[2]
        /\ R.z[2] = R.x[3] * R.y[1] - R.x[1] * R.y[3]
        /\ R.z[3] = R.x[1] * R.y[2] - R.x[2] * R.y[1]
    BY <1>5, <1>6, <1>7, UnitCases, Quarters
  <2> QED BY <1>1, <2>1, VectorType DEF Cross
<1> QED BY <1>1, <1>8, <1>9, <1>10, <1>11 DEF Rigid, R

(* Turning about a turned axis is turning, then being turned.              *)
LEMMA Conjugate ==
  ASSUME NEW G \in Rigid, NEW a \in Units, NEW k \in Int, NEW v \in Vectors
  PROVE  Rotate(Turn(G, a), k, Turn(G, v)) = Turn(G, Rotate(a, k, v))
<1>1. /\ G \in Frames /\ a \in Vectors /\ Cos(k) \in Int /\ Sin(k) \in Int
      /\ Cross(a, v) \in Vectors /\ Dot(a, v) \in Int /\ (1 - Cos(k)) * Dot(a, v) \in Int
  <2>1. a \in Vectors /\ Cos(k) \in Int /\ Sin(k) \in Int
    BY UnitType, Quarters
  <2>2. Dot(a, v) \in Int
    BY <2>1, DotType
  <2>3. (1 - Cos(k)) * Dot(a, v) \in Int
    BY <2>1, <2>2
  <2> QED BY <2>1, <2>2, <2>3, RigidType, CrossType
<1>2. /\ Times(Cos(k), v) \in Vectors /\ Times(Sin(k), Cross(a, v)) \in Vectors
      /\ Times((1 - Cos(k)) * Dot(a, v), a) \in Vectors
      /\ Plus(Times(Cos(k), v), Times(Sin(k), Cross(a, v))) \in Vectors
  BY <1>1, TimesType, PlusType
<1>3. Turn(G, Rotate(a, k, v)) =
        Plus(Plus(Turn(G, Times(Cos(k), v)), Turn(G, Times(Sin(k), Cross(a, v)))),
            Turn(G, Times((1 - Cos(k)) * Dot(a, v), a)))
  BY <1>1, <1>2, RotateParts, TurnPlus
<1>4. /\ Turn(G, Times(Cos(k), v)) = Times(Cos(k), Turn(G, v))
      /\ Turn(G, Times(Sin(k), Cross(a, v))) = Times(Sin(k), Cross(Turn(G, a), Turn(G, v)))
      /\ Turn(G, Times((1 - Cos(k)) * Dot(a, v), a))
             = Times((1 - Cos(k)) * Dot(Turn(G, a), Turn(G, v)), Turn(G, a))
  BY <1>1, TurnTimes, CrossRigid, DotRigid
<1> QED BY <1>3, <1>4, RotateParts

(* The way back is the opposite turn. *)
LEMMA RotationTurnsBack ==
  ASSUME NEW a \in Units, NEW k \in Int, NEW v \in Vectors
  PROVE  TurnBack(Rotation(a, k), v) = Rotate(a, -k, v)
<1> DEFINE R == Rotation(a, k)
           l == TurnBack(R, v)
           r == Rotate(a, -k, v)
<1>1. /\ R \in Frames /\ l \in Vectors /\ r \in Vectors /\ -k \in Int
      /\ R.x = Rotate(a, k, <<1, 0, 0>>) /\ R.y = Rotate(a, k, <<0, 1, 0>>)
      /\ R.z = Rotate(a, k, <<0, 0, 1>>)
  BY RotationParts, TurnBackType, RotateType
<1>2. /\ a[1] \in Int /\ a[2] \in Int /\ a[3] \in Int /\ v[1] \in Int /\ v[2] \in Int
      /\ v[3] \in Int
      /\ Cos(k) \in Int /\ Sin(k) \in Int /\ Cos(-k) = Cos(k) /\ Sin(-k) = -Sin(k)
  BY UnitType, VectorType, Quarters
<1>3. /\ Dot(a, <<1, 0, 0>>) = a[1] /\ Dot(a, <<0, 1, 0>>) = a[2] /\ Dot(a, <<0, 0, 1>>) = a[3]
      /\ Dot(a, v) = a[1] * v[1] + a[2] * v[2] + a[3] * v[3]
  BY <1>2 DEF Dot
<1>4. l[1] = Dot(R.x, v) /\ l[2] = Dot(R.y, v) /\ l[3] = Dot(R.z, v)
  BY DEF TurnBack
<1> HIDE DEF l, r, R
<1>5. l[1] = r[1]
  <2>1. /\ R.x[1] = Cos(k) + (1 - Cos(k)) * a[1] * a[1]
        /\ R.x[2] = Sin(k) * a[3] + (1 - Cos(k)) * a[1] * a[2]
        /\ R.x[3] = -Sin(k) * a[2] + (1 - Cos(k)) * a[1] * a[3]
    BY <1>1, <1>2, <1>3, RotateParts
  <2>2. r[1] = Cos(k) * v[1] + (-Sin(k)) * (a[2] * v[3] - a[3] * v[2])
            + ((1 - Cos(k)) * Dot(a, v)) * a[1]
    BY <1>2, RotateParts DEF r
  <2>3. l[1] = R.x[1] * v[1] + R.x[2] * v[2] + R.x[3] * v[3]
    BY <1>4 DEF Dot
  <2> QED BY <1>2, <1>3, <2>1, <2>2, <2>3
<1>6. l[2] = r[2]
  <2>1. /\ R.y[1] = -Sin(k) * a[3] + (1 - Cos(k)) * a[2] * a[1]
        /\ R.y[2] = Cos(k) + (1 - Cos(k)) * a[2] * a[2]
        /\ R.y[3] = Sin(k) * a[1] + (1 - Cos(k)) * a[2] * a[3]
    BY <1>1, <1>2, <1>3, RotateParts
  <2>2. r[2] = Cos(k) * v[2] + (-Sin(k)) * (a[3] * v[1] - a[1] * v[3])
            + ((1 - Cos(k)) * Dot(a, v)) * a[2]
    BY <1>2, RotateParts DEF r
  <2>3. l[2] = R.y[1] * v[1] + R.y[2] * v[2] + R.y[3] * v[3]
    BY <1>4 DEF Dot
  <2>4. l[2] = (-Sin(k) * a[3] + (1 - Cos(k)) * a[2] * a[1]) * v[1]
                + (Cos(k) + (1 - Cos(k)) * a[2] * a[2]) * v[2]
                + (Sin(k) * a[1] + (1 - Cos(k)) * a[2] * a[3]) * v[3]
    BY <2>1, <2>3
  <2>5. r[2] = Cos(k) * v[2] + (-Sin(k)) * (a[3] * v[1] - a[1] * v[3])
                + ((1 - Cos(k)) * (a[1] * v[1] + a[2] * v[2] + a[3] * v[3])) * a[2]
    BY <1>3, <2>2
  <2> QED BY <1>2, <2>4, <2>5
<1>7. l[3] = r[3]
  <2>1. /\ R.z[1] = Sin(k) * a[2] + (1 - Cos(k)) * a[3] * a[1]
        /\ R.z[2] = -Sin(k) * a[1] + (1 - Cos(k)) * a[3] * a[2]
        /\ R.z[3] = Cos(k) + (1 - Cos(k)) * a[3] * a[3]
    BY <1>1, <1>2, <1>3, RotateParts
  <2>2. r[3] = Cos(k) * v[3] + (-Sin(k)) * (a[1] * v[2] - a[2] * v[1])
            + ((1 - Cos(k)) * Dot(a, v)) * a[3]
    BY <1>2, RotateParts DEF r
  <2>3. l[3] = R.z[1] * v[1] + R.z[2] * v[2] + R.z[3] * v[3]
    BY <1>4 DEF Dot
  <2> QED BY <1>2, <1>3, <2>1, <2>2, <2>3
<1>8. ASSUME NEW i \in 1 .. 3 PROVE l[i] = r[i]
  BY <1>5, <1>6, <1>7
<1>9. l = r
  BY <1>1, <1>8, VectorEq
<1> QED BY <1>9 DEF l, r, R

---------------------------------------------------------------------------
(* The motion of a joint (MatrixExponential.cpp).                          *)

Exps == [kind : {"rotation", "translation"}, axis : Units, origin : Vectors]

LEMMA ExpType ==
  ASSUME NEW exp \in Exps
  PROVE  /\ exp.kind \in {"rotation", "translation"} /\ exp.axis \in Units /\ exp.axis \in Vectors
         /\ exp.origin \in Vectors
BY UnitType DEF Exps

(* A unit axis stays where it is. *)
LEMMA UnitLength == ASSUME NEW a \in Units PROVE Dot(a, a) = 1
BY UnitCases DEF Dot

(* A rotation leaves its axis where it is.                                 *)
LEMMA AxisStays == ASSUME NEW a \in Units, NEW k \in Int PROVE Turn(Rotation(a, k), a) = a
<1>1. a \in Vectors /\ a[1] \in Int /\ a[2] \in Int /\ a[3] \in Int /\ Cos(k) \in Int
          /\ Sin(k) \in Int
  BY UnitType, VectorType, Quarters
<1>2. Rotate(a, k, a) \in Vectors /\ Turn(Rotation(a, k), a) = Rotate(a, k, a)
  BY <1>1, RotateType, RotationTurns
<1>3. /\ Rotate(a, k, a)[1] = Cos(k) * a[1] + Sin(k) * (a[2] * a[3] - a[3] * a[2])
             + ((1 - Cos(k)) * 1) * a[1]
      /\ Rotate(a, k, a)[2] = Cos(k) * a[2] + Sin(k) * (a[3] * a[1] - a[1] * a[3])
             + ((1 - Cos(k)) * 1) * a[2]
      /\ Rotate(a, k, a)[3] = Cos(k) * a[3] + Sin(k) * (a[1] * a[2] - a[2] * a[1])
             + ((1 - Cos(k)) * 1) * a[3]
  BY RotateParts, UnitLength
<1>4. Rotate(a, k, a)[1] = a[1]
  BY <1>1, <1>3
<1>5. Rotate(a, k, a)[2] = a[2]
  BY <1>1, <1>3
<1>6. Rotate(a, k, a)[3] = a[3]
  BY <1>1, <1>3
<1>7. ASSUME NEW i \in 1 .. 3 PROVE Rotate(a, k, a)[i] = a[i]
  BY <1>4, <1>5, <1>6
<1> QED BY <1>1, <1>2, <1>7, VectorEq

(* The point of the axis that is nearest to the origin. *)
LEMMA Nearest ==
  ASSUME NEW a \in Units, NEW r \in Vectors
  PROVE  Cross(Cross(a, r), a) = Minus(r, Times(Dot(a, r), a))
<1> DEFINE l == Cross(Cross(a, r), a)
           m == Minus(r, Times(Dot(a, r), a))
<1>1. /\ a \in Vectors /\ r[1] \in Int /\ r[2] \in Int /\ r[3] \in Int
      /\ a[1] \in Int /\ a[2] \in Int /\ a[3] \in Int
  BY UnitType, VectorType
<1>2. l \in Vectors /\ m \in Vectors
  BY <1>1, CrossType, DotType, TimesType, MinusType
<1>3. /\ l[1] = (a[3] * r[1] - a[1] * r[3]) * a[3] - (a[1] * r[2] - a[2] * r[1]) * a[2]
      /\ l[2] = (a[1] * r[2] - a[2] * r[1]) * a[1] - (a[2] * r[3] - a[3] * r[2]) * a[3]
      /\ l[3] = (a[2] * r[3] - a[3] * r[2]) * a[2] - (a[3] * r[1] - a[1] * r[3]) * a[1]
  BY DEF Cross
<1>4. /\ m[1] = r[1] - (a[1] * r[1] + a[2] * r[2] + a[3] * r[3]) * a[1]
      /\ m[2] = r[2] - (a[1] * r[1] + a[2] * r[2] + a[3] * r[3]) * a[2]
      /\ m[3] = r[3] - (a[1] * r[1] + a[2] * r[2] + a[3] * r[3]) * a[3]
  BY DEF Minus, Times, Dot
<1> HIDE DEF l, m
<1>5. l[1] = m[1] /\ l[2] = m[2] /\ l[3] = m[3]
  <2> DEFINE q == a[1] * a[1] + a[2] * a[2] + a[3] * a[3]
             d == a[1] * r[1] + a[2] * r[2] + a[3] * r[3]
  <2>1. q = 1
    BY UnitLength DEF Dot
  <2>2. l[1] = q * r[1] - d * a[1]
    BY <1>1, <1>3
  <2>3. l[2] = q * r[2] - d * a[2]
    BY <1>1, <1>3
  <2>4. l[3] = q * r[3] - d * a[3]
    BY <1>1, <1>3
  <2> HIDE DEF q
  <2> QED BY <1>1, <1>4, <2>1, <2>2, <2>3, <2>4
<1>6. ASSUME NEW i \in 1 .. 3 PROVE l[i] = m[i]
  BY <1>5
<1>7. l = m
  BY <1>2, <1>6, VectorEq
<1> QED BY <1>7 DEF l, m

LEMMA Cancel ==
  ASSUME NEW u \in Vectors, NEW v \in Vectors, NEW w \in Vectors
  PROVE  Minus(Minus(u, w), Minus(v, w)) = Minus(u, v)
<1>1. Minus(Minus(u, w), Minus(v, w)) \in Vectors /\ Minus(u, v) \in Vectors
  BY MinusType
<1>2. ASSUME NEW i \in 1 .. 3 PROVE Minus(Minus(u, w), Minus(v, w))[i] = Minus(u, v)[i]
  <2>1. Minus(Minus(u, w), Minus(v, w))[i] = (u[i] - w[i]) - (v[i] - w[i])
            /\ Minus(u, v)[i] = u[i] - v[i]
    BY MinusAt
  <2>2. u[i] \in Int /\ v[i] \in Int /\ w[i] \in Int
    BY VectorAt
  <2> QED BY <2>1, <2>2
<1> QED BY <1>1, <1>2, VectorEq

(* A rotation about an axis that does not pass through the origin. *)
LEMMA AsRotation ==
  ASSUME NEW exp \in Exps, exp.kind = "rotation", NEW theta \in Int
  PROVE  LET R == Rotation(exp.axis, theta)
         IN  /\ AsFrame(exp, theta) \in Rigid
             /\ AsFrame(exp, theta).x = R.x /\ AsFrame(exp, theta).y = R.y
             /\ AsFrame(exp, theta).z = R.z
             /\ AsFrame(exp, theta).p = Minus(exp.origin, Turn(R, exp.origin))
             /\ \A v : Turn(AsFrame(exp, theta), v) = Turn(R, v)
<1> DEFINE R == Rotation(exp.axis, theta)
           A == AsFrame(exp, theta)
           a == exp.axis
           r == exp.origin
           o == Cross(Cross(a, r), a)
           d == Dot(a, r)
<1>1. /\ a \in Units /\ a \in Vectors /\ r \in Vectors /\ R \in Rigid /\ R \in Frames
      /\ d \in Int /\ o \in Vectors /\ Times(d, a) \in Vectors
  BY ExpType, RotationRigid, RigidType, CrossType, DotType, TimesType
<1>2. A = [R EXCEPT !.p = Minus(o, Turn(R, o))]
  BY DEF AsFrame
<1>3. Minus(o, Turn(R, o)) \in Vectors
  BY <1>1, TurnType, MinusType
<1> HIDE DEF R, A
<1>4. A \in Frames /\ A.x = R.x /\ A.y = R.y /\ A.z = R.z /\ A.p = Minus(o, Turn(R, o))
  BY <1>1, <1>2, <1>3 DEF Frames
<1>5. A \in Rigid
  BY <1>1, <1>4 DEF Rigid
<1>6. Turn(R, o) = Minus(Turn(R, r), Times(d, a))
  <2>1. Turn(R, Times(d, a)) = Times(d, a)
    BY <1>1, TurnTimes, AxisStays DEF R
  <2> QED BY <1>1, <2>1, Nearest, TurnMinus
<1>7. A.p = Minus(r, Turn(R, r))
  BY <1>1, <1>4, <1>6, Nearest, Cancel, TurnType
<1>8. \A v : Turn(A, v) = Turn(R, v)
  BY <1>4 DEF Turn
<1> QED BY <1>4, <1>5, <1>7, <1>8 DEF A, R

LEMMA AsTranslation ==
  ASSUME NEW exp \in Exps, exp.kind = "translation", NEW theta \in Int
  PROVE  /\ AsFrame(exp, theta) = Translate(Times(theta, exp.axis))
         /\ Times(theta, exp.axis) \in Vectors
         /\ AsFrame(exp, theta) \in Rigid
BY ExpType, TimesType, TranslateRigid DEF AsFrame

LEMMA AsFrameRigid ==
  ASSUME NEW exp \in Exps, NEW theta \in Int
  PROVE  AsFrame(exp, theta) \in Rigid
BY AsRotation, AsTranslation, ExpType

LEMMA ChangeBaseParts ==
  ASSUME NEW exp \in Exps, NEW G \in Rigid
  PROVE  /\ ChangeBase(exp, G) \in Exps /\ ChangeBase(exp, G).kind = exp.kind
         /\ ChangeBase(exp, G).axis = Turn(G, exp.axis)
         /\ ChangeBase(exp, G).origin = IF exp.kind = "rotation" THEN Move(G, exp.origin)
                ELSE exp.origin
<1>1. Turn(G, exp.axis) \in Units /\ Move(G, exp.origin) \in Vectors
  BY ExpType, TurnUnit, RigidType, MoveType
<1> QED BY <1>1 DEF ChangeBase, Exps

---------------------------------------------------------------------------
(* A joint seen from another base: changeBase moves the motion with it.    *)

LEMMA Shifted ==
  ASSUME NEW p \in Vectors, NEW r \in Vectors, NEW s \in Vectors, NEW t \in Vectors
  PROVE  Plus(t, Minus(Plus(r, p), Plus(s, t))) = Plus(Minus(r, s), p)
<1>1. Plus(t, Minus(Plus(r, p), Plus(s, t))) \in Vectors /\ Plus(Minus(r, s), p) \in Vectors
  BY MinusType, PlusType
<1>2. ASSUME NEW i \in 1 .. 3
      PROVE  Plus(t, Minus(Plus(r, p), Plus(s, t)))[i] = Plus(Minus(r, s), p)[i]
  <2>1. /\ Plus(t, Minus(Plus(r, p), Plus(s, t)))[i] = t[i] + ((r[i] + p[i]) - (s[i] + t[i]))
        /\ Plus(Minus(r, s), p)[i] = (r[i] - s[i]) + p[i]
    BY MinusAt, PlusAt
  <2>2. p[i] \in Int /\ r[i] \in Int /\ s[i] \in Int /\ t[i] \in Int
    BY VectorAt
  <2> QED BY <2>1, <2>2
<1> QED BY <1>1, <1>2, VectorEq

(* An exponential seen from another base is the same motion. *)
LEMMA BaseChanged ==
  ASSUME NEW exp \in Exps, NEW G \in Rigid, NEW theta \in Int
  PROVE  Compose(AsFrame(ChangeBase(exp, G), theta), G) = Compose(G, AsFrame(exp, theta))
<1> DEFINE e == ChangeBase(exp, G)
           A == AsFrame(exp, theta)
           B == AsFrame(e, theta)
           L == Compose(B, G)
           K == Compose(G, A)
<1>1. /\ e \in Exps /\ e.kind = exp.kind /\ e.axis = Turn(G, exp.axis)
      /\ e.origin = IF exp.kind = "rotation" THEN Move(G, exp.origin) ELSE exp.origin
  BY ChangeBaseParts
<1>2. /\ exp.axis \in Units /\ exp.origin \in Vectors /\ exp.axis \in Vectors
      /\ G \in Frames /\ G.x \in Vectors /\ G.y \in Vectors /\ G.z \in Vectors /\ G.p \in Vectors
      /\ <<1, 0, 0>> \in Vectors /\ <<0, 1, 0>> \in Vectors /\ <<0, 0, 1>> \in Vectors
  BY ExpType, RigidType, VectorMake
<1> HIDE DEF e
<1>3. A \in Rigid /\ B \in Rigid /\ A \in Frames /\ B \in Frames
  BY <1>1, AsFrameRigid, RigidType
<1>4. L \in Frames /\ K \in Frames
  BY <1>2, <1>3, ComposeType
<1>5. /\ L.x = Turn(B, G.x) /\ L.y = Turn(B, G.y) /\ L.z = Turn(B, G.z) /\ L.p = Move(B, G.p)
      /\ K.x = Turn(G, A.x) /\ K.y = Turn(G, A.y) /\ K.z = Turn(G, A.z) /\ K.p = Move(G, A.p)
  BY ComposeParts
<1>6. CASE exp.kind = "rotation"
  <2> DEFINE R == Rotation(exp.axis, theta)
             S == Rotation(e.axis, theta)
             r == exp.origin
  <2>1. /\ A.x = R.x /\ A.y = R.y /\ A.z = R.z /\ A.p = Minus(r, Turn(R, r))
    BY <1>6, AsRotation
  <2>2. /\ B.p = Minus(e.origin, Turn(S, e.origin)) /\ \A v : Turn(B, v) = Turn(S, v)
    BY <1>1, <1>6, AsRotation
  <2>3. ASSUME NEW v \in Vectors PROVE Turn(B, Turn(G, v)) = Turn(G, Turn(R, v))
    <3>1. Turn(B, Turn(G, v)) = Rotate(Turn(G, exp.axis), theta, Turn(G, v))
      <4>1. Turn(G, v) \in Vectors /\ e.axis \in Units
        BY <1>1, <1>2, TurnType, ExpType
      <4>2. Turn(S, Turn(G, v)) = Rotate(e.axis, theta, Turn(G, v))
        BY <4>1, RotationTurns
      <4> QED BY <1>1, <2>2, <4>2
    <3>2. Turn(G, Turn(R, v)) = Turn(G, Rotate(exp.axis, theta, v))
      BY <1>2, RotationTurns
    <3> QED BY <1>2, <3>1, <3>2, Conjugate
  <2>4. /\ Turn(R, <<1, 0, 0>>) = R.x /\ Turn(R, <<0, 1, 0>>) = R.y /\ Turn(R, <<0, 0, 1>>) = R.z
        /\ Turn(G, <<1, 0, 0>>) = G.x /\ Turn(G, <<0, 1, 0>>) = G.y /\ Turn(G, <<0, 0, 1>>) = G.z
        /\ R \in Frames
    BY <1>2, RotationRigid, RigidType, UnitTurns
  <2>5. L.x = K.x
    <3>1. Turn(B, Turn(G, <<1, 0, 0>>)) = Turn(G, Turn(R, <<1, 0, 0>>))
      BY <1>2, <2>3
    <3> QED BY <1>5, <2>1, <2>4, <3>1
  <2>6. L.y = K.y
    <3>1. Turn(B, Turn(G, <<0, 1, 0>>)) = Turn(G, Turn(R, <<0, 1, 0>>))
      BY <1>2, <2>3
    <3> QED BY <1>5, <2>1, <2>4, <3>1
  <2>7. L.z = K.z
    <3>1. Turn(B, Turn(G, <<0, 0, 1>>)) = Turn(G, Turn(R, <<0, 0, 1>>))
      BY <1>2, <2>3
    <3> QED BY <1>5, <2>1, <2>4, <3>1
  <2>8. L.p = K.p
    <3>1. e.origin = Plus(Turn(G, r), G.p) /\ r \in Vectors /\ Turn(G, r) \in Vectors
              /\ Turn(R, r) \in Vectors
          /\ Turn(B, G.p) \in Vectors /\ Turn(G, Turn(R, r)) \in Vectors
      BY <1>1, <1>2, <1>3, <1>6, <2>4, TurnType DEF Move
    <3>2. B.p = Minus(e.origin, Turn(B, e.origin))
      BY <2>2
    <3>3. Turn(B, e.origin) = Plus(Turn(G, Turn(R, r)), Turn(B, G.p))
      BY <1>2, <1>3, <2>3, <3>1, TurnPlus
    <3>4. L.p = Plus(Turn(B, G.p), Minus(Plus(Turn(G, r), G.p),
              Plus(Turn(G, Turn(R, r)), Turn(B, G.p))))
      BY <1>5, <3>1, <3>2, <3>3 DEF Move
    <3>5. K.p = Plus(Minus(Turn(G, r), Turn(G, Turn(R, r))), G.p)
      BY <1>2, <1>5, <2>1, <3>1, TurnMinus DEF Move
    <3> DEFINE x == Turn(G, r)
               y == Turn(G, Turn(R, r))
               z == Turn(B, G.p)
    <3> HIDE DEF x, y, z
    <3>6. x \in Vectors /\ y \in Vectors /\ z \in Vectors /\ G.p \in Vectors
      BY <1>2, <3>1 DEF x, y, z
    <3>7. Plus(z, Minus(Plus(x, G.p), Plus(y, z))) = Plus(Minus(x, y), G.p)
      BY <3>6, Shifted
    <3> QED BY <3>4, <3>5, <3>7 DEF x, y, z
  <2> HIDE DEF L, K
  <2>9. L = K
    BY <1>4, <2>5, <2>6, <2>7, <2>8, FrameEq
  <2> QED BY <2>9 DEF L, K, e
<1>7. CASE exp.kind = "translation"
  <2> DEFINE t == Times(theta, exp.axis)
  <2>1. A = Translate(t) /\ B = Translate(Turn(G, t)) /\ t \in Vectors /\ Turn(G, t) \in Vectors
    BY <1>1, <1>2, <1>7, AsTranslation, TurnTimes, TurnType
  <2>2. L.x = K.x /\ L.y = K.y /\ L.z = K.z
    BY <1>2, <1>5, <2>1, TranslateTurns, TranslateType, UnitTurns
  <2>3. L.p = Plus(G.p, Turn(G, t)) /\ K.p = Plus(Turn(G, t), G.p)
    BY <1>2, <1>5, <2>1, TranslateTurns, TranslateType DEF Move
  <2>4. L.p = K.p
    <3>1. ASSUME NEW i \in 1 .. 3 PROVE L.p[i] = K.p[i]
      <4>1. L.p[i] = G.p[i] + Turn(G, t)[i] /\ K.p[i] = Turn(G, t)[i] + G.p[i]
        BY <2>3, PlusAt
      <4>2. G.p[i] \in Int /\ Turn(G, t)[i] \in Int
        BY <1>2, <2>1, VectorAt
      <4> QED BY <4>1, <4>2
    <3> QED BY <1>4, <3>1, FrameType, VectorEq
  <2> HIDE DEF L, K
  <2>5. L = K
    BY <1>4, <2>2, <2>4, FrameEq
  <2> QED BY <2>5 DEF L, K, e
<1> QED BY <1>6, <1>7, ExpType

(* A joint at the opposite position undoes its motion. *)
LEMMA MotionBack ==
  ASSUME NEW exp \in Exps, NEW theta \in Int
  PROVE  AsFrame(exp, -theta) = Invert(AsFrame(exp, theta))
<1> DEFINE A == AsFrame(exp, theta)
           B == AsFrame(exp, -theta)
           C == Compose(A, B)
<1>1. /\ exp.axis \in Units /\ exp.origin \in Vectors /\ exp.axis \in Vectors /\ -theta \in Int
      /\ A \in Rigid /\ B \in Rigid /\ A \in Frames /\ B \in Frames /\ C \in Frames
  BY ExpType, AsFrameRigid, RigidType, ComposeType
<1>2. /\ C.x = Turn(A, B.x) /\ C.y = Turn(A, B.y) /\ C.z = Turn(A, B.z) /\ C.p = Move(A, B.p)
  BY ComposeParts
<1>3. /\ Identity.x = <<1, 0, 0>> /\ Identity.y = <<0, 1, 0>> /\ Identity.z = <<0, 0, 1>>
      /\ Identity.p = Zero
      /\ Identity \in Frames /\ <<1, 0, 0>> \in Vectors /\ <<0, 1, 0>> \in Vectors
      /\ <<0, 0, 1>> \in Vectors
  BY ZeroType, TranslateType, VectorMake DEF Identity
<1>4. CASE exp.kind = "rotation"
  <2> DEFINE R == Rotation(exp.axis, theta)
             S == Rotation(exp.axis, -theta)
             r == exp.origin
  <2>1. A.p = Minus(r, Turn(R, r)) /\ \A v : Turn(A, v) = Turn(R, v)
    BY <1>4, AsRotation
  <2>2. B.x = S.x /\ B.y = S.y /\ B.z = S.z /\ B.p = Minus(r, Turn(S, r))
    BY <1>1, <1>4, AsRotation
  <2>3. R \in Rigid /\ S \in Frames /\ R \in Frames
    BY <1>1, RotationRigid, RigidType
  <2>4. ASSUME NEW v \in Vectors PROVE Turn(R, Turn(S, v)) = v
    <3>1. Turn(S, v) = TurnBack(R, v)
      BY <1>1, RotationTurns, RotationTurnsBack
    <3> HIDE DEF R, S
    <3> QED BY <2>3, <3>1, TurnBackAgain
  <2>5. S.x = Turn(S, <<1, 0, 0>>) /\ S.y = Turn(S, <<0, 1, 0>>) /\ S.z = Turn(S, <<0, 0, 1>>)
    BY <2>3, UnitTurns
  <2> HIDE DEF R, S, A, B, C
  <2>6. C.x = <<1, 0, 0>> /\ C.y = <<0, 1, 0>> /\ C.z = <<0, 0, 1>>
    BY <1>2, <1>3, <2>1, <2>2, <2>4, <2>5
  <2>7. C.p = Zero
    <3>1. Turn(R, r) \in Vectors /\ Turn(S, r) \in Vectors /\ Turn(R, Turn(S, r)) = r
      BY <1>1, <2>3, <2>4, TurnType
    <3>2. C.p = Plus(Minus(Turn(R, r), r), Minus(r, Turn(R, r)))
      BY <1>1, <1>2, <2>1, <2>2, <2>3, <3>1, TurnMinus DEF Move
    <3>3. ASSUME NEW i \in 1 .. 3 PROVE C.p[i] = Zero[i]
      <4>1. C.p[i] = (Turn(R, r)[i] - r[i]) + (r[i] - Turn(R, r)[i])
        BY <3>2, PlusAt, MinusAt
      <4>2. Turn(R, r)[i] \in Int /\ r[i] \in Int /\ Zero[i] = 0
        BY <1>1, <3>1, VectorAt DEF Zero
      <4> QED BY <4>1, <4>2
    <3> QED BY <1>1, <3>3, FrameType, ZeroType, VectorEq
  <2> QED BY <1>1, <1>3, <2>6, <2>7, FrameEq, InverseUnique DEF A, B, C
<1>5. CASE exp.kind = "translation"
  <2> DEFINE t == Times(theta, exp.axis)
             u == Times(-theta, exp.axis)
  <2>1. A = Translate(t) /\ B = Translate(u) /\ t \in Vectors /\ u \in Vectors
    BY <1>1, <1>5, AsTranslation
  <2> HIDE DEF A, B, C, t, u
  <2>2. C.x = <<1, 0, 0>> /\ C.y = <<0, 1, 0>> /\ C.z = <<0, 0, 1>> /\ C.p = Plus(u, t)
    <3>1. /\ B.x = <<1, 0, 0>> /\ B.y = <<0, 1, 0>> /\ B.z = <<0, 0, 1>> /\ B.p = u /\ A.p = t
      BY <2>1, TranslateType
    <3>2. \A v \in Vectors : Turn(A, v) = v
      BY <2>1, TranslateTurns
    <3> QED BY <1>2, <1>3, <2>1, <3>1, <3>2 DEF Move
  <2>3. C.p = Zero
    <3>1. ASSUME NEW i \in 1 .. 3 PROVE C.p[i] = Zero[i]
      <4>1. C.p[i] = (-theta) * exp.axis[i] + theta * exp.axis[i]
        BY <2>2, PlusAt, TimesAt DEF t, u
      <4>2. exp.axis[i] \in Int /\ Zero[i] = 0
        BY <1>1, VectorAt DEF Zero
      <4> QED BY <4>1, <4>2
    <3> QED BY <1>1, <3>1, FrameType, ZeroType, VectorEq
  <2> QED BY <1>1, <1>3, <2>2, <2>3, FrameEq, InverseUnique DEF A, B, C
<1> QED BY <1>4, <1>5, ExpType

---------------------------------------------------------------------------
(* A joint at zero does not move, and the segments of a chain.             *)

LEMMA NoTurn ==
  ASSUME NEW a \in Units, NEW v \in Vectors
  PROVE  Rotate(a, 0, v) = v
<1>1. Cos(0) = 1 /\ Sin(0) = 0
  BY DEF Cos, Sin
<1>2. /\ a[1] \in Int /\ a[2] \in Int /\ a[3] \in Int /\ v[1] \in Int /\ v[2] \in Int
      /\ v[3] \in Int
      /\ Dot(a, v) \in Int
  BY UnitType, VectorType, DotType
<1>3. /\ Rotate(a, 0, v)[1] = 1 * v[1] + 0 * (a[2] * v[3] - a[3] * v[2])
             + ((1 - 1) * Dot(a, v)) * a[1]
      /\ Rotate(a, 0, v)[2] = 1 * v[2] + 0 * (a[3] * v[1] - a[1] * v[3])
             + ((1 - 1) * Dot(a, v)) * a[2]
      /\ Rotate(a, 0, v)[3] = 1 * v[3] + 0 * (a[1] * v[2] - a[2] * v[1])
             + ((1 - 1) * Dot(a, v)) * a[3]
  BY <1>1, RotateParts
<1>4. Rotate(a, 0, v)[1] = v[1] /\ Rotate(a, 0, v)[2] = v[2] /\ Rotate(a, 0, v)[3] = v[3]
  BY <1>2, <1>3
<1>5. ASSUME NEW i \in 1 .. 3 PROVE Rotate(a, 0, v)[i] = v[i]
  BY <1>4
<1> QED BY <1>5, RotateType, VectorEq

(* A joint at zero does not move anything. *)
LEMMA NoMotion == ASSUME NEW exp \in Exps PROVE AsFrame(exp, 0) = Identity
<1> DEFINE A == AsFrame(exp, 0)
<1>1. /\ exp.axis \in Units /\ exp.origin \in Vectors /\ exp.axis \in Vectors /\ A \in Frames
      /\ <<1, 0, 0>> \in Vectors /\ <<0, 1, 0>> \in Vectors /\ <<0, 0, 1>> \in Vectors
      /\ Identity.x = <<1, 0, 0>> /\ Identity.y = <<0, 1, 0>> /\ Identity.z = <<0, 0, 1>>
      /\ Identity.p = Zero
      /\ Identity \in Frames
  <2>1. exp.axis \in Units /\ exp.origin \in Vectors /\ exp.axis \in Vectors
    BY ExpType
  <2>2. AsFrame(exp, 0) \in Rigid
    BY AsFrameRigid
  <2>3. A \in Frames
    BY <2>2, RigidType
  <2>4. <<1, 0, 0>> \in Vectors /\ <<0, 1, 0>> \in Vectors /\ <<0, 0, 1>> \in Vectors
    BY VectorMake
  <2>5. /\ Identity.x = <<1, 0, 0>> /\ Identity.y = <<0, 1, 0>> /\ Identity.z = <<0, 0, 1>>
        /\ Identity.p = Zero
        /\ Identity \in Frames
    BY ZeroType, TranslateType DEF Identity
  <2> QED BY <2>1, <2>3, <2>4, <2>5
<1>2. CASE exp.kind = "rotation"
  <2> DEFINE R == Rotation(exp.axis, 0)
             r == exp.origin
  <2>1. A.x = R.x /\ A.y = R.y /\ A.z = R.z /\ A.p = Minus(r, Turn(R, r))
    BY <1>2, AsRotation
  <2>2. Turn(R, r) = r /\ R.x = <<1, 0, 0>> /\ R.y = <<0, 1, 0>> /\ R.z = <<0, 0, 1>>
    BY <1>1, RotationParts, RotationTurns, NoTurn
  <2>3. A.p = Zero
    <3>1. A.p = Minus(r, r)
      BY <2>1, <2>2
    <3>2. ASSUME NEW i \in 1 .. 3 PROVE A.p[i] = Zero[i]
      <4>1. A.p[i] = r[i] - r[i] /\ r[i] \in Int /\ Zero[i] = 0
        BY <1>1, <3>1, MinusAt, VectorAt DEF Zero
      <4> QED BY <4>1
    <3> QED BY <1>1, <3>2, FrameType, ZeroType, VectorEq
  <2> HIDE DEF A, R
  <2> QED BY <1>1, <2>1, <2>2, <2>3, FrameEq DEF A
<1>3. CASE exp.kind = "translation"
  <2>1. A = Translate(Times(0, exp.axis))
    BY <1>3, AsTranslation
  <2>2. ASSUME NEW i \in 1 .. 3 PROVE Times(0, exp.axis)[i] = Zero[i]
    <3>1. Times(0, exp.axis)[i] = 0 * exp.axis[i] /\ exp.axis[i] \in Int /\ Zero[i] = 0
      BY <1>1, TimesAt, VectorAt DEF Zero
    <3> QED BY <3>1
  <2>3. Times(0, exp.axis) = Zero
    BY <1>1, <2>2, TimesType, ZeroType, VectorEq
  <2> QED BY <2>1, <2>3 DEF Identity
<1> QED BY <1>2, <1>3, ExpType

(* The origin of a translation means nothing. *)
LEMMA SameMotion ==
  ASSUME NEW e \in Exps, NEW f \in Exps, e.kind = f.kind, e.axis = f.axis,
         e.kind = "rotation" => e.origin = f.origin, NEW theta \in Int
  PROVE  AsFrame(e, theta) = AsFrame(f, theta)
BY ExpType DEF AsFrame

---------------------------------------------------------------------------
JointSegments == [kind : {"rotation", "translation"}, axis : Units, origin : Vectors, tip : Rigid]
FixedSegments == [kind : {"none"}, axis : {Zero}, origin : {Zero}, tip : Rigid]
Segments == JointSegments \cup FixedSegments

(* The joint of a segment, seen from where the segment begins. *)
Local(s) == Exponential(s.kind, s.axis, s.origin)

LEMMA LocalType ==
  ASSUME NEW s \in Segments, s.kind # "none"
  PROVE  /\ Local(s) \in Exps /\ Local(s).kind = s.kind /\ Local(s).axis = s.axis
         /\ Local(s).origin = s.origin
         /\ s.axis \in Units /\ s.origin \in Vectors
BY DEF Segments, JointSegments, FixedSegments, Local, Exponential, Exps

LEMMA TipType == ASSUME NEW s \in Segments PROVE s.tip \in Rigid
BY DEF Segments, JointSegments, FixedSegments

(* A segment: the motion of its joint, then its tip. *)
LEMMA PoseOfSegment ==
  ASSUME NEW s \in Segments, NEW theta \in Int
  PROVE  /\ SegmentPose(s, theta) =
              IF s.kind = "none" THEN s.tip ELSE Compose(AsFrame(Local(s), theta), s.tip)
         /\ SegmentPose(s, theta) \in Rigid
<1> DEFINE e == Local(s)
           A == AsFrame(e, theta)
<1>1. s.tip \in Rigid
  BY TipType
<1>2. CASE s.kind = "none"
  BY <1>1, <1>2 DEF SegmentPose
<1>3. CASE s.kind = "translation"
  <2>1. A = Translate(Times(theta, s.axis)) /\ A \in Rigid
    BY <1>3, LocalType, AsTranslation
  <2>2. SegmentPose(s, theta) = Compose(Translate(Times(theta, s.axis)), s.tip)
    BY <1>3 DEF SegmentPose
  <2> QED BY <1>1, <1>3, <2>1, <2>2, ComposeRigid
<1>4. CASE s.kind = "rotation"
  <2> DEFINE R == Rotation(s.axis, theta)
             o == s.origin
             B == [R EXCEPT !.p = o]
             C == Compose(B, Translate(Times(-1, o)))
  <2>1. /\ e \in Exps /\ e.kind = "rotation" /\ e.axis = s.axis /\ e.origin = o
        /\ s.axis \in Units /\ o \in Vectors
        /\ R \in Rigid /\ R \in Frames /\ A \in Rigid /\ A \in Frames
    BY <1>4, LocalType, RotationRigid, AsFrameRigid, RigidType
  <2>2. SegmentPose(s, theta) = Compose(C, s.tip)
    BY <1>4 DEF SegmentPose
  <2>3. A.x = R.x /\ A.y = R.y /\ A.z = R.z /\ A.p = Minus(o, Turn(R, o))
    BY <2>1, AsRotation
  <2> HIDE DEF R, A, e
  <2>4. B \in Frames /\ B.x = R.x /\ B.y = R.y /\ B.z = R.z /\ B.p = o
    BY <2>1 DEF Frames
  <2>5. \A v : Turn(B, v) = Turn(R, v)
    BY <2>4 DEF Turn
  <2> HIDE DEF B
  <2>6. Times(-1, o) \in Vectors
    BY <2>1, TimesType
  <2>7. C \in Frames /\ C.x = Turn(R, <<1, 0, 0>>) /\ C.y = Turn(R, <<0, 1, 0>>)
            /\ C.z = Turn(R, <<0, 0, 1>>)
        /\ C.p = Plus(Turn(R, Times(-1, o)), o)
    <3>1. LET T == Translate(Times(-1, o))
          IN  /\ T \in Frames /\ T.x = <<1, 0, 0>> /\ T.y = <<0, 1, 0>> /\ T.z = <<0, 0, 1>>
              /\ T.p = Times(-1, o)
      BY <2>6, TranslateType
    <3> QED BY <2>4, <2>5, <3>1, ComposeType, ComposeParts DEF Move
  <2>8. C.p = A.p
    <3>1. Turn(R, Times(-1, o)) = Times(-1, Turn(R, o)) /\ Turn(R, o) \in Vectors
      BY <2>1, TurnTimes, TurnType
    <3>2. ASSUME NEW i \in 1 .. 3 PROVE C.p[i] = A.p[i]
      <4>1. C.p[i] = (-1) * Turn(R, o)[i] + o[i] /\ A.p[i] = o[i] - Turn(R, o)[i]
        BY <2>3, <2>7, <3>1, PlusAt, MinusAt, TimesAt
      <4>2. Turn(R, o)[i] \in Int /\ o[i] \in Int
        BY <2>1, <3>1, VectorAt
      <4> QED BY <4>1, <4>2
    <3> QED BY <2>1, <2>7, <3>2, FrameType, VectorEq
  <2> HIDE DEF C
  <2>9. C = A
    BY <2>1, <2>3, <2>7, <2>8, UnitTurns, FrameEq
  <2> QED BY <1>1, <1>4, <2>1, <2>2, <2>9, ComposeRigid DEF A, e
<1> QED BY <1>2, <1>3, <1>4 DEF Segments, JointSegments, FixedSegments

LEMMA PoseAtZero == ASSUME NEW s \in Segments PROVE SegmentPose(s, 0) = s.tip
<1>1. CASE s.kind = "none"
  BY <1>1, PoseOfSegment
<1>2. CASE s.kind # "none"
  BY <1>2, PoseOfSegment, LocalType, NoMotion, TipType, RigidType, IdentityLeft
<1> QED BY <1>1, <1>2

---------------------------------------------------------------------------
(* Products, as functions of the number of factors. A product exists       *)
(* because a recursion over the first n numbers does.                      *)

(* A set of naturals closed under successor is all of them (from the well- *)
(* founded order of the naturals).                                         *)
LEMMA NatSet ==
  ASSUME NEW T, 0 \in T, \A n \in Nat : n \in T => n + 1 \in T
  PROVE  Nat \subseteq T
<1> SUFFICES ASSUME Nat \ T # {} PROVE FALSE
  OBVIOUS
<1> DEFINE R == OpToRel(<, Nat)
<1>1. PICK x \in Nat \ T : \A y \in Nat \ T : ~(<<y, x>> \in R)
  <2> HIDE DEF R
  <2>1. IsWellFoundedOn(R, Nat)
    BY NatLessThanWellFounded DEF R
  <2>2. Nat \ T \subseteq Nat
    OBVIOUS
  <2> QED BY <2>1, <2>2, WFMin
<1> HIDE DEF R
<1>2. x \in Nat /\ x # 0 /\ x - 1 \in Nat /\ x - 1 < x /\ (x - 1) + 1 = x
  OBVIOUS
<1>3. <<x - 1, x>> \in R
  BY <1>2 DEF OpToRel, R
<1>4. x - 1 \in T
  BY <1>1, <1>2, <1>3
<1> QED BY <1>2, <1>4

Unfolds(f, n, start, step) == f[0] = start /\ \A i \in 1 .. n : f[i] = step[i][f[i - 1]]

(* A function of the first n numbers defined by recursion exists.          *)
LEMMA Recursion ==
  ASSUME NEW n \in Nat, NEW V, NEW start \in V, NEW step \in [1 .. n -> [V -> V]]
  PROVE  \E f \in [0 .. n -> V] : Unfolds(f, n, start, step)
<1> DEFINE Fits(m, f) == f[0] = start /\ \A i \in 1 .. m : f[i] = step[i][f[i - 1]]
           T == {m \in Nat : m <= n => \E f \in [0 .. m -> V] : Fits(m, f)}
<1>1. 0 \in T
  <2>1. [i \in 0 .. 0 |-> start] \in [0 .. 0 -> V] /\ Fits(0, [i \in 0 .. 0 |-> start])
    OBVIOUS
  <2> QED BY <2>1
<1>2. ASSUME NEW m \in Nat, m \in T PROVE m + 1 \in T
  <2> SUFFICES ASSUME m + 1 <= n PROVE \E f \in [0 .. m + 1 -> V] : Fits(m + 1, f)
    OBVIOUS
  <2>1. PICK f \in [0 .. m -> V] : Fits(m, f)
    BY <1>2
  <2> DEFINE g == [i \in 0 .. m + 1 |-> IF i = m + 1 THEN step[m + 1][f[m]] ELSE f[i]]
  <2>2. f[m] \in V /\ m + 1 \in 1 .. n
    OBVIOUS
  <2>3. step[m + 1][f[m]] \in V
    BY <2>2
  <2>4. g \in [0 .. m + 1 -> V] /\ g[0] = start
    BY <2>1, <2>3
  <2>5. ASSUME NEW i \in 1 .. m + 1 PROVE g[i] = step[i][g[i - 1]]
    <3>1. CASE i = m + 1
      BY <3>1
    <3>2. CASE i \in 1 .. m
      <4>1. g[i] = f[i] /\ g[i - 1] = f[i - 1]
        BY <3>2
      <4>2. f[i] = step[i][f[i - 1]]
        BY <2>1, <3>2
      <4> QED BY <4>1, <4>2
    <3> QED BY <3>1, <3>2
  <2> QED BY <2>4, <2>5
<1>3. n \in T
  <2> HIDE DEF T
  <2> QED BY <1>1, <1>2, NatSet
<1> QED BY <1>3 DEF Unfolds

(* Induction over the first n numbers.                                     *)
LEMMA Interval ==
  ASSUME NEW n \in Nat, NEW T, 0 \in T, \A i \in 1 .. n : i - 1 \in T => i \in T
  PROVE  0 .. n \subseteq T
<1> DEFINE U == {m \in Nat : m <= n => m \in T}
<1>1. 0 \in U
  OBVIOUS
<1>2. ASSUME NEW m \in Nat, m \in U PROVE m + 1 \in U
  <2>1. (m + 1) - 1 = m /\ (m + 1 <= n => m + 1 \in 1 .. n /\ m <= n)
    OBVIOUS
  <2> QED BY <1>2, <2>1
<1>3. Nat \subseteq U
  <2> HIDE DEF U
  <2> QED BY <1>1, <1>2, NatSet
<1> QED BY <1>3

---------------------------------------------------------------------------
(* Products of frames. *)
IsProduct(H, n, A) ==
  /\ H \in [0 .. n -> Rigid] /\ H[0] = Identity
  /\ \A i \in 1 .. n : H[i] = Compose(H[i - 1], A[i])

LEMMA ProductExists ==
  ASSUME NEW n \in Nat, NEW A \in [1 .. n -> Rigid]
  PROVE  \E H : IsProduct(H, n, A)
<1> DEFINE step == [i \in 1 .. n |-> [F \in Rigid |-> Compose(F, A[i])]]
<1>1. step \in [1 .. n -> [Rigid -> Rigid]]
  BY ComposeRigid
<1>2. PICK H \in [0 .. n -> Rigid] : Unfolds(H, n, Identity, step)
  <2> HIDE DEF step
  <2> QED BY <1>1, IdentityRigid, Recursion
<1>3. ASSUME NEW i \in 1 .. n PROVE H[i] = Compose(H[i - 1], A[i])
  <2>1. H[i - 1] \in Rigid /\ step[i][H[i - 1]] = Compose(H[i - 1], A[i])
    OBVIOUS
  <2> QED BY <1>2, <2>1 DEF Unfolds
<1> QED BY <1>2, <1>3 DEF IsProduct, Unfolds

LEMMA ProductParts ==
  ASSUME NEW n \in Nat, NEW A, NEW H, IsProduct(H, n, A)
  PROVE  /\ H[0] = Identity /\ \A i \in 0 .. n : H[i] \in Rigid
         /\ \A i \in 1 .. n : H[i] = Compose(H[i - 1], A[i]) /\ H[i - 1] \in Rigid
                /\ i - 1 \in 0 .. n
BY DEF IsProduct

(* The products of exponentials that can be evaluated. *)
Poes == [exps : Seq(Exps), transform : Rigid]

Motions(poe, q) == [i \in 1 .. Len(poe.exps) |-> AsFrame(poe.exps[i], q[i])]

LEMMA MotionType ==
  ASSUME NEW poe \in Poes, NEW q \in [1 .. Len(poe.exps) -> Int]
  PROVE  /\ Len(poe.exps) \in Nat /\ Motions(poe, q) \in [1 .. Len(poe.exps) -> Rigid]
         /\ \A i \in 1 .. Len(poe.exps) : poe.exps[i] \in Exps /\ q[i] \in Int
<1>1. poe.exps \in Seq(Exps)
  BY DEF Poes
<1>2. Len(poe.exps) \in Nat /\ \A i \in 1 .. Len(poe.exps) : poe.exps[i] \in Exps /\ q[i] \in Int
  BY <1>1
<1> QED BY <1>2, AsFrameRigid DEF Motions

LEMMA Evaluated ==
  ASSUME NEW poe \in Poes, NEW q \in [1 .. Len(poe.exps) -> Int]
  PROVE  \E H : /\ IsProduct(H, Len(poe.exps), Motions(poe, q))
                /\ Evaluate(poe, q) = Compose(H[Len(poe.exps)], poe.transform)
<1> DEFINE n == Len(poe.exps)
           A == Motions(poe, q)
           H == CHOOSE f : f = [i \in 0 .. n |-> IF i = 0 THEN Identity
                                                  ELSE Compose(f[i - 1], AsFrame(poe.exps[i],
                                                      q[i]))]
<1>1. n \in Nat /\ A \in [1 .. n -> Rigid]
  BY MotionType
<1>0. \A i \in 1 .. n : A[i] = AsFrame(poe.exps[i], q[i])
  BY DEF Motions
<1> HIDE DEF A
<1>2. PICK f : IsProduct(f, n, A)
  BY <1>1, ProductExists
<1>3. ASSUME NEW i \in 0 .. n
      PROVE  f[i] = IF i = 0 THEN Identity ELSE Compose(f[i - 1], AsFrame(poe.exps[i], q[i]))
  <2>1. CASE i = 0
    BY <1>2, <2>1, ProductParts, <1>1
  <2>2. CASE i \in 1 .. n
    BY <1>1, <1>2, <1>0, <2>2, ProductParts
  <2> QED BY <1>1, <2>1, <2>2
<1>4. f = [i \in 0 .. n |-> IF i = 0 THEN Identity
          ELSE Compose(f[i - 1], AsFrame(poe.exps[i], q[i]))]
  BY <1>2, <1>3 DEF IsProduct
<1>5. H = [i \in 0 .. n |-> IF i = 0 THEN Identity
          ELSE Compose(H[i - 1], AsFrame(poe.exps[i], q[i]))]
  BY <1>4
<1>6. Evaluate(poe, q) = Compose(H[n], poe.transform)
  BY DEF Evaluate
<1> HIDE DEF H
<1>7. H[0] = Identity /\ \A i \in 1 .. n : H[i] = Compose(H[i - 1], A[i])
  <2>1. 0 \in 0 .. n /\ \A i \in 1 .. n : i \in 0 .. n /\ i # 0
    BY <1>1
  <2>2. H[0] = Identity
    BY <1>5, <2>1
  <2>3. ASSUME NEW i \in 1 .. n PROVE H[i] = Compose(H[i - 1], A[i])
    <3>1. H[i] = Compose(H[i - 1], AsFrame(poe.exps[i], q[i]))
      BY <1>5, <2>1
    <3> QED BY <1>0, <3>1
  <2> QED BY <2>2, <2>3
<1>8. 0 .. n \subseteq {i \in 0 .. n : H[i] \in Rigid}
  <2> DEFINE T == {i \in 0 .. n : H[i] \in Rigid}
  <2>1. 0 \in T
    BY <1>1, <1>7, IdentityRigid
  <2>2. ASSUME NEW i \in 1 .. n, i - 1 \in T PROVE i \in T
    <3>1. H[i - 1] \in Rigid /\ A[i] \in Rigid /\ i \in 0 .. n
      BY <1>1, <2>2
    <3> QED BY <1>7, <3>1, ComposeRigid
  <2> HIDE DEF T
  <2>3. 0 .. n \subseteq T
    BY <1>1, <2>1, <2>2, Interval
  <2> QED BY <2>3 DEF T
<1>9. H \in [0 .. n -> Rigid]
  BY <1>5, <1>8
<1> QED BY <1>6, <1>7, <1>9 DEF IsProduct, A

(* A product of motions seen from another base. *)
LEMMA ProductMoved ==
  ASSUME NEW n \in Nat, NEW A, NEW H, IsProduct(H, n, A), NEW B, NEW K, IsProduct(K, n, B),
         NEW G \in Rigid, \A i \in 1 .. n : A[i] \in Rigid /\ B[i] \in Rigid
             /\ Compose(B[i], G) = Compose(G, A[i])
  PROVE  \A i \in 0 .. n : Compose(K[i], G) = Compose(G, H[i])
<1> DEFINE T == {i \in 0 .. n : Compose(K[i], G) = Compose(G, H[i])}
<1>1. 0 \in T
  BY ProductParts, RigidType, IdentityLeft, IdentityRight
<1>2. ASSUME NEW i \in 1 .. n, i - 1 \in T PROVE i \in T
  <2>1. /\ H[i] = Compose(H[i - 1], A[i]) /\ K[i] = Compose(K[i - 1], B[i])
        /\ H[i - 1] \in Frames /\ K[i - 1] \in Frames /\ A[i] \in Frames /\ B[i] \in Frames
        /\ G \in Frames
    BY ProductParts, RigidType
  <2>2. Compose(K[i], G) = Compose(K[i - 1], Compose(G, A[i]))
    BY <2>1, ComposeAssoc
  <2>3. Compose(G, H[i]) = Compose(Compose(G, H[i - 1]), A[i])
    BY <2>1, ComposeAssoc
  <2>4. Compose(K[i - 1], G) = Compose(G, H[i - 1])
    BY <1>2
  <2>5. Compose(K[i], G) = Compose(G, H[i])
    BY <2>1, <2>2, <2>3, <2>4, ComposeAssoc
  <2> QED BY <2>5
<1> HIDE DEF T
<1>3. 0 .. n \subseteq T
  BY <1>1, <1>2, Interval
<1> QED BY <1>3 DEF T

---------------------------------------------------------------------------
(* Products of exponentials seen from another base, reversed, and cut in   *)
(* two (ProductOfExponentials.cpp).                                        *)

LEMMA PoeType ==
  ASSUME NEW poe \in Poes
  PROVE  /\ poe.exps \in Seq(Exps) /\ Len(poe.exps) \in Nat
         /\ DOMAIN poe.exps = 1 .. Len(poe.exps)
         /\ poe.transform \in Rigid /\ \A i \in 1 .. Len(poe.exps) : poe.exps[i] \in Exps
BY DEF Poes

LEMMA MakeSequence ==
  ASSUME NEW n \in Nat, NEW S, NEW f \in [1 .. n -> S]
  PROVE  f \in Seq(S) /\ Len(f) = n
OBVIOUS

(* ProductOfExponentials::changeBaseFrame *)
LEMMA BaseFrameChanged ==
  ASSUME NEW poe \in Poes, NEW G \in Rigid, NEW q \in [1 .. Len(poe.exps) -> Int]
  PROVE  Evaluate(ChangeBaseFrame(poe, G), q) = Compose(G, Evaluate(poe, q))
<1> DEFINE n == Len(poe.exps)
           moved == [i \in DOMAIN poe.exps |-> ChangeBase(poe.exps[i], G)]
           p == ChangeBaseFrame(poe, G)
           A == Motions(poe, q)
           B == Motions(p, q)
<1>1. n \in Nat /\ DOMAIN poe.exps = 1 .. n /\ poe.transform \in Rigid
          /\ \A i \in 1 .. n : poe.exps[i] \in Exps
  BY PoeType
<1>2. moved \in Seq(Exps) /\ Len(moved) = n
  <2>1. moved \in [1 .. n -> Exps]
    BY <1>1, ChangeBaseParts
  <2> HIDE DEF moved
  <2> QED BY <1>1, <2>1, MakeSequence
<1>3. p.exps = moved /\ p.transform = Compose(G, poe.transform) /\ p \in Poes
  BY <1>1, <1>2, ComposeRigid DEF ChangeBaseFrame, Poe, Poes
<1>4. A \in [1 .. n -> Rigid] /\ \A i \in 1 .. n : A[i] = AsFrame(poe.exps[i], q[i])
  BY MotionType DEF Motions
<1>5. B \in [1 .. n -> Rigid] /\ \A i \in 1 .. n : B[i]
          = AsFrame(ChangeBase(poe.exps[i], G), q[i])
  BY <1>1, <1>2, <1>3, MotionType DEF Motions
<1> HIDE DEF p, moved, A, B
<1>6. PICK H : IsProduct(H, n, A) /\ Evaluate(poe, q) = Compose(H[n], poe.transform)
  BY Evaluated DEF A
<1>7. PICK K : IsProduct(K, n, B) /\ Evaluate(p, q) = Compose(K[n], Compose(G, poe.transform))
  BY <1>2, <1>3, Evaluated DEF B
<1>8. \A i \in 1 .. n : A[i] \in Rigid /\ B[i] \in Rigid /\ Compose(B[i], G) = Compose(G, A[i])
  BY <1>1, <1>4, <1>5, BaseChanged
<1>9. Compose(K[n], G) = Compose(G, H[n])
  BY <1>1, <1>6, <1>7, <1>8, ProductMoved
<1>10. H[n] \in Frames /\ K[n] \in Frames /\ G \in Frames /\ poe.transform \in Frames
  BY <1>1, <1>6, <1>7, ProductParts, RigidType
<1>11. Evaluate(p, q) = Compose(Compose(G, H[n]), poe.transform)
  BY <1>7, <1>9, <1>10, ComposeAssoc
<1> QED BY <1>6, <1>10, <1>11, ComposeAssoc DEF p

(* A product of motions backwards: K multiplies their inverses. *)
LEMMA ProductReversed ==
  ASSUME NEW n \in Nat, NEW A, NEW H, IsProduct(H, n, A), NEW B, NEW K, IsProduct(K, n, B),
         NEW G \in Rigid,
         \A i \in 1 .. n : A[i] \in Rigid /\ B[i] \in Rigid
             /\ Compose(B[i], G) = Compose(G, Invert(A[n + 1 - i]))
  PROVE  Compose(K[n], G) = Compose(G, Invert(H[n]))
<1> DEFINE X == Compose(G, Invert(H[n]))
           T == {i \in 0 .. n : Compose(K[i], G) = Compose(X, H[n - i])}
<1>1. H[n] \in Rigid /\ Invert(H[n]) \in Rigid /\ Invert(H[n]) \in Frames /\ H[n] \in Frames
          /\ G \in Frames
      /\ X \in Frames
  <2>1. n \in 0 .. n
    OBVIOUS
  <2>2. H[n] \in Rigid
    BY <2>1, ProductParts
  <2>3. Invert(H[n]) \in Rigid
    BY <2>2, InvertRigid
  <2>4. Invert(H[n]) \in Frames /\ H[n] \in Frames /\ G \in Frames
    BY <2>2, <2>3, RigidType
  <2> QED BY <2>2, <2>3, <2>4, ComposeType
<1>2. 0 \in T
  <2>1. Compose(X, H[n]) = Compose(G, Compose(Invert(H[n]), H[n]))
    BY <1>1, ComposeAssoc
  <2>2. Compose(X, H[n]) = G
    BY <1>1, <2>1, InverseLeft, IdentityRight
  <2>3. Compose(K[0], G) = G
    BY <1>1, ProductParts, IdentityLeft
  <2> QED BY <2>2, <2>3
<1>3. ASSUME NEW i \in 1 .. n, i - 1 \in T PROVE i \in T
  <2> DEFINE j == n + 1 - i
  <2>1. j \in 1 .. n /\ n - (i - 1) = j /\ n - i = j - 1 /\ i \in 0 .. n
    OBVIOUS
  <2>2. /\ H[j] = Compose(H[j - 1], A[j]) /\ H[j] \in Frames /\ H[j - 1] \in Frames
        /\ A[j] \in Rigid /\ A[j] \in Frames /\ Invert(A[j]) \in Frames
    BY <2>1, ProductParts, RigidType, InvertRigid
  <2>3. /\ K[i] = Compose(K[i - 1], B[i]) /\ K[i - 1] \in Frames /\ B[i] \in Frames
        /\ Compose(B[i], G) = Compose(G, Invert(A[j]))
    BY ProductParts, RigidType
  <2>4. Compose(K[i - 1], G) = Compose(X, H[j])
    BY <1>3, <2>1
  <2> HIDE DEF X, j
  <2>5. Compose(K[i], G) = Compose(K[i - 1], Compose(G, Invert(A[j])))
    BY <1>1, <2>3, ComposeAssoc
  <2>6. Compose(K[i - 1], Compose(G, Invert(A[j]))) = Compose(Compose(X, H[j]), Invert(A[j]))
    BY <1>1, <2>2, <2>3, <2>4, ComposeAssoc
  <2>7. Compose(Compose(X, H[j]), Invert(A[j])) = Compose(X, Compose(H[j], Invert(A[j])))
    BY <1>1, <2>2, ComposeAssoc
  <2>8. Compose(H[j], Invert(A[j])) = H[j - 1]
    BY <2>2, ComposeAssoc, InverseRight, IdentityRight
  <2>9. Compose(K[i], G) = Compose(X, H[n - i])
    BY <2>1, <2>5, <2>6, <2>7, <2>8
  <2> QED BY <2>1, <2>9
<1>4. n \in T
  <2> HIDE DEF T
  <2>1. 0 .. n \subseteq T
    BY <1>2, <1>3, Interval
  <2> QED BY <2>1
<1>5. Compose(K[n], G) = Compose(X, H[0])
  <2>1. n - n = 0
    OBVIOUS
  <2> QED BY <1>4, <2>1
<1> QED BY <1>1, <1>5, ProductParts, IdentityRight

(* ProductOfExponentials::reverseSelf *)
LEMMA SelfReversed ==
  ASSUME NEW poe \in Poes, NEW q \in [1 .. Len(poe.exps) -> Int]
  PROVE  LET n == Len(poe.exps)
         IN  /\ ReverseSelf(poe) \in Poes
             /\ Len(ReverseSelf(poe).exps) = n
             /\ Evaluate(ReverseSelf(poe), [i \in 1 .. n |-> -q[n + 1 - i]])
                    = Invert(Evaluate(poe, q))
<1> DEFINE n == Len(poe.exps)
           T == poe.transform
           G == Invert(T)
           exps == [i \in 1 .. n |-> ChangeBase(poe.exps[n + 1 - i], G)]
           p == ReverseSelf(poe)
           r == [i \in 1 .. n |-> -q[n + 1 - i]]
           A == Motions(poe, q)
           B == Motions(p, r)
<1>1. n \in Nat /\ T \in Rigid /\ G \in Rigid /\ (\A i \in 1 .. n : poe.exps[i] \in Exps)
  BY PoeType, InvertRigid
<1>2. \A i \in 1 .. n : n + 1 - i \in 1 .. n
  BY <1>1
<1>3. exps \in Seq(Exps) /\ Len(exps) = n
  <2>1. exps \in [1 .. n -> Exps]
    BY <1>1, <1>2, ChangeBaseParts
  <2> HIDE DEF exps
  <2> QED BY <1>1, <2>1, MakeSequence
<1>4. p.exps = exps /\ p.transform = G /\ p \in Poes
  BY <1>1, <1>3 DEF ReverseSelf, Poe, Poes
<1>5. r \in [1 .. n -> Int]
  BY <1>2
<1>6. A \in [1 .. n -> Rigid] /\ \A i \in 1 .. n : A[i] = AsFrame(poe.exps[i], q[i])
  BY MotionType DEF Motions
<1>7. B \in [1 .. n -> Rigid] /\ \A i \in 1 .. n : B[i] = AsFrame(exps[i], r[i])
  <2> HIDE DEF exps, r, p
  <2> QED BY <1>3, <1>4, <1>5, MotionType DEF Motions
<1>8. \A i \in 1 .. n : exps[i] = ChangeBase(poe.exps[n + 1 - i], G) /\ r[i] = -q[n + 1 - i]
  OBVIOUS
<1> HIDE DEF p, exps, A, B, r
<1>9. PICK H : IsProduct(H, n, A) /\ Evaluate(poe, q) = Compose(H[n], T)
  BY Evaluated DEF A
<1>10. PICK K : IsProduct(K, n, B) /\ Evaluate(p, r) = Compose(K[n], G)
  BY <1>3, <1>4, <1>5, Evaluated DEF B
<1>11. ASSUME NEW i \in 1 .. n
       PROVE  A[i] \in Rigid /\ B[i] \in Rigid
                  /\ Compose(B[i], G) = Compose(G, Invert(A[n + 1 - i]))
  <2> DEFINE j == n + 1 - i
  <2>1. j \in 1 .. n /\ poe.exps[j] \in Exps /\ q[j] \in Int /\ -q[j] \in Int
    BY <1>1, <1>2
  <2>2. B[i] = AsFrame(ChangeBase(poe.exps[j], G), -q[j]) /\ A[j] = AsFrame(poe.exps[j], q[j])
    BY <1>6, <1>7, <1>8, <2>1
  <2> HIDE DEF j, G
  <2>3. Compose(B[i], G) = Compose(G, AsFrame(poe.exps[j], -q[j]))
    BY <1>1, <2>1, <2>2, BaseChanged
  <2> QED BY <1>6, <1>7, <2>1, <2>2, <2>3, MotionBack DEF j
<1>12. Compose(K[n], G) = Compose(G, Invert(H[n]))
  <2> HIDE DEF G
  <2> QED BY <1>1, <1>9, <1>10, <1>11, ProductReversed, SMTT(30)
<1>13. Invert(Compose(H[n], T)) = Compose(G, Invert(H[n]))
  BY <1>1, <1>9, ProductParts, InverseOfProduct
<1>14. Evaluate(p, r) = Invert(Evaluate(poe, q))
  BY <1>9, <1>10, <1>12, <1>13
<1> QED BY <1>3, <1>4, <1>14 DEF p, r

(* ProductOfExponentials::makeReverse *)
LEMMA ReverseMade ==
  ASSUME NEW poe \in Poes
  PROVE  MakeReverse(poe).exps = ReverseSelf(poe).exps
<1> DEFINE n == Len(poe.exps)
           G == Invert(poe.transform)
           moved == [i \in DOMAIN poe.exps |-> ChangeBase(poe.exps[i], G)]
<1>1. n \in Nat /\ DOMAIN poe.exps = 1 .. n /\ \A i \in 1 .. n : n + 1 - i \in 1 .. n
  BY PoeType
<1>2. Len(moved) = n /\ DOMAIN moved = 1 .. n
  BY <1>1
<1>3. MakeReverse(poe).exps = [i \in DOMAIN moved |-> moved[Len(moved) + 1 - i]]
  BY DEF MakeReverse, Poe
<1>4. MakeReverse(poe).exps = [i \in 1 .. n |-> moved[n + 1 - i]]
  BY <1>2, <1>3
<1>5. ReverseSelf(poe).exps = [i \in 1 .. n |-> ChangeBase(poe.exps[n + 1 - i], G)]
  BY DEF ReverseSelf, Poe
<1>6. \A i \in 1 .. n : moved[n + 1 - i] = ChangeBase(poe.exps[n + 1 - i], G)
  BY <1>1
<1> HIDE DEF moved
<1> QED BY <1>4, <1>5, <1>6

LEMMA NothingChanged == ASSUME NEW exp \in Exps PROVE ChangeBase(exp, Identity) = exp
<1>1. /\ Turn(Identity, exp.axis) = exp.axis /\ Turn(Identity, exp.origin) = exp.origin
      /\ Identity.p = Zero /\ exp.origin \in Vectors
  BY ExpType, ZeroType, TranslateTurns, TranslateType DEF Identity
<1>2. Move(Identity, exp.origin) = exp.origin
  BY <1>1, ZeroPlus DEF Move
<1>3. ChangeBase(exp, Identity) = [exp EXCEPT !.axis = exp.axis, !.origin = exp.origin]
  BY <1>1, <1>2 DEF ChangeBase
<1> QED BY <1>3 DEF Exps

(* ProductOfExponentials::append, of what had been split. *)
LEMMA Joined ==
  ASSUME NEW poe \in Poes, NEW m \in 0 .. Len(poe.exps)
  PROVE  AppendPoe(Poe(SubSeq(poe.exps, 1, m), Identity),
                   Poe(SubSeq(poe.exps, m + 1, Len(poe.exps)), poe.transform), Identity) = poe
<1> DEFINE n == Len(poe.exps)
           u == SubSeq(poe.exps, 1, m)
           v == SubSeq(poe.exps, m + 1, n)
           w == [i \in DOMAIN v |-> ChangeBase(v[i], Identity)]
<1>1. poe.exps \in Seq(Exps) /\ n \in Nat /\ m \in Nat /\ m <= n /\ poe.transform \in Rigid
  BY PoeType
<1>2. /\ u \in Seq(Exps) /\ v \in Seq(Exps) /\ Len(u) = m /\ Len(v) = n - m
      /\ \A i \in 1 .. m : u[i] = poe.exps[i]
      /\ \A i \in 1 .. n - m : v[i] = poe.exps[m + i]
  BY <1>1
<1> HIDE DEF u, v
<1>3. w = v
  <2>1. \A i \in DOMAIN v : v[i] \in Exps
    BY <1>2
  <2>2. \A i \in DOMAIN v : ChangeBase(v[i], Identity) = v[i]
    BY <2>1, NothingChanged
  <2>3. v = [i \in DOMAIN v |-> v[i]]
    BY <1>2
  <2> QED BY <2>2, <2>3
<1>4. u \o v = poe.exps
  <2> DEFINE s == u \o v
  <2>1. s \in Seq(Exps) /\ Len(s) = n
    <3>1. s \in Seq(Exps) /\ Len(s) = Len(u) + Len(v)
      BY <1>2
    <3> HIDE DEF s, n
    <3> QED BY <1>1, <1>2, <3>1
  <2>2. ASSUME NEW i \in 1 .. n PROVE s[i] = poe.exps[i]
    <3>1. CASE i <= m
      BY <1>1, <1>2, <3>1
    <3>2. CASE i > m
      <4>1. i - m \in 1 .. n - m /\ m + (i - m) = i
        BY <1>1, <3>2
      <4>2. s[i] = v[i - m]
        BY <1>1, <1>2, <3>2
      <4> QED BY <1>2, <4>1, <4>2
    <3>3. i <= m \/ i > m
      BY <1>1
    <3> QED BY <3>1, <3>2, <3>3
  <2> HIDE DEF s
  <2>3. s = poe.exps
    BY <1>1, <2>1, <2>2
  <2> QED BY <2>3 DEF s
<1>5. Compose(Identity, poe.transform) = poe.transform
  BY <1>1, RigidType, IdentityLeft
<1>6. AppendPoe(Poe(u, Identity), Poe(v, poe.transform), Identity)
          = Poe(u \o w, Compose(Identity, poe.transform))
  BY DEF AppendPoe, Poe
<1>7. poe = [exps |-> poe.exps, transform |-> poe.transform]
  BY DEF Poes
<1> QED BY <1>3, <1>4, <1>5, <1>6, <1>7 DEF u, v, Poe

---------------------------------------------------------------------------
(* The recursive definitions of the model, unfolded.                       *)

(* A recursive definition of a product defines it. *)
LEMMA ProductDefinable ==
  ASSUME NEW n \in Nat, NEW A \in [1 .. n -> Rigid]
  PROVE  \E f : f = [i \in 0 .. n |-> IF i = 0 THEN Identity ELSE Compose(f[i - 1], A[i])]
<1>1. PICK f : IsProduct(f, n, A)
  BY ProductExists
<1>2. ASSUME NEW i \in 0 .. n PROVE f[i] = IF i = 0 THEN Identity ELSE Compose(f[i - 1], A[i])
  <2>1. i = 0 \/ i \in 1 .. n
    OBVIOUS
  <2> QED BY <1>1, <2>1, ProductParts
<1>3. f = [i \in 0 .. n |-> IF i = 0 THEN Identity ELSE Compose(f[i - 1], A[i])]
  BY <1>1, <1>2 DEF IsProduct
<1> QED BY <1>3

LEMMA ProductDefined ==
  ASSUME NEW n \in Nat, NEW A \in [1 .. n -> Rigid], NEW H,
         H = [i \in 0 .. n |-> IF i = 0 THEN Identity ELSE Compose(H[i - 1], A[i])]
  PROVE  IsProduct(H, n, A)
<1>1. 0 \in 0 .. n /\ \A i \in 1 .. n : i \in 0 .. n /\ i # 0
  OBVIOUS
<1>2. H[0] = Identity
  BY <1>1
<1>3. ASSUME NEW i \in 1 .. n PROVE H[i] = Compose(H[i - 1], A[i])
  BY <1>1
<1> DEFINE T == {i \in 0 .. n : H[i] \in Rigid}
<1>4. 0 \in T
  BY <1>1, <1>2, IdentityRigid
<1>5. ASSUME NEW i \in 1 .. n, i - 1 \in T PROVE i \in T
  <2>1. H[i - 1] \in Rigid /\ A[i] \in Rigid /\ i \in 0 .. n
    BY <1>5
  <2> QED BY <1>3, <2>1, ComposeRigid
<1>6. 0 .. n \subseteq T
  <2> HIDE DEF T
  <2> QED BY <1>4, <1>5, Interval
<1> QED BY <1>2, <1>3, <1>6 DEF IsProduct

---------------------------------------------------------------------------
LEMMA ChainType ==
  ASSUME NEW segments \in Seq(Segments)
  PROVE  Len(segments) \in Nat /\ \A i \in 1 .. Len(segments) : segments[i] \in Segments
OBVIOUS

(* The number of joints up to each segment. *)
IsCount(J, segments) ==
  /\ J \in [0 .. Len(segments) -> Nat] /\ J[0] = 0
  /\ \A i \in 1 .. Len(segments) : J[i] = J[i - 1] + (IF segments[i].kind = "none" THEN 0 ELSE 1)

LEMMA Counted ==
  ASSUME NEW segments \in Seq(Segments), NEW joint,
         joint = [i \in 0 .. Len(segments) |-> IF i = 0 THEN 0
                                            ELSE joint[i - 1] + (IF segments[i].kind = "none"
                                                THEN 0 ELSE 1)]
  PROVE  IsCount(joint, segments)
<1> DEFINE n == Len(segments)
           T == {i \in 0 .. n : joint[i] \in Nat}
<1>1. n \in Nat /\ 0 \in 0 .. n /\ \A i \in 1 .. n : i \in 0 .. n /\ i # 0
  BY ChainType
<1>2. joint[0] = 0
  BY <1>1
<1>3. ASSUME NEW i \in 1 .. n
      PROVE  joint[i] = joint[i - 1] + (IF segments[i].kind = "none" THEN 0 ELSE 1)
  BY <1>1
<1>4. 0 \in T
  BY <1>1, <1>2
<1>5. ASSUME NEW i \in 1 .. n, i - 1 \in T PROVE i \in T
  <2>1. joint[i - 1] \in Nat /\ i \in 0 .. n
    BY <1>1, <1>5
  <2>2. joint[i] \in Nat
    <3>1. joint[i] = joint[i - 1] + (IF segments[i].kind = "none" THEN 0 ELSE 1)
      BY <1>3
    <3>2. ASSUME NEW k \in Nat, NEW m, m = k + (IF segments[i].kind = "none" THEN 0 ELSE 1)
          PROVE  m \in Nat
      BY <3>2
    <3> QED BY <2>1, <3>1, <3>2
  <2> QED BY <2>1, <2>2
<1>6. 0 .. n \subseteq T
  <2> HIDE DEF T, n
  <2> QED BY <1>1, <1>4, <1>5, Interval
<1> QED BY <1>2, <1>3, <1>6 DEF IsCount

LEMMA Countable ==
  ASSUME NEW segments \in Seq(Segments)
  PROVE  \E f : f = [i \in 0 .. Len(segments) |-> IF i = 0 THEN 0
                                               ELSE f[i - 1] + (IF segments[i].kind = "none"
                                                   THEN 0 ELSE 1)]
<1> DEFINE n == Len(segments)
           step == [i \in 1 .. n |-> [k \in Nat |-> k
               + (IF segments[i].kind = "none" THEN 0 ELSE 1)]]
<1>1. n \in Nat /\ step \in [1 .. n -> [Nat -> Nat]]
  BY ChainType
<1>2. PICK f \in [0 .. n -> Nat] : Unfolds(f, n, 0, step)
  <2> HIDE DEF step
  <2>1. 0 \in Nat
    OBVIOUS
  <2> QED BY <1>1, <2>1, Recursion
<1>3. ASSUME NEW i \in 0 .. n
      PROVE  f[i] = IF i = 0 THEN 0 ELSE f[i - 1] + (IF segments[i].kind = "none" THEN 0 ELSE 1)
  <2>1. CASE i = 0
    BY <1>2, <2>1 DEF Unfolds
  <2>2. CASE i \in 1 .. n
    <3>1. f[i - 1] \in Nat
      BY <2>2
    <3>2. step[i][f[i - 1]] = f[i - 1] + (IF segments[i].kind = "none" THEN 0 ELSE 1)
      BY <2>2, <3>1
    <3> QED BY <1>2, <2>2, <3>2 DEF Unfolds
  <2> QED BY <1>1, <2>1, <2>2
<1>4. f = [i \in 0 .. n |-> IF i = 0 THEN 0
          ELSE f[i - 1] + (IF segments[i].kind = "none" THEN 0 ELSE 1)]
  BY <1>3
<1> QED BY <1>4

---------------------------------------------------------------------------
(* The joints of a chain, seen from its base. *)
Seen(H, segments, i) == Exponential(segments[i].kind, Turn(H[i - 1], segments[i].axis),
    Move(H[i - 1], segments[i].origin))

LEMMA SeenType ==
  ASSUME NEW s \in Segments, s.kind # "none", NEW F \in Rigid
  PROVE  LET e == Exponential(s.kind, Turn(F, s.axis), Move(F, s.origin))
         IN  /\ e \in Exps /\ e.kind = s.kind /\ e.axis = Turn(F, s.axis)
             /\ e.origin = Move(F, s.origin)
<1>1. s.axis \in Units /\ s.origin \in Vectors /\ s.kind \in {"rotation", "translation"}
          /\ F \in Frames
  BY LocalType, RigidType, ExpType
<1>2. Turn(F, s.axis) \in Units /\ Move(F, s.origin) \in Vectors
  BY <1>1, TurnUnit, MoveType
<1> QED BY <1>1, <1>2 DEF Exponential, Exps

IsExps(E, segments, H) ==
  /\ E \in [0 .. Len(segments) -> Seq(Exps)] /\ E[0] = <<>>
  /\ \A i \in 1 .. Len(segments) :
        E[i] = IF segments[i].kind = "none" THEN E[i - 1]
            ELSE Append(E[i - 1], Seen(H, segments, i))

AtRest(segments) == [i \in 1 .. Len(segments) |-> SegmentPose(segments[i], 0)]

LEMMA RestType ==
  ASSUME NEW segments \in Seq(Segments)
  PROVE  /\ AtRest(segments) \in [1 .. Len(segments) -> Rigid]
         /\ \A i \in 1 .. Len(segments) : AtRest(segments)[i] = SegmentPose(segments[i], 0)
                /\ AtRest(segments)[i] = segments[i].tip
<1>1. 0 \in Int
  OBVIOUS
<1> QED BY <1>1, ChainType, PoseOfSegment, PoseAtZero DEF AtRest

(* fromChain places one exponential for each joint.                        *)
LEMMA ExpsDefined ==
  ASSUME NEW segments \in Seq(Segments), NEW H, \A i \in 1 .. Len(segments) : H[i - 1] \in Rigid,
         NEW E,
         E = [i \in 0 .. Len(segments) |-> IF i = 0 THEN <<>>
                                        ELSE IF segments[i].kind = "none" THEN E[i - 1]
                                        ELSE Append(E[i - 1], Seen(H, segments, i))]
  PROVE  IsExps(E, segments, H)
<1> DEFINE n == Len(segments)
           T == {i \in 0 .. n : E[i] \in Seq(Exps)}
<1>1. n \in Nat /\ 0 \in 0 .. n /\ \A i \in 1 .. n : i \in 0 .. n /\ i # 0
          /\ segments[i] \in Segments
  BY ChainType
<1>2. E[0] = <<>>
  BY <1>1
<1>3. ASSUME NEW i \in 1 .. n
      PROVE  E[i] = IF segments[i].kind = "none" THEN E[i - 1]
                 ELSE Append(E[i - 1], Seen(H, segments, i))
  BY <1>1
<1>4. 0 \in T
  BY <1>1, <1>2
<1>5. ASSUME NEW i \in 1 .. n, i - 1 \in T PROVE i \in T
  <2>1. E[i - 1] \in Seq(Exps) /\ i \in 0 .. n /\ segments[i] \in Segments /\ H[i - 1] \in Rigid
    BY <1>1, <1>5
  <2>2. segments[i].kind # "none" => Seen(H, segments, i) \in Exps
    BY <2>1, SeenType DEF Seen
  <2>3. E[i] \in Seq(Exps)
    <3>1. CASE segments[i].kind = "none"
      <4>1. E[i] = E[i - 1]
        BY <1>3, <3>1
      <4> QED BY <2>1, <4>1
    <3>2. CASE segments[i].kind # "none"
      <4>1. E[i] = Append(E[i - 1], Seen(H, segments, i))
        BY <1>3, <3>2
      <4>2. \A u \in Seq(Exps), e \in Exps : Append(u, e) \in Seq(Exps)
        OBVIOUS
      <4> QED BY <2>1, <2>2, <3>2, <4>1, <4>2
    <3> QED BY <3>1, <3>2
  <2> QED BY <2>1, <2>3
<1>6. 0 .. n \subseteq T
  <2> HIDE DEF T, n
  <2> QED BY <1>1, <1>4, <1>5, Interval
<1> QED BY <1>2, <1>3, <1>6 DEF IsExps

LEMMA ExpsDefinable ==
  ASSUME NEW segments \in Seq(Segments), NEW H, \A i \in 1 .. Len(segments) : H[i - 1] \in Rigid
  PROVE  \E f : f = [i \in 0 .. Len(segments) |-> IF i = 0 THEN <<>>
                                               ELSE IF segments[i].kind = "none" THEN f[i - 1]
                                               ELSE Append(f[i - 1], Seen(H, segments, i))]
<1> DEFINE n == Len(segments)
           next(i, s) == IF segments[i].kind = "none" THEN s ELSE Append(s, Seen(H, segments, i))
           step == [i \in 1 .. n |-> [s \in Seq(Exps) |-> next(i, s)]]
<1>1. n \in Nat /\ \A i \in 1 .. n : segments[i] \in Segments /\ H[i - 1] \in Rigid
  BY ChainType
<1>2. ASSUME NEW i \in 1 .. n, NEW s \in Seq(Exps) PROVE next(i, s) \in Seq(Exps)
  <2>1. segments[i].kind # "none" => Seen(H, segments, i) \in Exps
    BY <1>1, SeenType DEF Seen
  <2> QED BY <2>1
<1>3. step \in [1 .. n -> [Seq(Exps) -> Seq(Exps)]]
  <2> HIDE DEF next
  <2> QED BY <1>2
<1>4. PICK f \in [0 .. n -> Seq(Exps)] : Unfolds(f, n, <<>>, step)
  <2> HIDE DEF step
  <2>1. <<>> \in Seq(Exps)
    OBVIOUS
  <2> QED BY <1>1, <1>3, <2>1, Recursion
<1>5. ASSUME NEW i \in 0 .. n PROVE f[i] = IF i = 0 THEN <<>> ELSE next(i, f[i - 1])
  <2> HIDE DEF next
  <2>1. CASE i = 0
    BY <1>4, <2>1 DEF Unfolds
  <2>2. CASE i \in 1 .. n
    <3>1. f[i - 1] \in Seq(Exps)
      BY <2>2
    <3>2. step[i][f[i - 1]] = next(i, f[i - 1])
      BY <2>2, <3>1
    <3> QED BY <1>4, <2>2, <3>2 DEF Unfolds
  <2> QED BY <1>1, <2>1, <2>2
<1>6. f = [i \in 0 .. n |-> IF i = 0 THEN <<>>
                            ELSE IF segments[i].kind = "none" THEN f[i - 1]
                            ELSE Append(f[i - 1], Seen(H, segments, i))]
  BY <1>5
<1> QED BY <1>6

---------------------------------------------------------------------------
(* A product of exponentials made from a chain has the pose of the chain.  *)

(* There is one exponential for each joint. *)
LEMMA OneForEach ==
  ASSUME NEW segments \in Seq(Segments), NEW H, NEW E, IsExps(E, segments, H), NEW J,
         IsCount(J, segments)
  PROVE  \A i \in 0 .. Len(segments) : Len(E[i]) = J[i]
<1> DEFINE n == Len(segments)
           T == {i \in 0 .. n : Len(E[i]) = J[i]}
<1>1. n \in Nat /\ 0 \in 0 .. n
  BY ChainType
<1>2. 0 \in T
  BY <1>1 DEF IsExps, IsCount
<1>3. ASSUME NEW i \in 1 .. n, i - 1 \in T PROVE i \in T
  <2>1. i \in 0 .. n /\ i - 1 \in 0 .. n /\ E[i - 1] \in Seq(Exps) /\ Len(E[i - 1]) = J[i - 1]
            /\ J[i - 1] \in Nat
    <3>1. i \in 0 .. n /\ i - 1 \in 0 .. n
      BY <1>1
    <3>2. E \in [0 .. n -> Seq(Exps)] /\ J \in [0 .. n -> Nat]
      BY DEF IsExps, IsCount
    <3>3. Len(E[i - 1]) = J[i - 1]
      BY <1>3
    <3> HIDE DEF n
    <3> QED BY <3>1, <3>2, <3>3
  <2>2. CASE segments[i].kind = "none"
    <3>1. E[i] = E[i - 1] /\ J[i] = J[i - 1] + 0
      BY <2>2 DEF IsExps, IsCount
    <3> QED BY <2>1, <3>1
  <2>3. CASE segments[i].kind # "none"
    <3>1. E[i] = Append(E[i - 1], Seen(H, segments, i)) /\ J[i] = J[i - 1] + 1
      BY <2>3 DEF IsExps, IsCount
    <3>2. Len(E[i]) = Len(E[i - 1]) + 1
      BY <2>1, <3>1
    <3> QED BY <2>1, <3>1, <3>2
  <2> QED BY <2>2, <2>3
<1>4. 0 .. n \subseteq T
  <2> HIDE DEF T, n
  <2> QED BY <1>1, <1>2, <1>3, Interval
<1> QED BY <1>4

(* The exponentials of the first segments come first in all that follow. *)
LEMMA FirstStay ==
  ASSUME NEW segments \in Seq(Segments), NEW H, NEW E, IsExps(E, segments, H),
         NEW j \in 0 .. Len(segments), NEW k \in 1 .. Len(E[j])
  PROVE  \A i \in j .. Len(segments) : k \in 1 .. Len(E[i]) /\ E[i][k] = E[j][k]
<1> DEFINE n == Len(segments)
           T == {i \in 0 .. n : j <= i => k \in 1 .. Len(E[i]) /\ E[i][k] = E[j][k]}
<1>1. n \in Nat /\ 0 \in 0 .. n /\ j \in Int /\ k \in Int
  BY ChainType
<1>2. 0 \in T
  BY <1>1
<1>3. ASSUME NEW i \in 1 .. n, i - 1 \in T PROVE i \in T
  <2>1. i \in 0 .. n /\ i - 1 \in 0 .. n /\ E[i - 1] \in Seq(Exps)
    <3>1. i \in 0 .. n /\ i - 1 \in 0 .. n
      BY <1>1
    <3>2. E \in [0 .. n -> Seq(Exps)]
      BY DEF IsExps
    <3> HIDE DEF n
    <3> QED BY <3>1, <3>2
  <2>2. CASE j <= i - 1
    <3>1. k \in 1 .. Len(E[i - 1]) /\ E[i - 1][k] = E[j][k]
      BY <1>3, <2>2
    <3>2. CASE segments[i].kind = "none"
      <4>1. E[i] = E[i - 1]
        BY <3>2 DEF IsExps
      <4> QED BY <2>1, <3>1, <4>1
    <3>3. CASE segments[i].kind # "none"
      <4>1. E[i] = Append(E[i - 1], Seen(H, segments, i))
        BY <3>3 DEF IsExps
      <4>2. Len(E[i]) = Len(E[i - 1]) + 1 /\ E[i][k] = E[i - 1][k] /\ Len(E[i - 1]) \in Nat
        BY <2>1, <3>1, <4>1
      <4> QED BY <2>1, <3>1, <4>2
    <3> QED BY <3>2, <3>3
  <2>3. CASE j = i
    BY <2>1, <2>3
  <2>4. CASE j > i
    BY <1>1, <2>1, <2>4
  <2> QED BY <1>1, <2>2, <2>3, <2>4
<1>4. 0 .. n \subseteq T
  <2> HIDE DEF T, n
  <2> QED BY <1>1, <1>2, <1>3, Interval
<1> QED BY <1>1, <1>4

(* ProductOfExponentials::fromChain *)
LEMMA FromChainParts ==
  ASSUME NEW segments \in Seq(Segments)
  PROVE  \E H : /\ IsProduct(H, Len(segments), AtRest(segments))
                /\ \E E : IsExps(E, segments, H)
                       /\ FromChain(segments) = Poe(E[Len(segments)], H[Len(segments)])
<1> DEFINE n == Len(segments)
           A == AtRest(segments)
           H == CHOOSE f : f = [i \in 0 .. n |-> IF i = 0 THEN Identity
                                                  ELSE Compose(f[i - 1], SegmentPose(segments[i],
                                                      0))]
           E == CHOOSE f : f = [i \in 0 .. n |-> IF i = 0 THEN <<>>
                                                  ELSE IF segments[i].kind = "none" THEN f[i - 1]
                                                  ELSE Append(f[i - 1], Seen(H, segments, i))]
<1>1. n \in Nat /\ A \in [1 .. n -> Rigid] /\ \A i \in 1 .. n : A[i] = SegmentPose(segments[i], 0)
  BY ChainType, RestType
<1>2. FromChain(segments) = Poe(E[n], H[n])
  BY DEF FromChain, Seen
<1> HIDE DEF A
<1>3. H = [i \in 0 .. n |-> IF i = 0 THEN Identity
          ELSE Compose(H[i - 1], SegmentPose(segments[i], 0))]
  <2>1. PICK f : f = [i \in 0 .. n |-> IF i = 0 THEN Identity ELSE Compose(f[i - 1], A[i])]
    BY <1>1, ProductDefinable
  <2>2. f = [i \in 0 .. n |-> IF i = 0 THEN Identity
            ELSE Compose(f[i - 1], SegmentPose(segments[i], 0))]
    <3>1. \A i \in 0 .. n : i = 0 \/ i \in 1 .. n
      BY <1>1
    <3> QED BY <1>1, <2>1, <3>1
  <2> QED BY <2>2
<1> HIDE DEF H
<1>4. H = [i \in 0 .. n |-> IF i = 0 THEN Identity ELSE Compose(H[i - 1], A[i])]
  <2>1. \A i \in 0 .. n : i = 0 \/ i \in 1 .. n
    BY <1>1
  <2> QED BY <1>1, <1>3, <2>1
<1>5. IsProduct(H, n, A)
  BY <1>1, <1>4, ProductDefined
<1>6. \A i \in 1 .. n : H[i - 1] \in Rigid
  BY <1>1, <1>5, ProductParts
<1>7. E = [i \in 0 .. n |-> IF i = 0 THEN <<>>
                            ELSE IF segments[i].kind = "none" THEN E[i - 1]
                            ELSE Append(E[i - 1], Seen(H, segments, i))]
  <2>1. PICK f : f = [i \in 0 .. n |-> IF i = 0 THEN <<>>
                                       ELSE IF segments[i].kind = "none" THEN f[i - 1]
                                       ELSE Append(f[i - 1], Seen(H, segments, i))]
    BY <1>6, ExpsDefinable
  <2> QED BY <2>1
<1> HIDE DEF E
<1>8. IsExps(E, segments, H)
  BY <1>6, <1>7, ExpsDefined
<1> QED BY <1>2, <1>5, <1>8 DEF A

(* The recursive solver of forward kinematics. *)
Positioned(segments, J, q) ==
  [i \in 1 .. Len(segments) |-> SegmentPose(segments[i], IF segments[i].kind = "none" THEN 0
      ELSE q[J[i]])]

LEMMA ChainPoseParts ==
  ASSUME NEW segments \in Seq(Segments), NEW q,
         \A J : IsCount(J, segments) => \A i \in 1 .. Len(segments) : segments[i].kind # "none"
             => q[J[i]] \in Int
  PROVE  \E J : /\ IsCount(J, segments)
                /\ \E K : IsProduct(K, Len(segments), Positioned(segments, J, q))
                       /\ ChainPose(segments, q) = K[Len(segments)]
<1> DEFINE n == Len(segments)
           J == CHOOSE f : f = [i \in 0 .. n |-> IF i = 0 THEN 0
                                                  ELSE f[i - 1] + (IF segments[i].kind = "none"
                                                      THEN 0 ELSE 1)]
           K == CHOOSE f : f = [i \in 0 .. n |->
                   IF i = 0 THEN Identity
                   ELSE Compose(f[i - 1], SegmentPose(segments[i], IF segments[i].kind = "none"
                       THEN 0 ELSE q[J[i]]))]
           A == Positioned(segments, J, q)
<1>1. n \in Nat /\ \A i \in 1 .. n : segments[i] \in Segments
  BY ChainType
<1>2. ChainPose(segments, q) = K[n]
  BY DEF ChainPose
<1>3. J = [i \in 0 .. n |-> IF i = 0 THEN 0
          ELSE J[i - 1] + (IF segments[i].kind = "none" THEN 0 ELSE 1)]
  BY Countable
<1> HIDE DEF J
<1>4. IsCount(J, segments)
  BY <1>3, Counted
<1>5. ASSUME NEW i \in 1 .. n PROVE (IF segments[i].kind = "none" THEN 0 ELSE q[J[i]]) \in Int
  BY <1>4
<1>6. A \in [1 .. n -> Rigid] /\ \A i \in 1 .. n : A[i]
          = SegmentPose(segments[i], IF segments[i].kind = "none" THEN 0 ELSE q[J[i]])
  BY <1>1, <1>5, PoseOfSegment DEF Positioned
<1> HIDE DEF A
<1>7. K = [i \in 0 .. n |->
              IF i = 0 THEN Identity
              ELSE Compose(K[i - 1], SegmentPose(segments[i], IF segments[i].kind = "none" THEN 0
                  ELSE q[J[i]]))]
  <2>1. PICK f : f = [i \in 0 .. n |-> IF i = 0 THEN Identity ELSE Compose(f[i - 1], A[i])]
    BY <1>1, <1>6, ProductDefinable
  <2>2. f = [i \in 0 .. n |->
               IF i = 0 THEN Identity
               ELSE Compose(f[i - 1], SegmentPose(segments[i], IF segments[i].kind = "none" THEN 0
                   ELSE q[J[i]]))]
    <3>1. \A i \in 0 .. n : i = 0 \/ i \in 1 .. n
      BY <1>1
    <3> QED BY <1>6, <2>1, <3>1
  <2> QED BY <2>2
<1> HIDE DEF K
<1>8. K = [i \in 0 .. n |-> IF i = 0 THEN Identity ELSE Compose(K[i - 1], A[i])]
  <2>1. \A i \in 0 .. n : i = 0 \/ i \in 1 .. n
    BY <1>1
  <2> QED BY <1>6, <1>7, <2>1
<1>9. IsProduct(K, n, A)
  BY <1>1, <1>6, <1>8, ProductDefined
<1> QED BY <1>2, <1>4, <1>9 DEF A

---------------------------------------------------------------------------
(* A chain and the product made from it put the tool in the same place.    *)

LEMMA FromChainType ==
  ASSUME NEW segments \in Seq(Segments)
  PROVE  FromChain(segments) \in Poes
<1> DEFINE n == Len(segments)
<1>1. n \in Nat /\ n \in 0 .. n
  BY ChainType
<1>2. PICK H : /\ IsProduct(H, n, AtRest(segments))
               /\ \E E : IsExps(E, segments, H) /\ FromChain(segments) = Poe(E[n], H[n])
  BY FromChainParts
<1>3. PICK E : IsExps(E, segments, H) /\ FromChain(segments) = Poe(E[n], H[n])
  BY <1>2
<1>4. E \in [0 .. n -> Seq(Exps)]
  BY <1>3 DEF IsExps
<1>5. E[n] \in Seq(Exps) /\ H[n] \in Rigid
  BY <1>1, <1>2, <1>4, ProductParts
<1> QED BY <1>3, <1>5 DEF Poe, Poes

LEMMA MovedPast ==
  ASSUME NEW p \in Frames, NEW h \in Frames, NEW l \in Frames, NEW t \in Frames, NEW a \in Frames,
         Compose(a, h) = Compose(h, l)
  PROVE  Compose(Compose(p, h), Compose(l, t)) = Compose(Compose(p, a), Compose(h, t))
<1> DEFINE hl == Compose(h, l)
           lt == Compose(l, t)
           pa == Compose(p, a)
           ph == Compose(p, h)
<1>1. hl \in Frames /\ lt \in Frames /\ pa \in Frames /\ ph \in Frames
  BY ComposeType
<1>2. Compose(ph, lt) = Compose(Compose(ph, l), t)
  BY <1>1, ComposeAssoc
<1>3. Compose(ph, l) = Compose(p, hl)
  BY ComposeAssoc
<1>4. Compose(p, Compose(a, h)) = Compose(pa, h)
  BY ComposeAssoc
<1>5. Compose(Compose(pa, h), t) = Compose(pa, Compose(h, t))
  BY <1>1, ComposeAssoc
<1> QED BY <1>2, <1>3, <1>4, <1>5

(* The product read from a chain gives the poses of the chain. *)
LEMMA ChainAgrees ==
  ASSUME NEW segments \in Seq(Segments), NEW q \in [1 .. Len(FromChain(segments).exps) -> Int]
  PROVE  ChainPose(segments, q) = Evaluate(FromChain(segments), q)
<1> DEFINE n == Len(segments)
           poe == FromChain(segments)
           m == Len(poe.exps)
<1>1. n \in Nat /\ n \in 0 .. n /\ \A i \in 1 .. n : segments[i] \in Segments /\ i \in 0 .. n
          /\ i - 1 \in 0 .. n
  BY ChainType
<1>2. poe \in Poes /\ m \in Nat
  BY FromChainType, PoeType
<1>3. PICK H : /\ IsProduct(H, n, AtRest(segments))
               /\ \E E : IsExps(E, segments, H) /\ poe = Poe(E[n], H[n])
  BY FromChainParts
<1>4. PICK E : IsExps(E, segments, H) /\ poe = Poe(E[n], H[n])
  BY <1>3
<1>5. poe.exps = E[n] /\ poe.transform = H[n]
  BY <1>4 DEF Poe
<1> HIDE DEF poe
<1>6. E \in [0 .. n -> Seq(Exps)]
  BY <1>4 DEF IsExps
(* Every joint of the chain has its exponential. *)
<1>7. ASSUME NEW J, IsCount(J, segments), NEW i \in 1 .. n, segments[i].kind # "none"
      PROVE  /\ J[i] \in 1 .. m /\ J[i] - 1 = J[i - 1] /\ poe.exps[J[i]] = Seen(H, segments, i)
  <2>1. J[i] = J[i - 1] + 1 /\ J[i - 1] \in Nat /\ J[i] \in Nat
    <3>1. J \in [0 .. n -> Nat] /\ J[i] = J[i - 1] + 1
      BY <1>7 DEF IsCount
    <3> QED BY <1>1, <3>1
  <2>2. Len(E[i]) = J[i] /\ Len(E[i - 1]) = J[i - 1]
    BY <1>1, <1>4, <1>7, OneForEach
  <2>3. E[i] = Append(E[i - 1], Seen(H, segments, i)) /\ E[i - 1] \in Seq(Exps)
    <3>1. E[i] = Append(E[i - 1], Seen(H, segments, i))
      BY <1>4, <1>7 DEF IsExps
    <3> QED BY <1>1, <1>6, <3>1
  <2>4. J[i] \in 1 .. Len(E[i]) /\ E[i][J[i]] = Seen(H, segments, i)
    <3>1. E[i][Len(E[i - 1]) + 1] = Seen(H, segments, i)
      BY <2>3
    <3> QED BY <2>1, <2>2, <3>1
  <2>5. J[i] \in 1 .. Len(E[n]) /\ E[n][J[i]] = E[i][J[i]]
    <3>1. i \in 0 .. Len(segments) /\ n \in i .. Len(segments)
      BY <1>1
    <3> QED BY <1>4, <2>4, <3>1, FirstStay
  <2>6. J[i] \in 1 .. m
    BY <1>5, <2>5
  <2>7. J[i] - 1 = J[i - 1]
    BY <2>1
  <2> QED BY <1>5, <2>4, <2>5, <2>6, <2>7
<1>8. PICK J : /\ IsCount(J, segments)
               /\ \E K : IsProduct(K, n, Positioned(segments, J, q))
                      /\ ChainPose(segments, q) = K[n]
  <2>1. ASSUME NEW J, IsCount(J, segments), NEW i \in 1 .. n, segments[i].kind # "none"
        PROVE  q[J[i]] \in Int
    <3>1. J[i] \in 1 .. m
      BY <1>7, <2>1
    <3> QED BY <3>1 DEF poe
  <2> QED BY <2>1, ChainPoseParts
<1>9. PICK K : IsProduct(K, n, Positioned(segments, J, q)) /\ ChainPose(segments, q) = K[n]
  BY <1>8
<1> DEFINE A == Motions(poe, q)
<1>10. PICK P : IsProduct(P, m, A) /\ Evaluate(poe, q) = Compose(P[m], poe.transform)
  BY <1>2, Evaluated DEF poe
<1>11. \A k \in 1 .. m : A[k] = AsFrame(poe.exps[k], q[k]) /\ poe.exps[k] \in Exps /\ q[k] \in Int
           /\ A[k] \in Frames
  <2>1. \A k \in 1 .. m : A[k] = AsFrame(poe.exps[k], q[k])
    BY DEF Motions
  <2>2. \A k \in 1 .. m : poe.exps[k] \in Exps /\ q[k] \in Int
    BY <1>2, MotionType DEF poe
  <2> QED BY <2>1, <2>2, AsFrameRigid, RigidType
<1> HIDE DEF A
(* The products of the exponentials, moved by the frames at rest, are those *)
(* of the segments.                                                         *)
<1> DEFINE T == {i \in 0 .. n : J[i] \in 0 .. m /\ K[i] = Compose(P[J[i]], H[i])}
<1>12. 0 \in T
  <2>1. J[0] = 0
    BY <1>8 DEF IsCount
  <2>2. K[0] = Identity /\ H[0] = Identity /\ P[0] = Identity
    BY <1>1, <1>2, <1>3, <1>9, <1>10, ProductParts
  <2> QED BY <1>1, <1>2, <2>1, <2>2, IdentityType, IdentityLeft
<1>13. ASSUME NEW i \in 1 .. n, i - 1 \in T PROVE i \in T
  <2> DEFINE s == segments[i]
  <2>1. s \in Segments /\ s.tip \in Rigid /\ s.tip \in Frames /\ i \in 0 .. n /\ i - 1 \in 0 .. n
    BY <1>1, TipType, RigidType
  <2>2. /\ H[i] = Compose(H[i - 1], s.tip) /\ H[i - 1] \in Rigid /\ H[i - 1] \in Frames
    BY <1>1, <1>3, ProductParts, RestType, RigidType
  <2>3. K[i] = Compose(K[i - 1], SegmentPose(s, IF s.kind = "none" THEN 0 ELSE q[J[i]]))
    BY <1>1, <1>9, ProductParts DEF Positioned
  <2>4. J[i - 1] \in 0 .. m /\ K[i - 1] = Compose(P[J[i - 1]], H[i - 1])
    BY <1>13
  <2>5. P[J[i - 1]] \in Frames
    BY <1>2, <1>10, <2>4, ProductParts, RigidType
  <2>6. CASE s.kind = "none"
    <3>1. J[i] = J[i - 1]
      <4>1. J[i] = J[i - 1] + 0
        BY <1>8, <2>6 DEF IsCount
      <4>2. J[i - 1] \in Int
        BY <1>2, <2>4
      <4> QED BY <4>1, <4>2
    <3>2. K[i] = Compose(Compose(P[J[i - 1]], H[i - 1]), s.tip)
      BY <2>1, <2>3, <2>4, <2>6, PoseOfSegment
    <3>3. K[i] = Compose(P[J[i]], H[i])
      BY <2>1, <2>2, <2>5, <3>1, <3>2, ComposeAssoc
    <3> QED BY <2>1, <2>4, <3>1, <3>3
  <2>7. CASE s.kind # "none"
    <3> DEFINE k == J[i]
               theta == q[k]
               e == poe.exps[k]
               L == AsFrame(Local(s), theta)
    <3>1. k \in 1 .. m /\ k - 1 = J[i - 1] /\ e = Seen(H, segments, i)
      BY <1>7, <1>8, <2>7
    <3>2. theta \in Int /\ e \in Exps /\ A[k] = AsFrame(e, theta) /\ A[k] \in Frames
      BY <1>11, <3>1
    <3>3. P[k] = Compose(P[k - 1], A[k])
      BY <1>2, <1>10, <3>1, ProductParts
    <3>4. Local(s) \in Exps /\ L \in Rigid /\ L \in Frames
      BY <2>1, <2>7, <3>2, LocalType, AsFrameRigid, RigidType
    <3>5. A[k] = AsFrame(ChangeBase(Local(s), H[i - 1]), theta)
      <4>1. e.kind = s.kind /\ e.axis = Turn(H[i - 1], s.axis)
                /\ e.origin = Move(H[i - 1], s.origin)
        BY <3>1 DEF Seen, Exponential
      <4>2. LET c == ChangeBase(Local(s), H[i - 1])
            IN  /\ c \in Exps /\ c.kind = s.kind /\ c.axis = Turn(H[i - 1], s.axis)
                /\ s.kind = "rotation" => c.origin = Move(H[i - 1], s.origin)
        BY <2>1, <2>2, <2>7, <3>4, LocalType, ChangeBaseParts, SMTT(30)
      <4> QED BY <3>2, <4>1, <4>2, SameMotion
    <3>6. Compose(A[k], H[i - 1]) = Compose(H[i - 1], L)
      BY <2>2, <3>2, <3>4, <3>5, BaseChanged
    <3>7. K[i] = Compose(Compose(P[k - 1], H[i - 1]), Compose(L, s.tip))
      <4>1. SegmentPose(s, theta) = Compose(L, s.tip)
        BY <2>1, <2>7, <3>2, PoseOfSegment
      <4> QED BY <2>3, <2>4, <2>7, <3>1, <4>1
    <3> HIDE DEF k, theta, e, L, s
    <3>8. P[k - 1] \in Frames
      BY <2>5, <3>1
    <3>11. K[i] = Compose(P[k], H[i])
      <4> DEFINE h == H[i - 1]
                 t == s.tip
                 p == P[k - 1]
                 a == A[k]
      <4>1. h \in Frames /\ t \in Frames /\ p \in Frames /\ a \in Frames /\ L \in Frames
        BY <2>1, <2>2, <3>2, <3>4, <3>8
      <4>2. Compose(a, h) = Compose(h, L)
        BY <3>6
      <4>3. K[i] = Compose(Compose(p, h), Compose(L, t)) /\ P[k] = Compose(p, a)
                /\ H[i] = Compose(h, t)
        BY <2>2, <3>3, <3>7 DEF s
      <4> HIDE DEF h, t, p, a
      <4> QED BY <4>1, <4>2, <4>3, MovedPast
    <3>12. k \in 0 .. m
      BY <1>2, <3>1
    <3> QED BY <2>1, <3>11, <3>12 DEF k
  <2> QED BY <2>6, <2>7
<1>14. n \in T
  <2> HIDE DEF T
  <2>1. 0 .. n \subseteq T
    BY <1>1, <1>12, <1>13, Interval
  <2> QED BY <1>1, <2>1
<1>15. J[n] = m
  BY <1>1, <1>4, <1>5, <1>8, OneForEach
<1> QED BY <1>5, <1>9, <1>10, <1>14, <1>15 DEF poe

---------------------------------------------------------------------------
(* A product of exponentials and the chain made from it put the tool in    *)
(* the same place.                                                         *)

LEMMA TranslateMoves ==
  ASSUME NEW u \in Vectors, NEW v \in Vectors
  PROVE  /\ Move(Translate(u), v) = Plus(v, u)
         /\ Compose(Translate(u), Translate(v)) = Translate(Plus(v, u))
<1> DEFINE T == Translate(u)
           S == Translate(v)
           c == Compose(T, S)
           d == Translate(Plus(v, u))
<1>1. T \in Frames /\ S \in Frames /\ T.p = u /\ S.p = v /\ \A w \in Vectors : Turn(T, w) = w
  BY TranslateType, TranslateTurns
<1>2. Plus(v, u) \in Vectors
  BY PlusType
<1>3. d \in Frames /\ d.x = S.x /\ d.y = S.y /\ d.z = S.z /\ d.p = Plus(v, u)
  BY <1>2, TranslateType
<1>4. Move(T, v) = Plus(v, u)
  BY <1>1 DEF Move
<1>5. S.x \in Vectors /\ S.y \in Vectors /\ S.z \in Vectors /\ c \in Frames
  BY <1>1, FrameType, ComposeType
<1>6. c.x = S.x /\ c.y = S.y /\ c.z = S.z /\ c.p = Plus(v, u)
  BY <1>1, <1>4, <1>5, ComposeParts
<1> HIDE DEF c, d, T, S
<1>7. c = d
  BY <1>3, <1>5, <1>6, FrameEq
<1> QED BY <1>4, <1>7 DEF T, S, c, d

LEMMA Between ==
  ASSUME NEW u \in Vectors, NEW v \in Vectors
  PROVE  /\ Plus(Minus(v, u), u) = v
         /\ Plus(Times(-1, u), u) = Zero
<1>1. Minus(v, u) \in Vectors /\ Times(-1, u) \in Vectors /\ Zero \in Vectors
  BY MinusType, TimesType, ZeroType
<1>2. Plus(Minus(v, u), u) \in Vectors /\ Plus(Times(-1, u), u) \in Vectors
  BY <1>1, PlusType
<1>3. ASSUME NEW i \in 1 .. 3
      PROVE  Plus(Minus(v, u), u)[i] = v[i] /\ Plus(Times(-1, u), u)[i] = Zero[i]
  <2>1. v[i] \in Int /\ u[i] \in Int
    BY VectorAt
  <2>2. Plus(Minus(v, u), u)[i] = (v[i] - u[i]) + u[i]
    BY PlusAt, MinusAt
  <2>3. Plus(Times(-1, u), u)[i] = (-1) * u[i] + u[i]
    BY PlusAt, TimesAt
  <2>4. Zero[i] = 0
    BY DEF Zero
  <2> QED BY <2>1, <2>2, <2>3, <2>4
<1>4. Plus(Minus(v, u), u) = v
  BY <1>2, <1>3, VectorEq
<1>5. Plus(Times(-1, u), u) = Zero
  BY <1>1, <1>2, <1>3, VectorEq
<1> QED BY <1>4, <1>5

(* Where the joints of a product are, the base before the first. *)
Origins(poe) == [i \in 0 .. Len(poe.exps) |-> IF i = 0 THEN Zero ELSE poe.exps[i].origin]

LEMMA ToChainParts ==
  ASSUME NEW poe \in Poes
  PROVE  LET n == Len(poe.exps)
             c == ToChain(poe)
             O == Origins(poe)
         IN  /\ c \in Seq(Segments) /\ Len(c) = n + 1
             /\ \A i \in 0 .. n : O[i] \in Vectors
             /\ O[0] = Zero
             /\ \A i \in 1 .. n :
                   /\ O[i] = poe.exps[i].origin
                   /\ c[i] = Segment(poe.exps[i].kind, poe.exps[i].axis, Minus(O[i], O[i - 1]),
                          Translate(Minus(O[i], O[i - 1])))
             /\ c[n + 1] = Fixed(Compose(Translate(Times(-1, O[n])), poe.transform))
<1> DEFINE n == Len(poe.exps)
           c == ToChain(poe)
           O == Origins(poe)
           S == [i \in 1 .. n |-> Segment(poe.exps[i].kind, poe.exps[i].axis,
               Minus(O[i], O[i - 1]), Translate(Minus(O[i], O[i - 1])))]
           last == Fixed(Compose(Translate(Times(-1, O[n])), poe.transform))
<1>1. n \in Nat /\ poe.transform \in Rigid /\ \A i \in 1 .. n : poe.exps[i] \in Exps
  BY PoeType
<1>2. \A i \in 1 .. n : poe.exps[i].kind \in {"rotation", "translation"}
          /\ poe.exps[i].axis \in Units /\ poe.exps[i].origin \in Vectors
  BY <1>1, ExpType
<1>3. O[0] = Zero /\ \A i \in 1 .. n : O[i] = poe.exps[i].origin
  <2>1. 0 \in 0 .. n /\ \A i \in 1 .. n : i \in 0 .. n /\ i # 0
    BY <1>1
  <2> HIDE DEF n
  <2>2. \A i \in 0 .. n : O[i] = IF i = 0 THEN Zero ELSE poe.exps[i].origin
    BY DEF Origins, n
  <2> HIDE DEF O
  <2> QED BY <2>1, <2>2
<1>4. \A i \in 0 .. n : O[i] \in Vectors
  <2>1. \A i \in 0 .. n : i = 0 \/ i \in 1 .. n
    BY <1>1
  <2> QED BY <1>2, <1>3, <2>1, ZeroType
<1>5. c = Append(S, last)
  <2> DEFINE before(i) == IF i = 1 THEN Zero ELSE poe.exps[i - 1].origin
             local(i)  == Minus(poe.exps[i].origin, before(i))
             X == [i \in 1 .. n |-> Segment(poe.exps[i].kind, poe.exps[i].axis, local(i),
                 Translate(local(i)))]
             l == Fixed(Compose(Translate(Times(-1, before(n + 1))), poe.transform))
  <2>1. c = Append(X, l)
    BY DEF ToChain
  <2>2. \A i \in 1 .. n : before(i) = O[i - 1]
    <3> TAKE i \in 1 .. n
    <3>1. CASE i = 1
      <4>1. i - 1 = 0
        BY <3>1
      <4> QED BY <1>3, <3>1, <4>1
    <3>2. CASE i # 1
      <4>1. i - 1 \in 1 .. n
        BY <1>1, <3>2
      <4> QED BY <1>3, <3>2, <4>1
    <3> QED BY <3>1, <3>2
  <2>3. before(n + 1) = O[n]
    <3>1. CASE n = 0
      BY <1>3, <3>1
    <3>2. CASE n # 0
      <4>1. n \in 1 .. n /\ (n + 1) - 1 = n /\ n + 1 # 1
        BY <1>1, <3>2
      <4> QED BY <1>3, <4>1
    <3> QED BY <3>1, <3>2
  <2>4. \A i \in 1 .. n : local(i) = Minus(O[i], O[i - 1])
    BY <1>3, <2>2
  <2> HIDE DEF before, local, O, n
  <2>5. X = S /\ l = last
    BY <2>3, <2>4
  <2> QED BY <2>1, <2>5
<1> HIDE DEF O, c
<1>6. \A i \in 1 .. n : S[i] \in Segments
  <2> TAKE i \in 1 .. n
  <2> DEFINE d == Minus(O[i], O[i - 1])
  <2>1. i \in 0 .. n /\ i - 1 \in 0 .. n
    BY <1>1
  <2>2. d \in Vectors
    BY <1>4, <2>1, MinusType
  <2>3. Translate(d) \in Rigid
    BY <2>2, TranslateRigid
  <2>4. S[i] = Segment(poe.exps[i].kind, poe.exps[i].axis, d, Translate(d))
    OBVIOUS
  <2> HIDE DEF d, S, n
  <2> QED BY <1>2, <2>2, <2>3, <2>4 DEF Segment, Segments, JointSegments
<1>7. last \in Segments
  <2> DEFINE d == Times(-1, O[n])
  <2>1. n \in 0 .. n
    BY <1>1
  <2>2. d \in Vectors
    BY <1>4, <2>1, TimesType
  <2>3. Compose(Translate(d), poe.transform) \in Rigid
    BY <1>1, <2>2, TranslateRigid, ComposeRigid
  <2> HIDE DEF d
  <2> QED BY <2>3 DEF Segments, FixedSegments, Fixed, Segment, d
<1>8. S \in Seq(Segments) /\ Len(S) = n
  <2>1. S \in [1 .. n -> Segments]
    BY <1>6
  <2> HIDE DEF S, n
  <2> QED BY <1>1, <2>1, MakeSequence
<1>9. \A i \in 1 .. n : S[i] = Segment(poe.exps[i].kind, poe.exps[i].axis, Minus(O[i], O[i - 1]),
          Translate(Minus(O[i], O[i - 1])))
  OBVIOUS
<1> HIDE DEF S, last, n
<1>10. c \in Seq(Segments) /\ Len(c) = n + 1 /\ c[n + 1] = last /\ \A i \in 1 .. n : c[i] = S[i]
  BY <1>1, <1>5, <1>7, <1>8
<1> QED BY <1>3, <1>4, <1>9, <1>10 DEF last, c, n, O

(* ProductOfExponentials::toChain: the joints are those of the product. *)
LEMMA ToChainCount ==
  ASSUME NEW poe \in Poes, NEW J, IsCount(J, ToChain(poe))
  PROVE  LET n == Len(poe.exps)
         IN  /\ \A i \in 0 .. n : J[i] = i
             /\ J[n + 1] = n
<1> DEFINE n == Len(poe.exps)
           c == ToChain(poe)
           T == {i \in 0 .. n : J[i] = i}
<1>1. n \in Nat /\ Len(c) = n + 1 /\ c[n + 1].kind = "none"
  <2>1. n \in Nat /\ Len(c) = n + 1
    BY PoeType, ToChainParts
  <2>2. c[n + 1] = Fixed(Compose(Translate(Times(-1, Origins(poe)[n])), poe.transform))
    BY ToChainParts
  <2> HIDE DEF c, n
  <2> QED BY <2>1, <2>2 DEF Fixed, Segment
<1>2. \A i \in 1 .. n : c[i].kind # "none"
  <2> TAKE i \in 1 .. n
  <2> DEFINE d == Minus(Origins(poe)[i], Origins(poe)[i - 1])
  <2>1. c[i] = Segment(poe.exps[i].kind, poe.exps[i].axis, d, Translate(d))
    BY ToChainParts
  <2>2. poe.exps[i].kind \in {"rotation", "translation"}
    BY PoeType, ExpType
  <2> HIDE DEF c, n, d
  <2> QED BY <2>1, <2>2 DEF Segment
<1>3. J[0] = 0 /\ \A i \in 1 .. n + 1 : J[i] = J[i - 1] + (IF c[i].kind = "none" THEN 0 ELSE 1)
  BY <1>1 DEF IsCount
<1> HIDE DEF c, n
<1>4. 0 \in T
  BY <1>1, <1>3
<1>5. ASSUME NEW i \in 1 .. n, i - 1 \in T PROVE i \in T
  <2>1. i \in 1 .. n + 1 /\ i \in 0 .. n /\ i \in Int
    BY <1>1
  <2>2. J[i] = J[i - 1] + 1
    BY <1>2, <1>3, <2>1
  <2> QED BY <1>5, <2>1, <2>2
<1>6. 0 .. n \subseteq T
  <2> HIDE DEF T
  <2> QED BY <1>1, <1>4, <1>5, Interval
<1>7. J[n + 1] = n
  <2>1. n + 1 \in 1 .. n + 1 /\ (n + 1) - 1 = n /\ n \in 0 .. n
    BY <1>1
  <2>2. J[n + 1] = J[n] + 0
    BY <1>1, <1>3, <2>1
  <2>3. J[n] = n
    BY <1>6, <2>1
  <2> QED BY <1>1, <2>2, <2>3
<1> QED BY <1>6, <1>7 DEF n

(* A chain made from a product gives the poses of the product. *)
LEMMA ToChainAgrees ==
  ASSUME NEW poe \in Poes, NEW q \in [1 .. Len(poe.exps) -> Int]
  PROVE  ChainPose(ToChain(poe), q) = Evaluate(poe, q)
<1> DEFINE n == Len(poe.exps)
           c == ToChain(poe)
           O == Origins(poe)
           A == Motions(poe, q)
<1>1. n \in Nat /\ poe.transform \in Rigid /\ \A i \in 1 .. n : poe.exps[i] \in Exps
          /\ q[i] \in Int
  BY PoeType
<1>2. /\ c \in Seq(Segments) /\ Len(c) = n + 1
      /\ \A i \in 0 .. n : O[i] \in Vectors
      /\ O[0] = Zero
      /\ \A i \in 1 .. n :
            /\ O[i] = poe.exps[i].origin
            /\ c[i] = Segment(poe.exps[i].kind, poe.exps[i].axis, Minus(O[i], O[i - 1]),
                   Translate(Minus(O[i], O[i - 1])))
      /\ c[n + 1] = Fixed(Compose(Translate(Times(-1, O[n])), poe.transform))
  BY ToChainParts
<1>3. \A i \in 1 .. n + 1 : c[i] \in Segments
  BY <1>2, ChainType
<1>4. \A i \in 1 .. n : A[i] = AsFrame(poe.exps[i], q[i]) /\ A[i] \in Rigid /\ A[i] \in Frames
  BY <1>1, AsFrameRigid, RigidType DEF Motions
<1>5. PICK J : /\ IsCount(J, c)
               /\ \E K : IsProduct(K, Len(c), Positioned(c, J, q)) /\ ChainPose(c, q) = K[Len(c)]
  <2>1. ASSUME NEW J, IsCount(J, c), NEW i \in 1 .. Len(c), c[i].kind # "none"
        PROVE  q[J[i]] \in Int
    <3>1. i # n + 1
      BY <1>2, <2>1 DEF Fixed, Segment
    <3>2. i \in 1 .. n /\ i \in 0 .. n
      BY <1>1, <1>2, <3>1
    <3>3. J[i] = i
      BY <2>1, <3>2, ToChainCount
    <3> QED BY <1>1, <3>2, <3>3
  <2> HIDE DEF c
  <2> QED BY <1>2, <2>1, ChainPoseParts
<1>6. J[n + 1] = n /\ \A i \in 0 .. n : J[i] = i
  BY <1>5, ToChainCount
<1>7. PICK K : IsProduct(K, n + 1, Positioned(c, J, q)) /\ ChainPose(c, q) = K[n + 1]
  BY <1>2, <1>5
<1>8. PICK P : IsProduct(P, n, A) /\ Evaluate(poe, q) = Compose(P[n], poe.transform)
  BY Evaluated
<1> HIDE DEF A, O, c
<1>9. /\ K[0] = Identity /\ P[0] = Identity
      /\ \A i \in 1 .. n : P[i] = Compose(P[i - 1], A[i])
      /\ \A i \in 0 .. n : P[i] \in Frames
      /\ \A i \in 1 .. n + 1 : K[i] = Compose(K[i - 1], Positioned(c, J, q)[i])
  BY <1>1, <1>7, <1>8, ProductParts, RigidType
<1>10. \A i \in 1 .. n + 1 : Positioned(c, J, q)[i]
           = SegmentPose(c[i], IF c[i].kind = "none" THEN 0 ELSE q[J[i]])
  BY <1>2 DEF Positioned
<1> DEFINE T == {i \in 0 .. n : K[i] = Compose(P[i], Translate(O[i]))}
<1> HIDE DEF n
<1>11. 0 \in T
  BY <1>1, <1>2, <1>9, IdentityType, IdentityLeft DEF Identity
<1>12. ASSUME NEW i \in 1 .. n, i - 1 \in T PROVE i \in T
  <2> DEFINE s == c[i]
             e == poe.exps[i]
             d == Minus(O[i], O[i - 1])
             h == Translate(O[i - 1])
             t == Translate(d)
             p == P[i - 1]
             a == A[i]
             l == AsFrame(Local(s), q[i])
             x == ChangeBase(Local(s), h)
  <2>1. i \in 0 .. n /\ i - 1 \in 0 .. n /\ i \in 1 .. n + 1
    BY <1>1
  <2>2. O[i] \in Vectors /\ O[i - 1] \in Vectors /\ e \in Exps /\ q[i] \in Int
    BY <1>1, <1>2, <2>1
  <2>3. d \in Vectors /\ s = Segment(e.kind, e.axis, d, t) /\ s \in Segments /\ e.origin = O[i]
    BY <1>2, <1>3, <2>1, <2>2, MinusType
  <2>4. s.kind = e.kind /\ s.axis = e.axis /\ s.origin = d /\ s.tip = t /\ s.kind # "none"
    BY <2>2, <2>3, ExpType DEF Segment
  <2>5. h \in Rigid /\ h \in Frames /\ t \in Frames /\ p \in Frames /\ a \in Frames
            /\ a = AsFrame(e, q[i])
    BY <1>4, <1>9, <2>1, <2>2, <2>3, TranslateRigid, RigidType
  <2>6. /\ Local(s) \in Exps /\ Local(s).kind = e.kind /\ Local(s).axis = e.axis
        /\ Local(s).origin = d
    BY <2>3, <2>4, LocalType
  <2>7. l \in Frames
    BY <2>2, <2>6, AsFrameRigid, RigidType
  <2>8. Positioned(c, J, q)[i] = Compose(l, t)
    <3>1. J[i] = i
      BY <1>6, <2>1
    <3>2. Positioned(c, J, q)[i] = SegmentPose(s, q[i])
      BY <1>10, <2>1, <2>4, <3>1
    <3> QED BY <2>2, <2>3, <2>4, <3>2, PoseOfSegment
  <2>9. /\ x \in Exps /\ x.kind = e.kind /\ x.axis = Turn(h, e.axis)
        /\ e.kind = "rotation" => x.origin = Move(h, d)
    BY <2>5, <2>6, ChangeBaseParts
  <2>10. Turn(h, e.axis) = e.axis /\ Move(h, d) = e.origin
    BY <2>2, <2>3, ExpType, TranslateTurns, TranslateMoves, Between
  <2>11. AsFrame(x, q[i]) = a
    <3> HIDE DEF x, e, a, d, h
    <3>1. x.kind = e.kind /\ x.axis = e.axis /\ (x.kind = "rotation" => x.origin = e.origin)
      BY <2>9, <2>10
    <3>2. x \in Exps /\ e \in Exps /\ q[i] \in Int /\ a = AsFrame(e, q[i])
      BY <2>2, <2>5, <2>9
    <3> QED BY <3>1, <3>2, SameMotion
  <2>12. Compose(a, h) = Compose(h, l)
    BY <2>2, <2>5, <2>6, <2>11, BaseChanged
  <2>13. Compose(h, t) = Translate(O[i])
    BY <2>2, <2>3, TranslateMoves, Between
  <2>14. K[i] = Compose(Compose(p, h), Compose(l, t)) /\ P[i] = Compose(p, a)
    BY <1>9, <1>12, <2>1, <2>8
  <2> HIDE DEF s, e, d, h, t, p, a, l, x
  <2>15. K[i] = Compose(P[i], Translate(O[i]))
    BY <2>5, <2>7, <2>12, <2>13, <2>14, MovedPast
  <2> QED BY <2>1, <2>15
<1>13. n \in T
  <2> HIDE DEF T
  <2>1. 0 .. n \subseteq T
    BY <1>1, <1>11, <1>12, Interval
  <2> QED BY <1>1, <2>1
<1>14. K[n + 1] = Compose(P[n], poe.transform)
  <2> DEFINE o == O[n]
             m == Times(-1, o)
             p == P[n]
             G == poe.transform
             f == Compose(Translate(m), G)
  <2>1. n \in 0 .. n /\ n + 1 \in 1 .. n + 1 /\ (n + 1) - 1 = n
    BY <1>1
  <2>2. o \in Vectors /\ m \in Vectors /\ p \in Frames /\ G \in Frames
    BY <1>1, <1>2, <1>9, <2>1, TimesType, RigidType
  <2>3. Translate(o) \in Frames /\ Translate(m) \in Frames
    BY <2>2, TranslateType
  <2>4. Positioned(c, J, q)[n + 1] = f
    <3>1. c[n + 1].kind = "none" /\ c[n + 1].tip = f
      BY <1>2 DEF Fixed, Segment
    <3>2. SegmentPose(c[n + 1], 0) = f
      BY <3>1 DEF SegmentPose
    <3> QED BY <1>10, <2>1, <3>1, <3>2
  <2>5. K[n + 1] = Compose(Compose(p, Translate(o)), f)
    BY <1>9, <1>13, <2>1, <2>4
  <2>6. Compose(Translate(o), Translate(m)) = Identity
    BY <2>2, TranslateMoves, Between DEF Identity
  <2> HIDE DEF o, m, p, G
  <2>7. Compose(Translate(o), f) = Compose(Compose(Translate(o), Translate(m)), G)
    BY <2>2, <2>3, ComposeAssoc
  <2>8. Compose(Translate(o), f) = G
    BY <2>2, <2>6, <2>7, IdentityLeft
  <2>9. f \in Frames
    BY <2>2, <2>3, ComposeType
  <2> HIDE DEF f
  <2>10. K[n + 1] = Compose(p, Compose(Translate(o), f))
    BY <2>2, <2>3, <2>5, <2>9, ComposeAssoc
  <2> QED BY <2>8, <2>10 DEF p, G
<1> QED BY <1>7, <1>8, <1>14 DEF c, n

---------------------------------------------------------------------------
(* The screw theory solver: every answer is what the inverse kinematics of *)
(* the current chain finds.                                                *)

(* computeSolutions counts in whole numbers. *)
LEMMA CountOfSolutions ==
  ASSUME NEW steps, Len(steps) \in Nat
  PROVE  ComputeSolutions(steps) \in Nat
<1> DEFINE n == Len(steps)
           times == [i \in 1 .. n |-> [k \in Nat |-> k * SolutionsOf(steps[i].kind)]]
           product == CHOOSE f : f = [i \in 0 .. n |-> IF i = 0 THEN 1
               ELSE f[i - 1] * SolutionsOf(steps[i].kind)]
<1>1. ASSUME NEW i \in 1 .. n, NEW k \in Nat PROVE k * SolutionsOf(steps[i].kind) \in Nat
  BY DEF SolutionsOf
<1>2. times \in [1 .. n -> [Nat -> Nat]]
  BY <1>1
<1>3. PICK f \in [0 .. n -> Nat] : Unfolds(f, n, 1, times)
  <2>1. n \in Nat /\ 1 \in Nat
    OBVIOUS
  <2> HIDE DEF times
  <2> QED BY <1>2, <2>1, Recursion
<1>4. ASSUME NEW i \in 0 .. n
      PROVE  f[i] = IF i = 0 THEN 1 ELSE f[i - 1] * SolutionsOf(steps[i].kind)
  <2>1. CASE i = 0
    BY <1>3, <2>1 DEF Unfolds
  <2>2. CASE i \in 1 .. n
    <3>1. f[i - 1] \in Nat
      BY <2>2
    <3>2. times[i][f[i - 1]] = f[i - 1] * SolutionsOf(steps[i].kind)
      BY <2>2, <3>1
    <3> QED BY <1>3, <2>2, <3>2 DEF Unfolds
  <2> QED BY <2>1, <2>2
<1>5. f = [i \in 0 .. n |-> IF i = 0 THEN 1 ELSE f[i - 1] * SolutionsOf(steps[i].kind)]
  BY <1>4
<1>6. product = [i \in 0 .. n |-> IF i = 0 THEN 1
          ELSE product[i - 1] * SolutionsOf(steps[i].kind)]
  BY <1>5
<1>7. product[n] \in Nat
  <2> HIDE DEF product
  <2> DEFINE T == {i \in 0 .. n : product[i] \in Nat}
  <2>1. 0 \in T
    BY <1>6
  <2>2. ASSUME NEW i \in 1 .. n, i - 1 \in T PROVE i \in T
    <3>1. product[i] = product[i - 1] * SolutionsOf(steps[i].kind)
      BY <1>6
    <3>2. product[i - 1] \in Nat
      BY <2>2
    <3>3. product[i - 1] * SolutionsOf(steps[i].kind) \in Nat
      BY <1>1, <3>2
    <3>4. product[i] \in Nat
      BY <3>1, <3>3
    <3> HIDE DEF n
    <3> QED BY <3>4
  <2>3. 0 .. n \subseteq T
    <3> HIDE DEF T
    <3> QED BY <2>1, <2>2, Interval
  <2> QED BY <2>3
<1>8. ComputeSolutions(steps) = IF steps = <<>> THEN 0 ELSE product[n]
  BY DEF ComputeSolutions
<1> QED BY <1>7, <1>8

---------------------------------------------------------------------------
IsSequence(s) == \E S : s \in Seq(S)

LEMMA IsAppended == ASSUME NEW s, IsSequence(s), NEW e PROVE IsSequence(Append(s, e))
<1>1. PICK S : s \in Seq(S)
  BY DEF IsSequence
<1>2. s \in Seq(S \cup {e})
  BY <1>1
<1>3. Append(s, e) \in Seq(S \cup {e})
  BY <1>2
<1> QED BY <1>3 DEF IsSequence

LEMMA IsLong == ASSUME NEW s, IsSequence(s) PROVE Len(s) \in Nat
BY DEF IsSequence

(* What the problem is to be built for. *)
Product(reversed) == IF reversed THEN ReverseSelf(FromChain(chain)) ELSE FromChain(chain)

Builds ==
    phase = "building" =>
        /\ {"poe", "reversed", "steps"} \subseteq DOMAIN search
        /\ IsSequence(search.steps)
        /\ search.poe = Product(search.reversed)

Fits ==
    phase \in {"ready", "solving"} /\ error # "solution_not_found"
        => problem.poe = Product(problem.reversed)

Chosen ==
    /\ IsSequence(problem.steps)
    /\ lastValid \in Nat /\ chosenOf \in Nat /\ lastValid <= chosenOf
    /\ phase = "solving" => error # "solution_not_found"
    /\ answer.kind = "joints" =>
          /\ phase = "ready" /\ error # "solution_not_found"
          /\ answer.config <= answer.of \/ chosenOf > answer.of

FollowInv == Builds /\ Fits /\ Chosen

LEMMA NextPointKeeps ==
  ASSUME NEW b, {"poe", "reversed", "steps"} \subseteq DOMAIN b
  PROVE  LET c == NextPoint(b)
         IN  /\ DOMAIN c = DOMAIN b /\ c.poe = b.poe /\ c.reversed = b.reversed
             /\ c.steps = b.steps
BY DEF NextPoint

LEMMA TakeStepKeeps ==
  ASSUME NEW b, {"poe", "reversed", "steps"} \subseteq DOMAIN b, NEW s
  PROVE  LET c == TakeStep(b, s)
         IN  /\ DOMAIN c = DOMAIN b /\ c.poe = b.poe /\ c.reversed = b.reversed
             /\ c.steps = Append(b.steps, s)
BY DEF TakeStep

LEMMA SearchKeeps ==
  ASSUME NEW b, {"poe", "reversed", "steps"} \subseteq DOMAIN b, IsSequence(b.steps)
  PROVE  LET c == SearchSolutions(b)
         IN  /\ DOMAIN c = DOMAIN b /\ c.poe = b.poe /\ c.reversed = b.reversed
             /\ IsSequence(c.steps)
<1>1. CASE TrySolve(b, Simplify(b)) = {}
  BY <1>1, NextPointKeeps DEF SearchSolutions
<1>2. CASE TrySolve(b, Simplify(b)) # {}
  BY <1>2, TakeStepKeeps, IsAppended DEF SearchSolutions
<1> QED BY <1>1, <1>2

LEMMA SearchStarts ==
  ASSUME NEW poe, NEW draw
  PROVE  /\ LET c == SearchFrom(poe, FALSE, draw)
            IN  /\ {"poe", "reversed", "steps"} \subseteq DOMAIN c /\ c.poe = poe /\ ~c.reversed
                /\ IsSequence(c.steps)
         /\ LET c == SearchFrom(poe, TRUE, draw)
            IN  /\ {"poe", "reversed", "steps"} \subseteq DOMAIN c /\ c.poe = poe /\ c.reversed
                /\ IsSequence(c.steps)
<1>1. IsSequence(<<>>)
  BY DEF IsSequence
<1> QED BY <1>1 DEF SearchFrom

LEMMA FollowInit == SolverOff => FollowInv
<1>1. IsSequence(<<>>)
  BY DEF IsSequence
<1> QED BY <1>1 DEF SolverOff, FollowInv, Builds, Fits, Chosen, NoProblem, NoAnswer,
    INVALID_CONFIG

LEMMA BuildStep ==
  ASSUME FollowInv, Build(chain'), answer'.kind # "joints",
         UNCHANGED <<problem, lastValid, chosenOf>>
  PROVE  FollowInv'
<1>1. Builds'
  <2>1. PICK draw \in Draws : search' = SearchFrom(FromChain(chain'), FALSE, draw)
    BY DEF Build
  <2>2. /\ {"poe", "reversed", "steps"} \subseteq DOMAIN search'
        /\ IsSequence(search'.steps)
        /\ search'.poe = FromChain(chain') /\ ~search'.reversed
    BY <2>1, SearchStarts
  <2> QED BY <2>2 DEF Builds, Product
<1>2. Fits' /\ Chosen'
  BY DEF Build, FollowInv, Fits, Chosen
<1> QED BY <1>1, <1>2 DEF FollowInv

LEMMA OpenStep == FollowInv /\ Open => FollowInv'
<1> SUFFICES ASSUME FollowInv, Open PROVE FollowInv'
  OBVIOUS
<1>1. UNCHANGED <<problem, error, lastValid, job, answer, chosenOf>> /\ phase = "closed"
  BY DEF Open
<1>2. answer.kind # "joints"
  BY <1>1 DEF FollowInv, Chosen
<1>3. CASE phase' = "failed"
  BY <1>1, <1>2, <1>3 DEF FollowInv, Builds, Fits, Chosen
<1>4. CASE Build(chain')
  BY <1>1, <1>2, <1>4, BuildStep
<1> QED BY <1>3, <1>4 DEF Open

LEMMA SearchStepStep == FollowInv /\ SearchStep => FollowInv'
<1> SUFFICES ASSUME FollowInv, SearchStep PROVE FollowInv'
  OBVIOUS
<1>1. /\ phase = "building" /\ phase' = phase
      /\ UNCHANGED <<chain, problem, error, lastValid, job, answer, chosenOf>>
  BY DEF SearchStep
<1>2. CASE search' = SearchSolutions(search)
  <2>1. Builds'
    BY <1>1, <1>2, SearchKeeps DEF FollowInv, Builds, Product
  <2> QED BY <1>1, <2>1 DEF FollowInv, Fits, Chosen
<1>3. CASE ~search.reversed /\ \E draw \in Draws : search' = SearchFrom(ReverseSelf(search.poe), TRUE, draw)
  <2>1. search.poe = FromChain(chain)
    BY <1>1, <1>3 DEF FollowInv, Builds, Product
  <2>4. PICK draw \in Draws : search' = SearchFrom(ReverseSelf(FromChain(chain')), TRUE, draw)
    BY <1>1, <1>3, <2>1
  <2>2. /\ {"poe", "reversed", "steps"} \subseteq DOMAIN search'
        /\ IsSequence(search'.steps)
        /\ search'.poe = ReverseSelf(FromChain(chain')) /\ search'.reversed
    BY <2>4, SearchStarts
  <2>3. Builds'
    BY <2>2 DEF Builds, Product
  <2> QED BY <1>1, <2>3 DEF FollowInv, Fits, Chosen
<1> QED BY <1>2, <1>3 DEF SearchStep

LEMMA FoundStep == FollowInv /\ Found => FollowInv'
<1> SUFFICES ASSUME FollowInv, Found PROVE FollowInv'
  OBVIOUS
<1>1. Builds' /\ Fits'
  BY DEF Found, FollowInv, Builds, Fits, Product
<1>2. Chosen'
  BY DEF Found, FollowInv, Builds, Chosen
<1> QED BY <1>1, <1>2 DEF FollowInv

LEMMA NotFoundStep == FollowInv /\ NotFound => FollowInv'
BY DEF NotFound, FollowInv, Builds, Fits, Chosen

LEMMA AppendLinkStep == FollowInv /\ AppendLink => FollowInv'
<1> SUFFICES ASSUME FollowInv, AppendLink PROVE FollowInv'
  OBVIOUS
<1>1. Build(chain') /\ answer' = [kind |-> "done"] /\ UNCHANGED <<problem, lastValid, chosenOf>>
  BY DEF AppendLink
<1> QED BY <1>1, BuildStep

LEMMA RestoreStep == FollowInv /\ RestoreOriginalChain => FollowInv'
<1> SUFFICES ASSUME FollowInv, RestoreOriginalChain PROVE FollowInv'
  OBVIOUS
<1>1. Build(chain') /\ answer' = [kind |-> "done"] /\ UNCHANGED <<problem, lastValid, chosenOf>>
  BY DEF RestoreOriginalChain
<1> QED BY <1>1, BuildStep

LEMMA InvKinStep == FollowInv /\ InvKin => FollowInv'
<1> SUFFICES ASSUME FollowInv, InvKin PROVE FollowInv'
  OBVIOUS
<1>1. /\ UNCHANGED <<chain, search, problem, error, lastValid, chosenOf>>
      /\ phase = "ready" /\ answer'.kind # "joints"
      /\ phase' = phase \/ (phase' = "solving" /\ error # "solution_not_found")
  BY DEF InvKin, NoAnswer
<1> QED BY <1>1 DEF FollowInv, Builds, Fits, Chosen, Product

LEMMA SolveStepStep == FollowInv /\ SolveStep => FollowInv'
BY DEF SolveStep, FollowInv, Builds, Fits, Chosen, Product

LEMMA SelectStep == FollowInv /\ Select => FollowInv'
<1> SUFFICES ASSUME FollowInv, Select PROVE FollowInv'
  OBVIOUS
<1> DEFINE n == ComputeSolutions(problem.steps)
           Returns(config, reachable) ==
               IF config = INVALID_CONFIG
               THEN /\ error' = "out_of_limits"
                    /\ answer' = [kind |-> "error", error |-> error']
                    /\ UNCHANGED <<lastValid, chosenOf>>
               ELSE /\ error' = IF reachable THEN "no_error" ELSE "not_reachable"
                    /\ answer' = [kind |-> "joints", config |-> config, of |-> n]
                    /\ lastValid' = config
                    /\ chosenOf' = IF lastValid = INVALID_CONFIG THEN n ELSE chosenOf
<1>1. n \in Nat
  BY IsLong, CountOfSolutions DEF FollowInv, Chosen
<1> HIDE DEF n
<1>2. /\ phase = "solving" /\ phase' = "ready"
      /\ UNCHANGED <<chain, search, problem>>
  BY DEF Select
<1>3. PICK within \in ValidSets(n) : \E valid \in Accepted(within) :
         \E config \in OptimalConfigurations(valid, n),
             reachable \in BOOLEAN : Returns(config, reachable)
  BY DEF Select, n
<1>4. PICK valid \in Accepted(within) :
         \E config \in OptimalConfigurations(valid, n),
             reachable \in BOOLEAN : Returns(config, reachable)
  BY <1>3
<1>5. PICK config \in OptimalConfigurations(valid, n),
          reachable \in BOOLEAN : Returns(config, reachable)
  BY <1>4
<1>6. error # "solution_not_found" /\ error' # "solution_not_found"
  BY <1>2, <1>5 DEF FollowInv, Chosen
<1>7. Builds' /\ Fits'
  BY <1>2, <1>6 DEF FollowInv, Builds, Fits, Product
<1>8. \A v \in valid : v \in Nat /\ 1 <= v /\ v <= n
  BY <1>1 DEF Accepted, ValidSets
<1>9. CASE config = INVALID_CONFIG
  <2>1. answer' = [kind |-> "error", error |-> error'] /\ UNCHANGED <<lastValid, chosenOf>>
    BY <1>5, <1>9
  <2>2. /\ phase' # "solving" /\ answer'.kind # "joints" /\ UNCHANGED problem.steps
    BY <1>2, <2>1
  <2>3. Chosen'
    BY <2>1, <2>2 DEF FollowInv, Chosen
  <2> QED BY <1>7, <2>3 DEF FollowInv
<1>10. CASE config # INVALID_CONFIG
  <2>1. /\ answer' = [kind |-> "joints", config |-> config, of |-> n]
        /\ lastValid' = config
        /\ chosenOf' = IF lastValid = INVALID_CONFIG THEN n ELSE chosenOf
    BY <1>5, <1>10
  <2>2. lastValid \in Nat /\ chosenOf \in Nat /\ lastValid <= chosenOf
            /\ IsSequence(problem.steps)
    BY DEF FollowInv, Chosen
  <2>3. \/ lastValid = INVALID_CONFIG /\ config \in valid
        \/ lastValid # INVALID_CONFIG /\ config = lastValid /\ (lastValid > n \/ config \in valid)
    BY <1>10 DEF OptimalConfigurations
  <2>4. config \in Nat /\ config <= chosenOf' /\ chosenOf' \in Nat
            /\ (config <= n \/ chosenOf' > n)
    BY <1>1, <1>8, <2>1, <2>2, <2>3 DEF INVALID_CONFIG
  <2>5. /\ lastValid' \in Nat /\ chosenOf' \in Nat /\ lastValid' <= chosenOf'
        /\ answer'.config <= answer'.of \/ chosenOf' > answer'.of
    BY <2>1, <2>4
  <2>6. phase' = "ready" /\ UNCHANGED problem.steps
    BY <1>2
  <2>7. Chosen'
    BY <1>6, <2>2, <2>5, <2>6 DEF Chosen
  <2> QED BY <1>7, <2>7 DEF FollowInv
<1> QED BY <1>9, <1>10

LEMMA CrashStep == FollowInv /\ SelectorCrash => FollowInv'
BY DEF SelectorCrash, FollowInv, Builds, Fits, Chosen, Product

LEMMA CloseStep == FollowInv /\ Close => FollowInv'
<1>1. IsSequence(<<>>)
  BY DEF IsSequence
<1> QED BY <1>1 DEF Close, FollowInv, Builds, Fits, Chosen, NoProblem, NoAnswer, INVALID_CONFIG

LEMMA FollowStep == FollowInv /\ [SolverNext]_solverVars => FollowInv'
<1>1. FollowInv /\ UNCHANGED solverVars => FollowInv'
  BY DEF solverVars, FollowInv, Builds, Fits, Chosen, Product
<1> QED
  BY <1>1, OpenStep, SearchStepStep, FoundStep, NotFoundStep, AppendLinkStep, RestoreStep,
      InvKinStep, SolveStepStep, SelectStep, CrashStep, CloseStep DEF SolverNext

(* The problem an answer solves is made from the chain as it is now: a     *)
(* search, an append or a restore leaves no problem of an older chain      *)
(* behind (KdlSolver).  The joints answered are one of its solutions       *)
(* unless the configuration was first chosen, for another tool, among more *)
(* solutions than there are now (ConfigurationSelector).                   *)
THEOREM AnswersFollowToolAlways == SolverSpec => []AnswersFollowTool
<1>1. FollowInv => AnswersFollowTool
  BY DEF FollowInv, Fits, Chosen, Product, AnswersFollowTool
<1> QED BY <1>1, FollowInit, FollowStep, PTL DEF SolverSpec

---------------------------------------------------------------------------
(* Trajectories: what is created is deleted once.                          *)

(* The trajectory segment owns the path and the profile that the           *)
(* trajectory points to; the three objects are of different kinds, and of  *)
(* the current age.                                                        *)
Shape ==
    /\ trajectory \in [waypoints : Nat, durationSet : BOOLEAN, configuredPath : BOOLEAN,
                       configuredVelocityProfile : BOOLEAN, velocityDrivenPath : BOOLEAN,
                           created : BOOLEAN,
                       path : {Null, New("path")}, velocityProfile : {Null, New("profile")},
                       currentTrajectory : {Null, New("trajectory")}]
    /\ DOMAIN heap = {"live", "age", "owned"}
    /\ heap = [live |-> heap.live, age |-> heap.age, owned |-> heap.owned]

(* A pointer is set exactly when its flag is, and what is created took over *)
(* a path and a profile.                                                   *)
Configured ==
    /\ trajectory.configuredPath <=> trajectory.path # Null
    /\ trajectory.configuredVelocityProfile <=> trajectory.velocityProfile # Null
    /\ trajectory.created => trajectory.configuredPath /\ trajectory.configuredVelocityProfile
    /\ heap.owned = IF trajectory.created THEN {trajectory.path, trajectory.velocityProfile}
           ELSE {}

OwnInv == Shape /\ Configured /\ OwnedOnce

LEMMA Different ==
    /\ New("path") # Null /\ New("profile") # Null /\ New("trajectory") # Null
    /\ New("path") # New("profile") /\ New("path") # New("trajectory")
    /\ New("profile") # New("trajectory")
BY DEF New, Null

LEMMA OwnInit == TrajectoryOff => OwnInv
BY DEF TrajectoryOff, DefaultTrajectory, OwnInv, Shape, Configured, OwnedOnce

LEMMA OwnStep == OwnInv /\ [TrajectoryNext]_trajectoryVars => OwnInv'
<1> SUFFICES ASSUME OwnInv, [TrajectoryNext]_trajectoryVars PROVE OwnInv'
  OBVIOUS
<1> USE DEF OwnInv
<1>1. CASE AddWaypoint
  BY <1>1 DEF AddWaypoint, Shape, Configured, OwnedOnce, New
<1>2. CASE SetDuration
  BY <1>2 DEF SetDuration, Shape, Configured, OwnedOnce, New
<1>3. CASE ConfigurePath
  <2>1. CASE UNCHANGED <<trajectory, heap>>
    BY <2>1 DEF Shape, Configured, OwnedOnce, New
  <2>2. CASE ~UNCHANGED <<trajectory, heap>>
    <3>1. /\ ~trajectory.configuredPath
          /\ trajectory' = [trajectory EXCEPT !.path = New("path"), !.configuredPath = TRUE,
                                              !.velocityDrivenPath = trajectory.waypoints = 1]
          /\ heap' = [heap EXCEPT !.live = @ \cup {New("path")}]
      BY <1>3, <2>2 DEF ConfigurePath
    <3>2. Shape'
      BY <3>1 DEF Shape, New
    <3>3. Configured' /\ OwnedOnce'
      BY <3>1, Different DEF Shape, Configured, OwnedOnce
    <3> QED
      BY <3>2, <3>3
  <2> QED
    BY <2>1, <2>2
<1>4. CASE ConfigureVelocityProfile
  <2>1. CASE UNCHANGED <<trajectory, heap>>
    BY <2>1 DEF Shape, Configured, OwnedOnce, New
  <2>2. CASE ~UNCHANGED <<trajectory, heap>>
    <3>1. /\ ~trajectory.configuredVelocityProfile
          /\ trajectory' = [trajectory EXCEPT !.velocityProfile = New("profile"),
                                              !.configuredVelocityProfile = TRUE]
          /\ heap' = [heap EXCEPT !.live = @ \cup {New("profile")}]
      BY <1>4, <2>2 DEF ConfigureVelocityProfile
    <3>2. Shape'
      BY <3>1 DEF Shape, New
    <3>3. Configured' /\ OwnedOnce'
      BY <3>1, Different DEF Shape, Configured, OwnedOnce
    <3> QED
      BY <3>2, <3>3
  <2> QED
    BY <2>1, <2>2
<1>5. CASE Create
  <2>1. CASE UNCHANGED <<trajectory, heap>>
    BY <2>1 DEF Shape, Configured, OwnedOnce, New
  <2>2. CASE ~UNCHANGED <<trajectory, heap>>
    <3>1. /\ ~trajectory.created /\ trajectory.configuredPath
          /\ trajectory.configuredVelocityProfile
          /\ trajectory' = [trajectory EXCEPT !.currentTrajectory = New("trajectory"), !.created
                 = TRUE]
          /\ heap' = [heap EXCEPT !.live = @ \cup {New("trajectory")},
                                  !.owned = {trajectory.path, trajectory.velocityProfile}]
      BY <1>5, <2>2 DEF Create
    <3>2. Shape'
      BY <3>1 DEF Shape, New
    <3>3. Configured' /\ OwnedOnce'
      BY <3>1, Different DEF Shape, Configured, OwnedOnce
    <3> QED
      BY <3>2, <3>3
  <2> QED
    BY <2>1, <2>2
<1>6. CASE Destroy
  BY <1>6, Different DEF Destroy, DefaultTrajectory, Shape, Configured, OwnedOnce, New
<1>7. CASE UNCHANGED trajectoryVars
  BY <1>7 DEF trajectoryVars, Shape, Configured, OwnedOnce, New
<1> QED
  BY <1>1, <1>2, <1>3, <1>4, <1>5, <1>6, <1>7 DEF TrajectoryNext

(* Whatever the number of waypoints and the order of the calls, nothing    *)
(* leaks and nothing is deleted twice.                                     *)
THEOREM TrajectoryOwnsOnce == TrajectorySpec => []OwnedOnce
<1>1. OwnInv => OwnedOnce
  BY DEF OwnInv
<1> QED
  BY OwnInit, OwnStep, <1>1, PTL DEF TrajectorySpec

---------------------------------------------------------------------------
(* The chains a solver is configured with, and the representations of      *)
(* each.                                                                   *)

(* Sequences put one after the other.                                      *)
LEMMA Flattened ==
  ASSUME NEW S, NEW n \in Nat, NEW seqs \in [1 .. n -> Seq(S)]
  PROVE  FlattenSeq(seqs) \in Seq(S)
<1>1. seqs \in Seq(Seq(S)) /\ Len(seqs) = n
  BY MakeSequence
<1>2. CASE n = 0
  <2>1. FlattenSeq(seqs) = seqs
    BY <1>1, <1>2 DEF FlattenSeq
  <2>2. seqs = <<>>
    BY <1>1, <1>2
  <2> QED BY <2>1, <2>2
<1>3. CASE n # 0
  <2> DEFINE step == [i \in 1 .. n |-> [s \in Seq(S) |-> IF i = 1 THEN seqs[1] ELSE s \o seqs[i]]]
             flatten == CHOOSE f : f = [i \in 1 .. n |-> IF i = 1 THEN seqs[i]
                 ELSE f[i - 1] \o seqs[i]]
  <2>1. \A i \in 1 .. n : seqs[i] \in Seq(S)
    OBVIOUS
  <2>2. ASSUME NEW i \in 1 .. n, NEW s \in Seq(S)
        PROVE  (IF i = 1 THEN seqs[1] ELSE s \o seqs[i]) \in Seq(S)
    <3>1. 1 \in 1 .. n
      BY <1>3
    <3>2. seqs[1] \in Seq(S) /\ seqs[i] \in Seq(S)
      BY <2>1, <3>1
    <3>3. s \o seqs[i] \in Seq(S)
      BY <3>2
    <3> QED BY <3>2, <3>3
  <2>3. step \in [1 .. n -> [Seq(S) -> Seq(S)]]
    BY <2>2
  <2>4. <<>> \in Seq(S)
    OBVIOUS
  <2>5. PICK g \in [0 .. n -> Seq(S)] : Unfolds(g, n, <<>>, step)
    <3> HIDE DEF step
    <3> QED BY <2>3, <2>4, Recursion
  <2>6. ASSUME NEW i \in 1 .. n
        PROVE  /\ g[i] = IF i = 1 THEN seqs[i] ELSE g[i - 1] \o seqs[i]
               /\ g[i] \in Seq(S)
    <3>1. i - 1 \in 0 .. n /\ i \in 0 .. n
      OBVIOUS
    <3>2. g[i - 1] \in Seq(S) /\ g[i] \in Seq(S)
      BY <3>1
    <3>3. step[i][g[i - 1]] = IF i = 1 THEN seqs[1] ELSE g[i - 1] \o seqs[i]
      BY <3>2
    <3>4. g[i] = step[i][g[i - 1]]
      BY <2>5 DEF Unfolds
    <3> QED BY <3>2, <3>3, <3>4
  <2> DEFINE h == [i \in 1 .. n |-> g[i]]
  <2>7. h = [i \in 1 .. n |-> IF i = 1 THEN seqs[i] ELSE h[i - 1] \o seqs[i]]
    <3>1. ASSUME NEW i \in 1 .. n PROVE h[i] = IF i = 1 THEN seqs[i] ELSE h[i - 1] \o seqs[i]
      <4>1. CASE i = 1
        BY <2>6, <4>1
      <4>2. CASE i # 1
        <5>1. i - 1 \in 1 .. n
          BY <4>2
        <5>2. h[i - 1] = g[i - 1] /\ h[i] = g[i]
          BY <5>1
        <5> QED BY <2>6, <4>2, <5>2
      <4> QED BY <4>1, <4>2
    <3> HIDE DEF h
    <3>2. h = [i \in 1 .. n |-> h[i]]
      BY DEF h
    <3> QED BY <3>1, <3>2
  <2>8. flatten = [i \in 1 .. n |-> IF i = 1 THEN seqs[i] ELSE flatten[i - 1] \o seqs[i]]
    BY <2>7
  <2> DEFINE T == {i \in 0 .. n : i = 0 \/ flatten[i] \in Seq(S)}
  <2>9. n \in T
    <3> HIDE DEF flatten
    <3>1. 0 \in T
      OBVIOUS
    <3>2. ASSUME NEW i \in 1 .. n, i - 1 \in T PROVE i \in T
      <4>1. flatten[i] = IF i = 1 THEN seqs[i] ELSE flatten[i - 1] \o seqs[i]
        BY <2>8
      <4>2. seqs[i] \in Seq(S) /\ (i = 1 \/ flatten[i - 1] \in Seq(S))
        BY <2>1, <3>2
      <4>3. CASE i = 1
        BY <4>1, <4>2, <4>3
      <4>4. CASE i # 1
        <5>1. flatten[i] = flatten[i - 1] \o seqs[i] /\ flatten[i - 1] \in Seq(S)
          BY <4>1, <4>2, <4>4
        <5>2. flatten[i] \in Seq(S)
          BY <4>2, <5>1
        <5> QED BY <5>2
      <4> QED BY <4>3, <4>4
    <3> HIDE DEF T
    <3>3. 0 .. n \subseteq T
      BY <3>1, <3>2, Interval
    <3> QED BY <3>3
  <2>10. FlattenSeq(seqs) = flatten[n]
    BY <1>1, <1>3 DEF FlattenSeq
  <2> QED BY <1>3, <2>9, <2>10
<1> QED BY <1>2, <1>3

(* A fixed segment of the configuration (fixed links of KdlSolver).        *)
LEMMA FixedType == ASSUME NEW F \in Rigid PROVE Fixed(F) \in Segments
BY DEF Fixed, Segment, Segments, FixedSegments

(* A link of the configuration: a rotation, then a rigid tip.              *)
LEMMA LinkType ==
  ASSUME NEW link \in Links
  PROVE  LinkSegments(link) \in Seq(Segments)
<1>1. CASE link.group = "link"
  <2> DEFINE A == Rotation(<<0, 0, 1>>, link.offset)
             B == Translate(<<link.a, 0, link.d>>)
             C == Rotation(<<1, 0, 0>>, link.alpha)
             D == Compose(Compose(A, B), C)
             s == Segment("rotation", <<0, 0, 1>>, Zero, D)
  <2>1. link.a \in Int /\ link.alpha \in Int /\ link.d \in Int /\ link.offset \in Int
    BY <1>1 DEF Links
  <2>2. <<0, 0, 1>> \in Units /\ <<1, 0, 0>> \in Units
    BY DEF Units
  <2>3. <<link.a, 0, link.d>> \in Vectors
    BY <2>1, VectorMake
  <2>4. A \in Rigid /\ B \in Rigid /\ C \in Rigid
    BY <2>1, <2>2, <2>3, RotationRigid, TranslateRigid
  <2>5. Compose(A, B) \in Rigid
    BY <2>4, ComposeRigid
  <2>6. D \in Rigid
    BY <2>4, <2>5, ComposeRigid
  <2>7. LinkSegments(link) = <<s>>
    BY <1>1 DEF LinkSegments, DH
  <2> HIDE DEF D
  <2>8. s \in Segments
    BY <2>2, <2>6, ZeroType DEF Segment, Segments, JointSegments
  <2> QED BY <2>7, <2>8
<1>2. CASE link.group = "xyzLink"
  <2> DEFINE s == Segment(link.kind, link.axis, Zero, Translate(link.xyz))
  <2>1. link.kind \in {"rotation", "translation"} /\ link.axis \in Units /\ link.xyz \in Vectors
    BY <1>2 DEF Links
  <2>2. Translate(link.xyz) \in Rigid
    BY <2>1, TranslateRigid
  <2>3. LinkSegments(link) = <<s>>
    BY <1>2 DEF LinkSegments
  <2>4. s \in Segments
    BY <2>1, <2>2, ZeroType DEF Segment, Segments, JointSegments
  <2> QED BY <2>3, <2>4
<1>3. CASE link.group # "link" /\ link.group # "xyzLink"
  BY <1>3 DEF LinkSegments
<1> QED BY <1>1, <1>2, <1>3

(* The chain of every configuration is one the lemmas above are about. *)
LEMMA ChainOfType == ASSUME NEW r \in Robots PROVE ChainOf(r) \in Seq(Segments)
<1> DEFINE n == Len(r.links)
           seqs == [i \in DOMAIN r.links |-> LinkSegments(r.links[i])]
<1>1. r.h0 \in Rigid /\ r.hn \in Rigid /\ r.links \in Seq(Links)
  BY RobotsAssumption
<1>2. n \in Nat /\ DOMAIN r.links = 1 .. n /\ \A i \in 1 .. n : r.links[i] \in Links
  BY <1>1
<1>3. seqs \in [1 .. n -> Seq(Segments)]
  BY <1>2, LinkType
<1> HIDE DEF seqs
<1>4. FlattenSeq(seqs) \in Seq(Segments)
  BY <1>2, <1>3, Flattened
<1>5. Fixed(r.h0) \in Segments /\ Fixed(r.hn) \in Segments
  BY <1>1, FixedType
<1>6. ChainOf(r) = <<Fixed(r.h0)>> \o FlattenSeq(seqs) \o <<Fixed(r.hn)>>
  BY DEF ChainOf, seqs
<1> QED BY <1>4, <1>5, <1>6

---------------------------------------------------------------------------
ChainInv == chain \in Seq(Segments) /\ originalChain \in Seq(Segments)

LEMMA ChainInit == SolverOff => ChainInv
BY DEF SolverOff, ChainInv

LEMMA ChainStep == ChainInv /\ [SolverNext]_solverVars => ChainInv'
<1> SUFFICES ASSUME ChainInv, [SolverNext]_solverVars PROVE ChainInv'
  OBVIOUS
<1>1. CASE Open
  <2>1. PICK r \in Robots : \/ UNCHANGED <<chain, originalChain>>
                            \/ chain' = ChainOf(r) /\ originalChain' \in {originalChain, chain'}
    BY <1>1 DEF Open
  <2> QED BY <2>1, ChainOfType DEF ChainInv
<1>2. CASE AppendLink
  <2>1. PICK tool \in Tools : chain' = Append(chain, Fixed(tool)) /\ UNCHANGED originalChain
    BY <1>2 DEF AppendLink
  <2>2. Fixed(tool) \in Segments
    BY ToolsAssumption, FixedType
  <2> QED BY <2>1, <2>2 DEF ChainInv
<1>3. CASE RestoreOriginalChain
  BY <1>3 DEF RestoreOriginalChain, ChainInv
<1>4. CASE Close
  BY <1>4 DEF Close, ChainInv
<1>5. CASE SearchStep \/ Found \/ NotFound \/ InvKin \/ SolveStep \/ Select \/ SelectorCrash
          \/ UNCHANGED solverVars
  BY <1>5 DEF SearchStep, Found, NotFound, InvKin, SolveStep, Select, SelectorCrash, solverVars, ChainInv
<1> QED BY <1>1, <1>2, <1>3, <1>4, <1>5 DEF SolverNext

(* The representations of a chain, for every joint position. *)
THEOREM EveryRepresentationAgrees ==
  ASSUME NEW segments \in Seq(Segments), NEW q \in [1 .. Len(FromChain(segments).exps) -> Int]
  PROVE  LET poe == FromChain(segments)
             n == Len(poe.exps)
             pose == Evaluate(poe, q)
             back == [i \in 1 .. n |-> -q[n + 1 - i]]
         IN  /\ MakeReverse(poe).exps = ReverseSelf(poe).exps
             /\ pose = ChainPose(segments, q)
             /\ Evaluate(ReverseSelf(poe), back) = Invert(pose)
             /\ ChainPose(ToChain(poe), q) = pose
             /\ \A m \in 0 .. n :
                   LET head == Poe(SubSeq(poe.exps, 1, m), Identity)
                       tail == Poe(SubSeq(poe.exps, m + 1, n), poe.transform)
                   IN  AppendPoe(head, tail, Identity) = poe
             /\ \A H \in Rigid : Evaluate(ChangeBaseFrame(poe, H), q) = Compose(H, pose)
<1> DEFINE poe == FromChain(segments)
<1>1. poe \in Poes
  BY FromChainType
<1>2. Evaluate(poe, q) = ChainPose(segments, q)
  BY ChainAgrees
<1> HIDE DEF poe
<1>3. q \in [1 .. Len(poe.exps) -> Int]
  BY DEF poe
<1>4. MakeReverse(poe).exps = ReverseSelf(poe).exps
  BY <1>1, ReverseMade
<1>5. LET n == Len(poe.exps) IN Evaluate(ReverseSelf(poe), [i \in 1 .. n |-> -q[n + 1 - i]])
          = Invert(Evaluate(poe, q))
  BY <1>1, <1>3, SelfReversed
<1>6. ChainPose(ToChain(poe), q) = Evaluate(poe, q)
  BY <1>1, <1>3, ToChainAgrees
<1>7. \A m \in 0 .. Len(poe.exps) :
         AppendPoe(Poe(SubSeq(poe.exps, 1, m), Identity),
                   Poe(SubSeq(poe.exps, m + 1, Len(poe.exps)), poe.transform), Identity) = poe
  BY <1>1, Joined
<1>8. \A H \in Rigid : Evaluate(ChangeBaseFrame(poe, H), q) = Compose(H, Evaluate(poe, q))
  BY <1>1, <1>3, BaseFrameChanged
<1> QED BY <1>2, <1>4, <1>5, <1>6, <1>7, <1>8 DEF poe

LEMMA PositionType == ASSUME NEW n \in Nat, NEW q \in Positions(n) PROVE q \in [1 .. n -> Int]
<1>1. CASE q \in [1 .. n -> {0, 1}]
  BY <1>1
<1>2. CASE q \in {[i \in 1 .. n |-> k * i] : k \in {-1, 2}}
  <2>1. PICK k \in {-1, 2} : q = [i \in 1 .. n |-> k * i]
    BY <1>2
  <2>2. \A i \in 1 .. n : k * i \in Int
    BY <2>1
  <2> QED BY <2>1, <2>2
<1> QED BY <1>1, <1>2 DEF Positions

LEMMA Represented == FollowInv /\ ChainInv => RepresentationsAgree
<1> SUFFICES ASSUME FollowInv, ChainInv, phase = "building", ~search.reversed
             PROVE  LET poe == search.poe
                        n == Len(poe.exps)
                        head == Poe(SubSeq(poe.exps, 1, n \div 2), Identity)
                        tail == Poe(SubSeq(poe.exps, n \div 2 + 1, n), poe.transform)
                    IN  /\ MakeReverse(poe).exps = ReverseSelf(poe).exps
                        /\ \A q \in Positions(n) :
                            LET pose == Evaluate(poe, q)
                                back == [i \in 1 .. n |-> -q[n + 1 - i]]
                            IN  /\ pose = ChainPose(chain, q)
                                /\ Evaluate(ReverseSelf(poe), back) = Invert(pose)
                                /\ ChainPose(ToChain(poe), q) = pose
                                /\ Evaluate(AppendPoe(head, tail, Identity), q) = pose
                                /\ \A H \in Tools : Evaluate(ChangeBaseFrame(poe, H), q)
                                       = Compose(H, pose)
  BY DEF RepresentationsAgree
<1> DEFINE poe == search.poe
           n == Len(poe.exps)
           m == n \div 2
           joined == AppendPoe(Poe(SubSeq(poe.exps, 1, m), Identity),
                               Poe(SubSeq(poe.exps, m + 1, n), poe.transform), Identity)
<1>1. poe = FromChain(chain) /\ chain \in Seq(Segments)
  BY DEF FollowInv, Builds, Product, ChainInv
<1> HIDE DEF poe
<1>2. poe \in Poes /\ n \in Nat
  BY <1>1, FromChainType, PoeType
<1>3. m \in 0 .. n
  <2> HIDE DEF n
  <2>1. n \in Nat
    BY <1>2
  <2>2. \A k \in Nat : k \div 2 \in 0 .. k
    OBVIOUS
  <2> QED BY <2>1, <2>2
<1>4. MakeReverse(poe).exps = ReverseSelf(poe).exps
  BY <1>2, ReverseMade
<1>5. ASSUME NEW q \in Positions(n)
      PROVE  /\ Evaluate(poe, q) = ChainPose(chain, q)
             /\ Evaluate(ReverseSelf(poe), [i \in 1 .. n |-> -q[n + 1 - i]])
                    = Invert(Evaluate(poe, q))
             /\ ChainPose(ToChain(poe), q) = Evaluate(poe, q)
             /\ \A H \in Tools : Evaluate(ChangeBaseFrame(poe, H), q)
                    = Compose(H, Evaluate(poe, q))
  <2>1. q \in [1 .. n -> Int]
    BY <1>2, PositionType
  <2>2. Evaluate(poe, q) = ChainPose(chain, q)
    BY <1>1, <2>1, ChainAgrees
  <2>3. Evaluate(ReverseSelf(poe), [i \in 1 .. n |-> -q[n + 1 - i]]) = Invert(Evaluate(poe, q))
    BY <1>2, <2>1, SelfReversed
  <2>4. ChainPose(ToChain(poe), q) = Evaluate(poe, q)
    BY <1>2, <2>1, ToChainAgrees
  <2>5. \A H \in Tools : Evaluate(ChangeBaseFrame(poe, H), q) = Compose(H, Evaluate(poe, q))
    <3> TAKE H \in Tools
    <3>1. H \in Rigid
      BY ToolsAssumption
    <3> QED BY <1>2, <2>1, <3>1, BaseFrameChanged
  <2> QED BY <2>2, <2>3, <2>4, <2>5
<1>6. joined = poe
  BY <1>2, <1>3, Joined
<1> QED BY <1>4, <1>5, <1>6 DEF poe

(* Whatever robot was configured and whatever was appended and restored    *)
(* since, the chain, the product made from it, its reverse, the chain read *)
(* from the product, the cut product joined again and the product seen     *)
(* from another base put the tool in the same place, at every joint        *)
(* position tried.                                                         *)
THEOREM RepresentationsAlwaysAgree == SolverSpec => []RepresentationsAgree
<1>1. SolverOff => FollowInv /\ ChainInv
  BY FollowInit, ChainInit
<1>2. FollowInv /\ ChainInv /\ [SolverNext]_solverVars => (FollowInv /\ ChainInv)'
  BY FollowStep, ChainStep
<1> QED BY <1>1, <1>2, Represented, PTL DEF SolverSpec
===============================================================================
