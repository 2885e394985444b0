---------------------------- MODULE ScrewTheory ----------------------------
(***************************************************************************)
(* Products of exponentials (ScrewTheoryLib): the exponential of a joint,  *)
(* the product that gives the pose of the tool, its reversal and its       *)
(* conversion from and to a chain of segments.                             *)
(*                                                                         *)
(* Coordinates are integers and every axis is parallel to an axis of the   *)
(* base: a rotation is counted in quarter turns, a translation in units of *)
(* length, so that every product is exact.                                 *)
(***************************************************************************)
EXTENDS Integers, Sequences

---------------------------------------------------------------------------
(* Vectors and frames (KDL). *)

Vectors == Int \X Int \X Int
Zero == <<0, 0, 0>>

Plus(u, v)  == <<u[1] + v[1], u[2] + v[2], u[3] + v[3]>>
Minus(u, v) == <<u[1] - v[1], u[2] - v[2], u[3] - v[3]>>
Times(k, v) == <<k * v[1], k * v[2], k * v[3]>>
Dot(u, v)   == u[1] * v[1] + u[2] * v[2] + u[3] * v[3]
Cross(u, v) == <<u[2] * v[3] - u[3] * v[2], u[3] * v[1] - u[1] * v[3], u[1] * v[2] - u[2] * v[1]>>

(* The directions of the axes of the base, both ways. *)
Units == {<<1, 0, 0>>, <<0, 1, 0>>, <<0, 0, 1>>, <<-1, 0, 0>>, <<0, -1, 0>>, <<0, 0, -1>>}

(* A frame is the image of the unit vectors and of the origin. *)
FrameOf(x, y, z, p) == [x |-> x, y |-> y, z |-> z, p |-> p]
Translate(p) == FrameOf(<<1, 0, 0>>, <<0, 1, 0>>, <<0, 0, 1>>, p)
Identity     == Translate(Zero)

(* Of all frames, those a body can be moved to: right-handed axes. *)
Frames == [x : Vectors, y : Vectors, z : Vectors, p : Vectors]
Rigid  == {F \in Frames : F.x \in Units /\ F.y \in Units /\ Dot(F.x, F.y) = 0 /\ F.z = Cross(F.x, F.y)}

Turn(F, v)    == Plus(Plus(Times(v[1], F.x), Times(v[2], F.y)), Times(v[3], F.z))
Move(F, v)    == Plus(Turn(F, v), F.p)
Compose(F, G) == FrameOf(Turn(F, G.x), Turn(F, G.y), Turn(F, G.z), Move(F, G.p))

(* The rotation of a frame is orthonormal: its inverse is its transpose. *)
TurnBack(F, v) == <<Dot(F.x, v), Dot(F.y, v), Dot(F.z, v)>>
Invert(F) == FrameOf(TurnBack(F, <<1, 0, 0>>), TurnBack(F, <<0, 1, 0>>), TurnBack(F, <<0, 0, 1>>),
                     Times(-1, TurnBack(F, F.p)))

(* Of a number of quarter turns. *)
Sin(k) == <<0, 1, 0, -1>>[(k % 4) + 1]
Cos(k) == <<1, 0, -1, 0>>[(k % 4) + 1]

(* v after k quarter turns about a unit axis. *)
Rotate(axis, k, v) ==
    Plus(Plus(Times(Cos(k), v), Times(Sin(k), Cross(axis, v))), Times((1 - Cos(k)) * Dot(axis, v), axis))

Rotation(axis, k) ==
    FrameOf(Rotate(axis, k, <<1, 0, 0>>), Rotate(axis, k, <<0, 1, 0>>), Rotate(axis, k, <<0, 0, 1>>), Zero)

---------------------------------------------------------------------------
(* Matrix exponentials. *)

Exponential(kind, axis, origin) == [kind |-> kind, axis |-> axis, origin |-> origin]

(* The motion of one joint. *)
AsFrame(exp, theta) ==
    IF exp.kind = "rotation"
    THEN LET R == Rotation(exp.axis, theta)
             o == Cross(Cross(exp.axis, exp.origin), exp.axis)
         IN  [R EXCEPT !.p = Minus(o, Turn(R, o))]
    ELSE Translate(Times(theta, exp.axis))

(* Mutant: the axis is turned, its origin stays. *)
ChangeBaseAxisOnly(exp, H) == [exp EXCEPT !.axis = Turn(H, @)]

(* The origin of a translation means nothing and stays as it was. *)
ChangeBase(exp, H) ==
    [exp EXCEPT !.axis = Turn(H, @), !.origin = IF exp.kind = "rotation" THEN Move(H, @) ELSE @]

---------------------------------------------------------------------------
(* Products of exponentials: the joints from base to tool, and the pose of *)
(* the tool when every joint is at zero.                                   *)

Poe(exps, transform) == [exps |-> exps, transform |-> transform]

Evaluate(poe, q) ==
    LET H[i \in 0 .. Len(poe.exps)] ==
            IF i = 0 THEN Identity ELSE Compose(H[i - 1], AsFrame(poe.exps[i], q[i]))
    IN  Compose(H[Len(poe.exps)], poe.transform)

(* The joints of another product, placed after these. *)
AppendPoe(poe, other, H) ==
    Poe(poe.exps \o [i \in DOMAIN other.exps |-> ChangeBase(other.exps[i], H)], Compose(H, other.transform))

ChangeBaseFrame(poe, H) ==
    Poe([i \in DOMAIN poe.exps |-> ChangeBase(poe.exps[i], H)], Compose(H, poe.transform))

(* The same product seen from the tool. *)
ReverseSelf(poe) ==
    LET H == Invert(poe.transform)
        n == Len(poe.exps)
    IN  Poe([i \in 1 .. n |-> ChangeBase(poe.exps[n + 1 - i], H)], H)

MakeReverse(poe) ==
    LET H == Invert(poe.transform)
        moved == [i \in DOMAIN poe.exps |-> ChangeBase(poe.exps[i], H)]
    IN  Poe([i \in DOMAIN moved |-> moved[Len(moved) + 1 - i]], H)

---------------------------------------------------------------------------
(* Chains of segments: the joint at the start of the segment and the frame *)
(* of its end when the joint is at zero.                                   *)

Segment(kind, axis, origin, tip) == [kind |-> kind, axis |-> axis, origin |-> origin, tip |-> tip]
Fixed(tip) == Segment("none", Zero, Zero, tip)

(* Segment::pose: the joint turns about, or slides from, its own origin. *)
SegmentPose(s, q) ==
    CASE s.kind = "rotation" ->
            Compose(Compose([Rotation(s.axis, q) EXCEPT !.p = s.origin], Translate(Times(-1, s.origin))), s.tip)
      [] s.kind = "translation" -> Compose(Translate(Times(q, s.axis)), s.tip)
      [] OTHER -> s.tip

(* The pose of the end of the chain, the recursive solver's answer. *)
ChainPose(chain, q) ==
    LET joint[i \in 0 .. Len(chain)] ==
            IF i = 0 THEN 0 ELSE joint[i - 1] + (IF chain[i].kind = "none" THEN 0 ELSE 1)
        H[i \in 0 .. Len(chain)] ==
            IF i = 0 THEN Identity
            ELSE Compose(H[i - 1], SegmentPose(chain[i], IF chain[i].kind = "none" THEN 0 ELSE q[joint[i]]))
    IN  H[Len(chain)]

(* Every joint of the chain, its axis and origin seen from the base when  *)
(* the joints before it are at zero.                                       *)
FromChain(chain) ==
    LET H[i \in 0 .. Len(chain)] == IF i = 0 THEN Identity ELSE Compose(H[i - 1], SegmentPose(chain[i], 0))
        exp(i) == Exponential(chain[i].kind, Turn(H[i - 1], chain[i].axis), Move(H[i - 1], chain[i].origin))
        exps[i \in 0 .. Len(chain)] ==
            IF i = 0 THEN <<>>
            ELSE IF chain[i].kind = "none" THEN exps[i - 1] ELSE Append(exps[i - 1], exp(i))
    IN  Poe(exps[Len(chain)], H[Len(chain)])

(* Only the position of a joint is carried to the next: every segment      *)
(* keeps the orientation of the base, and the last one adds the tool.      *)
ToChain(poe) ==
    LET n == Len(poe.exps)
        before(i) == IF i = 1 THEN Zero ELSE poe.exps[i - 1].origin
        local(i)  == Minus(poe.exps[i].origin, before(i))
    IN  Append([i \in 1 .. n |-> Segment(poe.exps[i].kind, poe.exps[i].axis, local(i), Translate(local(i)))],
               Fixed(Compose(Translate(Times(-1, before(n + 1))), poe.transform)))
=============================================================================
