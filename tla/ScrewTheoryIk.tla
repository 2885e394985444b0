--------------------------- MODULE ScrewTheoryIk ---------------------------
(***************************************************************************)
(* The closed-form inverse kinematics of ScrewTheoryLib: the builder that  *)
(* splits a product of exponentials into geometric subproblems, and the    *)
(* problem that solves them one after the other.                           *)
(*                                                                         *)
(* The numbers the subproblems compute are left out.  What is kept is which*)
(* equation each of them is given: the joints whose exponential is known,  *)
(* those moved to the right-hand side, and the points that stand for the   *)
(* ones that are not known yet.                                            *)
(***************************************************************************)
EXTENDS ScrewTheory, FiniteSetsExt, SequencesExt

Joints(poe) == 1 .. Len(poe.exps)

Turns(e)  == e.kind = "rotation"
Slides(e) == e.kind = "translation"

(* The relations between axes. *)
LiesOnAxis(e, p)        == Cross(Minus(p, e.origin), e.axis) = Zero
ParallelAxes(e, f)      == Cross(e.axis, f.axis) = Zero
PerpendicularAxes(e, f) == Dot(e.axis, f.axis) = 0
ColinearAxes(e, f)      == ParallelAxes(e, f) /\ LiesOnAxis(e, f.origin)

(* The point of the axis of e nearest to that of f, when not parallel: the *)
(* axes are perpendicular unit vectors, so the divisor is one.             *)
NearestPoint(e, f) ==
    Plus(e.origin, Times(Dot(Cross(e.axis, f.axis), Cross(Minus(f.origin, e.origin), f.axis)), e.axis))

IntersectingAxes(e, f) == NearestPoint(e, f) = NearestPoint(f, e)

PlanarMovement(e, f)      == IF e.kind = f.kind THEN ParallelAxes(e, f) ELSE PerpendicularAxes(e, f)
NormalPlaneMovement(e, f) == IF e.kind = f.kind THEN PerpendicularAxes(e, f) ELSE ParallelAxes(e, f)

Before(p, q) ==
    \/ p[1] < q[1]
    \/ p[1] = q[1] /\ p[2] < q[2]
    \/ p[1] = q[1] /\ p[2] = q[2] /\ p[3] < q[3]

(* The characteristic points, sorted: the origin, a point of every         *)
(* rotation axis, the intersections, one more point of every axis, drawn   *)
(* until it is a new one, and the tool.  The first joint is no partner.    *)
(* What is drawn is on either side of the origin of the axis: draw says    *)
(* where, the first multiple of it that is a new point.                    *)
SearchPoints(poe, draw) ==
    LET E == poe.exps
        R == {i \in Joints(poe) : Turns(E[i])}
        crossing == {ij \in R \X (R \ {1}) :
                        ~ParallelAxes(E[ij[1]], E[ij[2]]) /\ IntersectingAxes(E[ij[1]], E[ij[2]])}
        found == {Zero} \cup {E[i].origin : i \in R} \cup {NearestPoint(E[ij[1]], E[ij[2]]) : ij \in crossing}
        drawn(i, S) == LET factor == IF i \in DOMAIN draw THEN draw[i] ELSE 1
                           at(f) == Plus(E[i].origin, Times(f * factor, E[i].axis))
                       IN  at(CHOOSE f \in 1 .. Cardinality(S) + 1 : at(f) \notin S /\ \A g \in 1 .. f - 1 : at(g) \in S)
        more[i \in 0 .. Len(E)] ==
            IF i = 0 THEN found
            ELSE IF i \in R THEN more[i - 1] \cup {drawn(i, more[i - 1])} ELSE more[i - 1]
        points == more[Len(E)] \cup {poe.transform.p}
    IN  [n \in 1 .. Cardinality(points) |->
            CHOOSE p \in points : Cardinality({q \in points : Before(q, p)}) = n - 1]

---------------------------------------------------------------------------
(* The builder.  A search keeps the known joints, the subproblems found,   *)
(* the points and, for each of two stages, which point is tried and which  *)
(* test point that leaves.                                                 *)

MaxDepth == 2

SearchFrom(poe, reversed, draw) ==
    LET points == SearchPoints(poe, draw)
    IN  [poe |-> poe, reversed |-> reversed, points |-> points, known |-> {}, steps |-> <<>>,
         depth |-> 0, at |-> <<1, 1>>, test |-> <<points[1], points[1]>>]

Unknown(b) == Joints(b.poe) \ b.known

(* Known joints at either end can be moved to the right-hand side. *)
RefreshSimplificationState(b) ==
    {i \in b.known : 1 .. i \subseteq b.known \/ i .. Len(b.poe.exps) \subseteq b.known}

(* The last unknown joint, and those before it, leave a point of their     *)
(* axes where it is.                                                       *)
SimplifyWithPadenKahanOne(b, p) ==
    LET last == Max(Unknown(b))
        Fixes(i) == Turns(b.poe.exps[i]) /\ LiesOnAxis(b.poe.exps[i], p)
    IN  {i \in 1 .. last : \A j \in i .. last : Fixes(j)}

(* So do the first unknown joint and those after it. *)
SimplifyWithPadenKahanThree(b, p) ==
    LET first == Min(Unknown(b))
        Fixes(i) == Turns(b.poe.exps[i]) /\ LiesOnAxis(b.poe.exps[i], p)
    IN  {i \in first .. Len(b.poe.exps) : \A j \in first .. i : Fixes(j)}

(* A translation at one end, with the other joints in a plane normal to    *)
(* it, can be told apart from them.                                        *)
SimplifyWithPardosOne(b, simplified) ==
    LET E == b.poe.exps
        left  == Unknown(b) \ simplified
        first == Min(left)
        last  == Max(left)
        planar(i, j) == \A k \in i .. j - 1 : PlanarMovement(E[k], E[k + 1])
    IN  IF Cardinality(left) < 2 THEN {}
        ELSE IF Slides(E[first])
        THEN IF planar(first + 1, last) /\ NormalPlaneMovement(E[first], E[first + 1])
             THEN first + 1 .. last ELSE {}
        ELSE IF Slides(E[last]) /\ planar(first, last - 1) /\ NormalPlaneMovement(E[last - 1], E[last])
             THEN first .. last - 1 ELSE {}

Simplify(b) ==
    LET ends  == RefreshSimplificationState(b)
        right == ends \cup SimplifyWithPadenKahanOne(b, b.test[1])
    IN  IF b.depth = 1
        THEN right \cup SimplifyWithPadenKahanThree(b, b.test[2])
        ELSE IF \E i \in Joints(b.poe) : Slides(b.poe.exps[i])
        THEN right \cup SimplifyWithPardosOne(b, right)
        ELSE right

Subproblem(kind, ids, points) == [kind |-> kind, ids |-> ids, points |-> points]

(* The subproblems the joints that are left admit, one at most. *)
TrySolve(b, simplified) ==
    LET E == b.poe.exps
        left == Unknown(b) \ simplified
        last == Max(left)
        e    == E[last]
        prev == E[last - 1]
        p    == b.test[1]
        k    == b.test[2]
        pair == <<last - 1, last>>
    IN  IF Cardinality(left) = 1
        THEN IF b.depth = 0
             THEN IF Turns(e)
                  THEN IF LiesOnAxis(e, p) THEN {} ELSE {Subproblem("PadenKahanOne", <<last>>, <<p>>)}
                  ELSE {Subproblem("PardosGotorOne", <<last>>, <<p>>)}
             ELSE IF b.known \ simplified # {} THEN {}
                  ELSE IF Turns(e)
                  THEN IF LiesOnAxis(e, p) \/ LiesOnAxis(e, k) THEN {}
                       ELSE {Subproblem("PadenKahanThree", <<last>>, <<p, k>>)}
                  ELSE {Subproblem("PardosGotorThree", <<last>>, <<p, k>>)}
        ELSE IF Cardinality(left) # 2 \/ last - 1 \notin left \/ b.depth # 0 \/ e.kind # prev.kind THEN {}
        ELSE IF Slides(e)
        THEN IF ParallelAxes(e, prev) THEN {} ELSE {Subproblem("PardosGotorTwo", pair, <<p>>)}
        ELSE IF ParallelAxes(e, prev)
        THEN IF ColinearAxes(e, prev) THEN {} ELSE {Subproblem("PardosGotorFour", pair, <<p>>)}
        ELSE IF IntersectingAxes(e, prev) THEN {Subproblem("PadenKahanTwo", pair, <<p>>)} ELSE {}

(* A subproblem found: its joints are known and the points are tried again *)
(* from the first; the second test point stays as it was.                  *)
TakeStep(b, s) ==
    [b EXCEPT !.known = @ \cup ToSet(s.ids), !.steps = Append(@, s),
              !.at = <<1, 1>>, !.test[1] = b.points[1], !.depth = 0]

(* The next point of the first stage, or the first one again and, at depth *)
(* one, the next point of the second; past the last, one stage deeper.     *)
NextPoint(b) ==
    LET n == Len(b.points)
        first  == IF b.at[1] < n THEN b.at[1] + 1 ELSE 1
        second == IF b.at[2] < n THEN b.at[2] + 1 ELSE 1
        b1 == [b EXCEPT !.at[1] = first, !.test[1] = b.points[first]]
        b2 == [b1 EXCEPT !.at[2] = second, !.test[2] = b.points[second]]
    IN  IF first # 1 THEN b1
        ELSE IF b.depth = 0 THEN [b1 EXCEPT !.depth = 1]
        ELSE IF second = 1 THEN [b2 EXCEPT !.depth = 2] ELSE b2

(* One turn of the search. *)
SearchSolutions(b) ==
    LET found == TrySolve(b, Simplify(b))
    IN  IF found = {} THEN NextPoint(b) ELSE TakeStep(b, CHOOSE s \in found : TRUE)

Searching(b) == b.depth < MaxDepth /\ Unknown(b) # {}
Solved(b)    == Unknown(b) = {}

---------------------------------------------------------------------------
(* The problem.  Each exponential is unknown, known, or computed: moved to *)
(* the right-hand side.                                                    *)

(* How many solutions a subproblem yields for each one it starts from: the *)
(* double roots and the unreachable cases repeat theirs.                   *)
SolutionsOf(kind) == IF kind \in {"PadenKahanOne", "PardosGotorOne", "PardosGotorTwo"} THEN 1 ELSE 2

ComputeSolutions(steps) ==
    LET product[i \in 0 .. Len(steps)] ==
            IF i = 0 THEN 1 ELSE product[i - 1] * SolutionsOf(steps[i].kind)
    IN  IF steps = <<>> THEN 0 ELSE product[Len(steps)]

(* Mutant: the right-hand side is never recalculated. *)
RecalculateNothing(terms) == terms

(* The known terms at the start are moved; at the end only the last one    *)
(* is, the index of the loop having left its range.                        *)
RecalculateFrames(terms) ==
    LET n == Len(terms)
        pre == [i \in 1 .. n |-> IF \A j \in 1 .. i : terms[j] # "unknown" THEN "computed" ELSE terms[i]]
    IN  IF pre[n] = "known" THEN [pre EXCEPT ![n] = "computed"] ELSE pre

(* The known terms applied to the point before the unknown ones: the       *)
(* rightmost run of them.                                                  *)
TransformPoint(terms) ==
    LET Stops(i, j) ==   \* j is where the scan from the right stops when i is applied
            \/ terms[j] = "unknown"  /\ \E k \in j + 1 .. Len(terms) : terms[k] = "known"
            \/ terms[j] = "computed" /\ \E k \in j + 1 .. Len(terms) : terms[k] # "computed"
    IN  {i \in DOMAIN terms : terms[i] = "known" /\ \A j \in i + 1 .. Len(terms) : ~Stops(i, j)}

Learn(terms, s) == [i \in DOMAIN terms |-> IF i \in ToSet(s.ids) THEN "known" ELSE terms[i]]

---------------------------------------------------------------------------
(* What the equation of a subproblem takes for granted. *)

Fixes(e, p)      == Turns(e) /\ LiesOnAxis(e, p)
KeepsAlong(e, a) == IF Turns(e) THEN Cross(e.axis, a) = Zero ELSE Dot(e.axis, a) = 0

(* The equation holds of the joints it is about: every other term still on *)
(* the left-hand side either is applied to the point, or leaves the point  *)
(* where it is, or moves it in a way the subproblem does not see.          *)
EquationHolds(poe, terms, s) ==
    LET E  == poe.exps
        on == {i \in DOMAIN terms : terms[i] # "computed"} \ ToSet(s.ids)
        left  == {i \in on : i < s.ids[1]}
        right == {i \in on : i > s.ids[1]}
        applied == TransformPoint(terms) \ ToSet(s.ids)
        Reached(i) ==   \* the point as i finds it has not been moved
            \A j \in applied : j > i => Fixes(E[j], s.points[1])
        Accounted(i) == i \in applied \/ (Fixes(E[i], s.points[1]) /\ Reached(i))
        a == E[s.ids[1]].axis
    IN  CASE s.kind \in {"PadenKahanThree", "PardosGotorThree"} ->
                /\ applied \subseteq right
                /\ \A i \in right : Accounted(i)
                /\ \A i \in left : Fixes(E[i], s.points[2])
          [] s.kind = "PardosGotorOne" ->
                \/ applied \subseteq right /\ left = {} /\ \A i \in right : Accounted(i)
                \/ \A i \in on : KeepsAlong(E[i], a) \/ (i \in right /\ Accounted(i))
          [] OTHER ->
                /\ applied \subseteq right
                /\ left = {}
                /\ \A i \in right : Accounted(i)
=============================================================================
