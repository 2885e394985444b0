------------------------------ MODULE KdlSolver ------------------------------
(***************************************************************************)
(* The solver of serial robots (KdlSolver) with the closed-form inverse    *)
(* kinematics ("ik st"): the chain read from the configuration, the tool   *)
(* appended to it, the problem built for each chain, and the choice of one *)
(* of its solutions, which is kept from one call to the next.              *)
(*                                                                         *)
(* The mutex of the solver is held by every operation from beginning to    *)
(* end, so one operation is in progress at a time; the search for a        *)
(* problem and its solution are taken apart in steps.                      *)
(***************************************************************************)
EXTENDS ScrewTheoryIk

CONSTANTS Robots,      \* the configurations: [h0, links, hn, limits, strategy]
          Tools,       \* the frames that may be appended
          Draws,       \* where the random points of the axes fall, joint by joint
          MaxTools     \* bound: how many at a time

(* A link as it is configured: what its group gives, or no such group. *)
Links == [group : {"link"}, a : Int, alpha : Int, d : Int, offset : Int]
            \cup [group : {"xyzLink"}, kind : {"rotation", "translation"}, axis : Units, xyz : Vectors]
            \cup [group : {"missing", "unrecognized"}]

(* Angles are quarter turns and axes those of the base; the matrices that  *)
(* are configured, of the base, the tip and the tools, are of motions.     *)
ASSUME RobotsAssumption == \A r \in Robots : r.h0 \in Rigid /\ r.hn \in Rigid /\ r.links \in Seq(Links)
ASSUME ToolsAssumption  == Tools \subseteq Rigid
ASSUME DrawsAssumption  == Draws \subseteq Seq(Int \ {0})

VARIABLES phase,       \* closed, building, ready, solving, failed: open returned false, or crashed
          robot,       \* the configuration in use
          chain, originalChain,
          search,      \* the builder at work
          problem,     \* the problem in force
          error,       \* what the inverse kinematics last reported
          lastValid,   \* the solution chosen first, kept ever after
          job,         \* the call being solved: the state of each term, the step, who is to be told
          answer,      \* what the last call returned
          chosenOf     \* history: how many solutions lastValid was chosen from

solverVars == <<phase, robot, chain, originalChain, search, problem, error, lastValid, job, answer, chosenOf>>

NoSearch   == [poe |-> Poe(<<>>, Identity)]
NoProblem  == [poe |-> Poe(<<>>, Identity), steps |-> <<>>, reversed |-> FALSE]
NoJob      == [terms |-> <<>>, step |-> 0]
NoAnswer   == [kind |-> "none"]
INVALID_CONFIG == 0

---------------------------------------------------------------------------
(* The chain of a configuration. *)

(* Denavit-Hartenberg: about and along z, then along and about x. *)
DH(a, alpha, d, offset) ==
    Compose(Compose(Rotation(<<0, 0, 1>>, offset), Translate(<<a, 0, d>>)), Rotation(<<1, 0, 0>>, alpha))

(* A link is given by DH parameters, or by the type of its joint and the   *)
(* coordinates of the next; of a type that is not known nothing is added.  *)
LinkSegments(link) ==
    CASE link.group = "link"    -> <<Segment("rotation", <<0, 0, 1>>, Zero, DH(link.a, link.alpha, link.d, link.offset))>>
      [] link.group = "xyzLink" -> <<Segment(link.kind, link.axis, Zero, Translate(link.xyz))>>
      [] OTHER                  -> <<>>

ChainOf(r) == <<Fixed(r.h0)>> \o FlattenSeq([i \in DOMAIN r.links |-> LinkSegments(r.links[i])]) \o <<Fixed(r.hn)>>

---------------------------------------------------------------------------
(* The problem for a chain. *)

Build(c) ==
    \E draw \in Draws :
        search' = SearchFrom(FromChain(c), FALSE, draw) /\ phase' = "building"

Strategies == {"leastOverallAngularDisplacement", "humanoidGait"}

(* Open stops at a link that is missing; the joint limits and the strategy *)
(* are looked at once the chain is complete.                               *)
Open ==
    \E r \in Robots :
        /\ phase = "closed"
        /\ robot' = r
        /\ \/ /\ \E i \in DOMAIN r.links : r.links[i].group = "missing"
              /\ phase' = "failed" /\ UNCHANGED <<chain, originalChain, search>>
           \/ /\ \A i \in DOMAIN r.links : r.links[i].group # "missing"
              /\ chain' = ChainOf(r)
              /\ IF r.limits /\ r.strategy \in Strategies
                 THEN originalChain' = chain' /\ Build(chain')
                 ELSE phase' = "failed" /\ UNCHANGED <<originalChain, search>>
        /\ UNCHANGED <<problem, error, lastValid, job, answer, chosenOf>>

(* One turn of the search, or the same search on the reversed robot. *)
SearchStep ==
    /\ phase = "building"
    /\ \/ Searching(search) /\ search' = SearchSolutions(search)
       \/ ~Searching(search) /\ ~Solved(search) /\ ~search.reversed
          /\ \E draw \in Draws : search' = SearchFrom(ReverseSelf(search.poe), TRUE, draw)
    /\ UNCHANGED <<phase, robot, chain, originalChain, problem, error, lastValid, job, answer, chosenOf>>

Found ==
    /\ phase = "building" /\ Solved(search)
    /\ problem' = [poe |-> search.poe, steps |-> search.steps, reversed |-> search.reversed]
    /\ phase' = "ready" /\ search' = NoSearch
    /\ UNCHANGED <<robot, chain, originalChain, error, lastValid, job, answer, chosenOf>>

(* Mutant: a chain without a problem leaves the old one in use. *)
NotFoundKeepsSolving ==
    /\ phase = "building" /\ ~Searching(search) /\ ~Solved(search) /\ search.reversed
    /\ phase' = (IF problem = NoProblem THEN "failed" ELSE "ready")
    /\ search' = NoSearch
    /\ UNCHANGED <<robot, chain, originalChain, problem, error, lastValid, job, answer, chosenOf>>

(* No problem: open fails; a solver in use keeps the old one and refuses.  *)
NotFound ==
    /\ phase = "building" /\ ~Searching(search) /\ ~Solved(search) /\ search.reversed
    /\ IF problem = NoProblem
       THEN phase' = "failed" /\ UNCHANGED error
       ELSE phase' = "ready" /\ error' = "solution_not_found"
    /\ search' = NoSearch
    /\ UNCHANGED <<robot, chain, originalChain, problem, lastValid, job, answer, chosenOf>>

AppendLink ==
    \E tool \in Tools :
        /\ phase = "ready" /\ Len(chain) < Len(originalChain) + MaxTools
        /\ chain' = Append(chain, Fixed(tool))
        /\ Build(chain')
        /\ answer' = [kind |-> "done"]
        /\ UNCHANGED <<robot, originalChain, problem, error, lastValid, job, chosenOf>>

RestoreOriginalChain ==
    /\ phase = "ready" /\ chain # originalChain
    /\ chain' = originalChain
    /\ Build(chain')
    /\ answer' = [kind |-> "done"]
    /\ UNCHANGED <<robot, originalChain, problem, error, lastValid, job, chosenOf>>

---------------------------------------------------------------------------
(* The calls. *)

(* A target is in the frame of the base or of the tool. *)
InvKin ==
    \E frame \in {"BASE_FRAME", "TCP_FRAME", "other"} :
        /\ phase = "ready"
        /\ CASE frame = "other" ->
                    answer' = [kind |-> "refused"] /\ UNCHANGED <<phase, job>>
             [] frame # "other" /\ error = "solution_not_found" ->
                    answer' = [kind |-> "error", error |-> error] /\ UNCHANGED <<phase, job>>
             [] OTHER ->
                    /\ answer' = NoAnswer /\ phase' = "solving"
                    /\ job' = [terms |-> [i \in Joints(problem.poe) |-> "unknown"], step |-> 1]
        /\ UNCHANGED <<robot, chain, originalChain, search, problem, error, lastValid, chosenOf>>

(* One subproblem, for each solution of those before it. *)
SolveStep ==
    /\ phase = "solving" /\ job.step <= Len(problem.steps)
    /\ LET learnt == Learn(job.terms, problem.steps[job.step])
       IN  job' = [terms |-> IF job.step < Len(problem.steps) THEN RecalculateFrames(learnt) ELSE learnt,
                   step |-> job.step + 1]
    /\ UNCHANGED <<phase, robot, chain, originalChain, search, problem, error, lastValid, answer, chosenOf>>

(* Which solutions are within limits: bounded to the first and the last.   *)
ValidSets(n) == SUBSET {i \in {1, n} : 1 <= i /\ i <= n}

(* The gait selector rejects more. *)
Accepted(valid) ==
    IF robot.strategy = "leastOverallAngularDisplacement" THEN {valid} ELSE SUBSET valid

(* The solution chosen before is kept if it is valid, and no other is      *)
(* taken when it is not.  The vector is read at its index whatever its     *)
(* size: past the end there may be what an earlier call left, valid or not.*)
OptimalConfigurations(valid, n) ==
    IF valid = {} THEN {INVALID_CONFIG}
    ELSE IF lastValid = INVALID_CONFIG THEN valid
    ELSE IF lastValid > n THEN {lastValid, INVALID_CONFIG}
    ELSE IF lastValid \in valid THEN {lastValid} ELSE {INVALID_CONFIG}

(* The gait selector is for legs of six joints: its factory makes none for *)
(* another robot, which is opened nevertheless.                            *)
NoSelector == robot.strategy = "humanoidGait" /\ Len(problem.poe.exps) # 6

Select ==
    /\ phase = "solving" /\ job.step > Len(problem.steps) /\ ~NoSelector
    /\ LET n == ComputeSolutions(problem.steps)
       IN  \E within \in ValidSets(n) : \E valid \in Accepted(within) :
           \E config \in OptimalConfigurations(valid, n), reachable \in BOOLEAN :
               IF config = INVALID_CONFIG
               THEN /\ error' = "out_of_limits"
                    /\ answer' = [kind |-> "error", error |-> error']
                    /\ UNCHANGED <<lastValid, chosenOf>>
               ELSE /\ error' = IF reachable THEN "no_error" ELSE "not_reachable"
                    /\ answer' = [kind |-> "joints", config |-> config, of |-> n]
                    /\ lastValid' = config
                    /\ chosenOf' = IF lastValid = INVALID_CONFIG THEN n ELSE chosenOf
    /\ phase' = "ready" /\ job' = NoJob
    /\ UNCHANGED <<robot, chain, originalChain, search, problem>>

(* The selector that is not there is called all the same; and what is read *)
(* past the end of the vector points to solutions of an earlier call, which*)
(* have been freed.                                                        *)
SelectorCrash ==
    /\ phase = "solving" /\ job.step > Len(problem.steps)
    /\ \/ NoSelector
       \/ 0 < ComputeSolutions(problem.steps) /\ ComputeSolutions(problem.steps) < lastValid
    /\ phase' = "crashed"
    /\ UNCHANGED <<robot, chain, originalChain, search, problem, error, lastValid, job, answer, chosenOf>>

(* Closed by its owner; after a crash, the process is started anew. *)
Close ==
    /\ phase \in {"ready", "failed", "crashed"}
    /\ phase' = "closed" /\ robot' = [strategy |-> "none"]
    /\ chain' = <<>> /\ originalChain' = <<>> /\ search' = NoSearch /\ problem' = NoProblem
    /\ error' = "no_error" /\ lastValid' = INVALID_CONFIG /\ job' = NoJob /\ answer' = NoAnswer /\ chosenOf' = 0

SolverOff ==
    /\ phase = "closed" /\ robot = [strategy |-> "none"]
    /\ chain = <<>> /\ originalChain = <<>> /\ search = NoSearch /\ problem = NoProblem
    /\ error = "no_error" /\ lastValid = INVALID_CONFIG /\ job = NoJob /\ answer = NoAnswer /\ chosenOf = 0

SolverNext ==
    \/ Open \/ SearchStep \/ Found \/ NotFound
    \/ AppendLink \/ RestoreOriginalChain
    \/ InvKin \/ SolveStep \/ Select \/ SelectorCrash \/ Close

SolverSpec == SolverOff /\ [][SolverNext]_solverVars

---------------------------------------------------------------------------
(* Properties. *)

(* Joints where two translations meet before a rotation that is            *)
(* perpendicular to them get a subproblem that does not hold: the builder  *)
(* takes the second translation for the normal of a plane the rotation     *)
(* leaves, and it is not.                                                  *)
TranslationsLeft(s) ==
    /\ s.kind = "PardosGotorOne"
    /\ \E i \in DOMAIN job.terms :
           job.terms[i] # "computed" /\ i # s.ids[1] /\ Slides(problem.poe.exps[i])

(* Every subproblem is solved in a form its equation has: with the terms   *)
(* moved to the right-hand side and those applied to the point, the joints *)
(* still unknown do not enter it.  This is what the search of the builder  *)
(* (ScrewTheoryIkProblemBuilder.cpp:231-639) promises to the problem that  *)
(* evaluates it (ScrewTheoryIkProblem.cpp:63-264), which follows rules of  *)
(* its own for what to move and what to apply; robots with two             *)
(* translations are the exception (TranslationsLeft).                      *)
EquationsHold ==
    phase = "solving" /\ job.step <= Len(problem.steps) =>
        LET s == problem.steps[job.step]
        IN  \/ TranslationsLeft(s)
            \/ /\ EquationHolds(problem.poe, job.terms, s)
               /\ EquationHolds(problem.poe, Learn(job.terms, s), s)

(* Joints are only returned from a problem built for the chain in force,   *)
(* the tool that was last appended included.  They are one of its          *)
(* solutions unless the configuration was first chosen, for another tool,  *)
(* among more than there are now (ChainIkSolverPos_ST.cpp:29-71,           *)
(* ICartesianSolverImpl.cpp:25-55).                                        *)
AnswersFollowTool ==
    answer.kind = "joints" =>
        /\ LET poe == FromChain(chain)
           IN  problem.poe = IF problem.reversed THEN ReverseSelf(poe) ELSE poe
        /\ answer.config <= answer.of \/ chosenOf > answer.of

(* The joint positions the representations are compared at. *)
Positions(n) == [1 .. n -> {0, 1}] \cup {[i \in 1 .. n |-> k * i] : k \in {-1, 2}}

(* The product of exponentials read from the chain of the robot gives the  *)
(* poses its forward kinematics gives; turned round, it gives the inverse  *)
(* pose for the opposite joint positions in reverse order, which is how    *)
(* the solutions of a reversed problem are stored; and converting it to a  *)
(* chain, splitting it or changing its base frame changes no pose          *)
(* (ProductOfExponentials.cpp:56-191, ScrewTheoryIkProblem.cpp:140-147).   *)
RepresentationsAgree ==
    phase = "building" /\ ~search.reversed /\ search.steps = <<>> /\ search.depth = 0 /\ search.at[1] = 1 =>
        LET poe == search.poe
            n == Len(poe.exps)
            head == Poe(SubSeq(poe.exps, 1, n \div 2), Identity)
            tail == Poe(SubSeq(poe.exps, n \div 2 + 1, n), poe.transform)
        IN  /\ MakeReverse(poe).exps = ReverseSelf(poe).exps
            /\ \A q \in Positions(n) :
                LET pose == Evaluate(poe, q)
                    back == [i \in 1 .. n |-> -q[n + 1 - i]]
                IN  /\ pose = ChainPose(chain, q)
                    /\ Evaluate(ReverseSelf(poe), back) = Invert(pose)
                    /\ ChainPose(ToChain(poe), q) = pose
                    /\ Evaluate(AppendPoe(head, tail, Identity), q) = pose
                    /\ \A H \in Tools : Evaluate(ChangeBaseFrame(poe, H), q) = Compose(H, pose)

=============================================================================
