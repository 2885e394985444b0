----------------------------- MODULE KdlTrajectory -----------------------------
(***************************************************************************)
(* The objects a Cartesian trajectory allocates (KdlTrajectory): a path, a *)
(* velocity profile, and the trajectory segment that takes both over.      *)
(***************************************************************************)
EXTENDS Naturals

CONSTANT MaxWaypoints   \* bound: more than a line takes

VARIABLES trajectory,   \* the members of the class
          heap          \* history: the objects that are allocated

trajectoryVars == <<trajectory, heap>>

Null == <<"null">>

DefaultTrajectory ==
    [waypoints |-> 0, durationSet |-> FALSE, configuredPath |-> FALSE, configuredVelocityProfile |-> FALSE,
     velocityDrivenPath |-> FALSE, created |-> FALSE,
     path |-> Null, velocityProfile |-> Null, currentTrajectory |-> Null]

(* Objects are told apart by their kind and by how often the trajectory    *)
(* has been destroyed, so that one of before is not one of now.            *)
TrajectoryOff == trajectory = DefaultTrajectory /\ heap = [live |-> {}, age |-> 0, owned |-> {}]

New(kind) == <<kind, heap.age>>

AddWaypoint ==
    /\ trajectory.waypoints < MaxWaypoints
    /\ trajectory' = [trajectory EXCEPT !.waypoints = @ + 1]
    /\ UNCHANGED heap

SetDuration ==
    /\ trajectory' = [trajectory EXCEPT !.durationSet = TRUE]
    /\ UNCHANGED heap

(* A line takes two waypoints, or one and its velocity: one is enough, as  *)
(* every waypoint stores a velocity.                                       *)
ConfigurePath ==
    \E line \in BOOLEAN :
        IF ~trajectory.configuredPath /\ line /\ trajectory.waypoints \in 1 .. 2
        THEN /\ trajectory' = [trajectory EXCEPT !.path = New("path"), !.configuredPath = TRUE,
                                                 !.velocityDrivenPath = trajectory.waypoints = 1]
             /\ heap' = [heap EXCEPT !.live = @ \cup {New("path")}]
        ELSE UNCHANGED <<trajectory, heap>>

ConfigureVelocityProfile ==
    \E known \in BOOLEAN :
        IF ~trajectory.configuredVelocityProfile /\ known
        THEN /\ trajectory' = [trajectory EXCEPT !.velocityProfile = New("profile"),
                                                 !.configuredVelocityProfile = TRUE]
             /\ heap' = [heap EXCEPT !.live = @ \cup {New("profile")}]
        ELSE UNCHANGED <<trajectory, heap>>

Create ==
    IF ~trajectory.created /\ trajectory.configuredPath /\ trajectory.configuredVelocityProfile
    THEN /\ trajectory' = [trajectory EXCEPT !.currentTrajectory = New("trajectory"), !.created = TRUE]
         /\ heap' = [heap EXCEPT !.live = @ \cup {New("trajectory")},
                                 !.owned = {trajectory.path, trajectory.velocityProfile}]
    ELSE UNCHANGED <<trajectory, heap>>

(* Mutant: only the trajectory segment is forgotten. *)
DestroyTrajectoryOnly ==
    /\ heap' = [live |-> heap.live \ (IF trajectory.currentTrajectory # Null
                                      THEN {trajectory.currentTrajectory} \cup heap.owned
                                      ELSE {trajectory.path, trajectory.velocityProfile}),
                age |-> 1 - heap.age, owned |-> {}]
    /\ trajectory' = [DefaultTrajectory EXCEPT !.path = trajectory.path,
                                               !.velocityProfile = trajectory.velocityProfile]

(* The trajectory segment deletes what it took over. *)
Destroy ==
    /\ heap' = [live |-> heap.live \ (IF trajectory.currentTrajectory # Null
                                      THEN {trajectory.currentTrajectory} \cup heap.owned
                                      ELSE {trajectory.path, trajectory.velocityProfile}),
                age |-> 1 - heap.age, owned |-> {}]
    /\ trajectory' = DefaultTrajectory

TrajectoryNext ==
    \/ AddWaypoint \/ SetDuration \/ ConfigurePath \/ ConfigureVelocityProfile \/ Create \/ Destroy

TrajectorySpec == TrajectoryOff /\ [][TrajectoryNext]_trajectoryVars

---------------------------------------------------------------------------
(* Every object is reachable from the trajectory and no pointer dangles,   *)
(* whatever the order of the calls and however many of them fail: nothing  *)
(* leaks and nothing is deleted twice (KdlTrajectory.cpp:144-326).         *)
OwnedOnce ==
    LET pointers == {trajectory.path, trajectory.velocityProfile, trajectory.currentTrajectory} \ {Null}
    IN  /\ heap.live = pointers
        /\ heap.owned \subseteq {trajectory.path, trajectory.velocityProfile}
        /\ trajectory.created <=> trajectory.currentTrajectory # Null
        /\ trajectory.created <=> heap.owned # {}
=============================================================================
