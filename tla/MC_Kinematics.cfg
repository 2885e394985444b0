SPECIFICATION Spec
CONSTANTS
    Robots <- MCRobots
    Tools <- MCTools
    Draws <- MCDraws
    MaxTools = 1
    HandPoses <- MCHandPoses
    Guesses <- MCGuesses
    AsibotLimits <- MCLimits
    AsibotTools <- MCAsibotTools
    MaxWaypoints = 3
INVARIANTS EquationsHold AnswersFollowTool RepresentationsAgree HandReachesTarget JacobianIsVelocity OwnedOnce
