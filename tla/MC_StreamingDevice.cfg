SPECIFICATION Spec
CONSTANTS
  MaxPose = 3
  MaxFlight = 2
  MaxFaults = 1
INVARIANTS
  BelievedStopped
  GripperFollows
  Tracking
  GraspAtRest
  ExitAtRest
CHECK_DEADLOCK FALSE
