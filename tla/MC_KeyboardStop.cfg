SPECIFICATION Spec
CONSTANTS
  MaxSteps = 1
  BackSteps = 0
  MaxFaults = 0
INVARIANT StopCeasesMovement
CHECK_DEADLOCK FALSE
