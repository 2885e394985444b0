SPECIFICATION Spec
CONSTANTS
  MaxSteps = 1
  BackSteps = 0
  MaxFaults = 1
INVARIANTS
  NoCrash
  FramesAgree
  StoppedIsStill
  ShownIsCommanded
  OneMode
  ExitAtRest
CHECK_DEADLOCK FALSE
