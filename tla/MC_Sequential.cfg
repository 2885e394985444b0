SPECIFICATION Spec
CONSTANTS
  c1 = c1
  j1 = j1
  j2 = j2
  Clients <- MCClients
  Joints <- MCJoints
  Ops <- MCOps
  MaxFaults = 1
SYMMETRY JointSymmetry
INVARIANTS
  SafeStop
  SpeedsRestored
  EngagedProperly
PROPERTIES
  WaitTellsTruth
  Implements
CHECK_DEADLOCK FALSE
