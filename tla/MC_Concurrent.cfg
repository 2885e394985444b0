SPECIFICATION Spec
CONSTANTS
  c1 = c1
  c2 = c2
  j1 = j1
  Clients <- MCClients
  Joints <- MCJoints
  Ops <- MCOps
  MaxFaults = 0
SYMMETRY MCSymmetry
INVARIANTS
  SafeStop
  EngagedProperly
  NoCrash
CHECK_DEADLOCK FALSE
