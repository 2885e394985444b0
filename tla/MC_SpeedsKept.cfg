SPECIFICATION Spec
CONSTANTS
  c1 = c1
  j1 = j1
  Clients <- MCClients
  Joints <- MCJoints
  Ops <- MCOps
  MaxFaults = 0
INVARIANTS
  SpeedsKept
CHECK_DEADLOCK FALSE
