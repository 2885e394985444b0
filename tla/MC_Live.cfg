SPECIFICATION FairSpec
CONSTANTS
  c1 = c1
  j1 = j1
  Clients <- MCClients
  Joints <- MCJoints
  Ops <- MCOps
  MaxFaults = 1
PROPERTIES
  WaitReturns
  MismatchNoticed
CHECK_DEADLOCK FALSE
