SPECIFICATION Spec
CONSTANTS
  c1 = c1
  j1 = j1
  j2 = j2
  Clients <- MCClients
  Joints <- MCJoints
  Ops <- MCOps
  MaxFaults = 1
PROPERTIES
  WaitReportsErrors
CHECK_DEADLOCK FALSE
