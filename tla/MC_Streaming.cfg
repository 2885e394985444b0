SPECIFICATION Spec
CONSTANTS
  c1 = c1
  j1 = j1
  Clients <- MCClients
  Joints <- MCJoints
  Ops <- MCOps
  MaxFaults = 1
INVARIANTS
  TypeOK
  SafeStop
  EngagedProperly
  StreamingNeedsIdle
CHECK_DEADLOCK FALSE
