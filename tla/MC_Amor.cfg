SPECIFICATION FairSpec
CONSTANTS
  c1 = c1
  c2 = c2
  Clients <- MCClients
  Issues <- MCIssues
  MaxFaults = 1
INVARIANTS
  NoOrphanMotion
PROPERTIES
  Implements
  TimeoutReturns
CHECK_DEADLOCK FALSE
