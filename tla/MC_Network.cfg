SPECIFICATION Spec
CONSTANTS
  c1 = c1
  c2 = c2
  Clients <- MCClients
  Transforms <- MCTransforms
  Profiles <- MCProfiles
  Timeout = 1
  Delay = 1
  MaxTime = 3
  MaxFlight = 1
INVARIANTS
  FreshAnswers
  Honest
  StopIsFinal
  ClosedMeansRest
CHECK_DEADLOCK FALSE
