SPECIFICATION Spec
CONSTANTS
  Threads = {t1, t2}
  SKUs = {s1}
  EventTypes <- MCEventTypes
  Failures <- MCFailures
  TTL <- MCTTL
  Mixes <- MCMixes
  MaxMoves = 2
  MaxEvents = 1
  Nothing = Nothing
INVARIANTS
  TypeOK
PROPERTIES
  TornListsAreSafe
  EventuallyFresh
