CONSTANTS
  acme = acme  noClient = noClient  noThreshold = noThreshold  noOne = noOne
  NoClient = noClient  NoThreshold = noThreshold  NoOne = noOne
  SKUs <- MCSKUs  Ids <- MCIds  ClientOf <- MCClientOf
  InitialStock <- MCInitialStock  InitialThreshold <- MCInitialThreshold
  Commands <- MCCommands
  Handlers = {h1, h2}  Relays = {b1}
  MaxRequests = 3
SPECIFICATION Spec
CHECK_DEADLOCK FALSE
INVARIANTS TypeOK OneEventPerFact AcknowledgedIsDelivered NoDeadlock
PROPERTIES RowsTellTheStock CrossingIsAnnounced RetryAgrees
