SPECIFICATION Spec
CONSTANTS
  s1 = s1
  s2 = s2
  acme = acme
  gone1 = gone1
  gone2 = gone2
  SKUs <- MCSKUs
  OwnerOf <- MCOwnerOf
  ThresholdOf <- MCThresholdOf
  Beginnings <- MCBeginnings
  Foreign <- MCForeign
  Quantities = {3}
  MaxCount = 4
  MaxCommands = 2
  MaxOutages = 1
  NoOwner = NoOwner
  NoIdentity = NoIdentity
  NoThreshold = NoThreshold
  NoEvent = NoEvent
  NoOrder = NoOrder
  Nothing = Nothing
INVARIANTS
  TypeOK
  CertifiedIsTrue
  NeverOvercounted
PROPERTIES
  EveryFactIsReported
