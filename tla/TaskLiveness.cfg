SPECIFICATION FairSpec
CONSTANTS
  Runs = {t1}
  Workers = {w1}
  Relays = {b1}
  MaxFailedExecutions = 2
  MaxPublishAttempts = 2
PROPERTIES
  RunningTaskEnds
  DispatchSettles
