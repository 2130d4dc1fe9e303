SPECIFICATION FairSpec
CONSTANTS
  Runs = {t1}
  Workers = {w1}
  Relays = {b1}
  MaxFailedExecutions = 1
  MaxPublishAttempts = 1
PROPERTIES
  FailureFreesItsWeek
