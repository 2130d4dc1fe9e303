SPECIFICATION Spec
CONSTANTS
  Runs = {t1, t2}
  Workers = {w1}
  Relays = {b1}
  MaxFailedExecutions = 1
  MaxPublishAttempts = 1
SYMMETRY Symmetry
INVARIANTS
  OneOpenRequest
