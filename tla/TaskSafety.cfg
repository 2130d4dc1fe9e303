SPECIFICATION Spec
CONSTANTS
  Runs = {t1}
  Workers = {w1, w2}
  Relays = {b1, b2}
  MaxFailedExecutions = 3
  MaxPublishAttempts = 3
SYMMETRY Symmetry
INVARIANTS
  TypeOK
  OneExecution
  TruthfulAnswer
  DispatchAgrees
PROPERTIES
  AnswerIsFinal
