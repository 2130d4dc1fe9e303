SPECIFICATION Spec
CONSTANTS
  Requests = {q1, q2}
  MaxUsers = 1
  Emails = {a, b}
  Malformed = Malformed
  Passwords = {p1, p2}
  Tokens = {t1}
  MaxWrites = 4
  Nothing = Nothing
  Gone = Gone
SYMMETRY Symmetry
CHECK_DEADLOCK FALSE
INVARIANTS
  TypeOK
  ResetTokensWorkOnce

  
