SPECIFICATION Spec
CONSTANTS
  Requests = {q1}
  MaxUsers = 1
  Emails = {a, b}
  Malformed = Malformed
  Passwords = {p1}
  Tokens = {t1}
  MaxWrites = 2
  Nothing = Nothing
  Gone = Gone
CHECK_DEADLOCK FALSE
INVARIANTS
  StoredUsersAreReadable
