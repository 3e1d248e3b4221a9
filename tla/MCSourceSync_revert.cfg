CONSTANTS
  q1 = q1
  q2 = q2
  a = a
  b = b
  s1 = s1
  Paths = {q1}
  Revisions = {a, b}
  None = None
  Scopes <- RootOnly
  Scanners = {s1}
  MaxEdits = 3
  MaxPlans = 4
SPECIFICATION SsSpec
PROPERTIES
  ModificationsReachStore
CHECK_DEADLOCK FALSE
