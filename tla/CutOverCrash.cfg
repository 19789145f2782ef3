CONSTANTS
  c1 = c1
  c2 = c2
  c3 = c3
  q1 = q1
  q2 = q2
  NoContainer = NoContainer
  NoRequest = NoRequest
  Container = {c1, c2, c3}
  Request = {q1}
SPECIFICATION Spec
CHECK_DEADLOCK FALSE
INVARIANTS
  PreviousIsNeverLost
