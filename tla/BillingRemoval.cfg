\* The month is closed and one of its lessons is confirmed again.
CONSTANTS
  r1 = r1  r2 = r2  r3 = r3  l1 = l1  l2 = l2
  Calls = {r1, r2}
  Lessons = {l1, l2}
  Past = {l1}
  Closable = {1}
  Debt = 0
SPECIFICATION Spec
INVARIANT RemovalIsCarried
SYMMETRY SymCalls
CHECK_DEADLOCK FALSE
