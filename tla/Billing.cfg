\* Three requests around the close of a month of a past and a coming lesson, of a
\* student who owes from before: the month is billed even without a lesson that counts.
CONSTANTS
  r1 = r1  r2 = r2  r3 = r3  l1 = l1  l2 = l2
  Calls = {r1, r2, r3}
  Lessons = {l1, l2}
  Past = {l1}
  Closable = {1, 2}
  Debt = 1
SPECIFICATION Spec
INVARIANT CarriedInFull
PROPERTY IssuedIsFinal
SYMMETRY SymCalls
CHECK_DEADLOCK FALSE
