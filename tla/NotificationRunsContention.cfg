\* Two teachers, one of them a delegate, contend for slots and runs over one
\* dimension, and any write of a run may fail; one process.
CONSTANTS
  t1 = t1  t2 = t2  d1 = d1  d2 = d2  c1 = c1  c2 = c2  q1 = q1  q2 = q2
  Teachers = {t1, t2}
  Dims = {d1}
  Contacts = {c1}
  Attempts = {q1, q2}
  Probed <- T2Probed
  MaxRuns = 2
  MaxRunSize = 0
  Breaker = 1
  MaxRestarts = 0
  Crashes = FALSE
  WriteFaults = TRUE
SPECIFICATION Spec
SYMMETRY SymSafety
INVARIANT OneSender
PROPERTY VerdictIsFinal
