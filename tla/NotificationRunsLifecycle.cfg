\* One run of two contacts through two process ends, shutdowns or crashes at any
\* step, with two requests; fair.
CONSTANTS
  t1 = t1  t2 = t2  d1 = d1  d2 = d2  c1 = c1  c2 = c2  q1 = q1  q2 = q2
  Teachers = {t1}
  Dims = {d1}
  Contacts = {c1, c2}
  Attempts = {q1, q2}
  Probed <- NoProbe
  MaxRuns = 1
  MaxRunSize = 2
  Breaker = 2
  MaxRestarts = 2
  Crashes = TRUE
  WriteFaults = FALSE
SPECIFICATION FairSpec
INVARIANT RunningHasSender
INVARIANT SettledHasNothingQueued
INVARIANT AtMostOnceUnlessLost
PROPERTY QuietAfterClose
PROPERTY CloseTerminates
PROPERTY RunsSettle
