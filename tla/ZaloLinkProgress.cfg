\* Two attempts and one Unlink; fair.
CONSTANTS
  a0 = a0  a1 = a1  a2 = a2  x1 = x1  x2 = x2  u1 = u1
  Attempts = {a1, a2}
  Earlier = {}
  Users = {}
  Unlinkers = {u1}
  Faults = TRUE
SPECIFICATION FairSpec
PROPERTY UnlinkReturns
PROPERTY AttemptIsReported
CHECK_DEADLOCK FALSE
