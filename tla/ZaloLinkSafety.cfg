\* Two attempts after one of an earlier process, one use of the session, one Unlink.
CONSTANTS
  a0 = a0  a1 = a1  a2 = a2  x1 = x1  x2 = x2  u1 = u1
  Attempts = {a0, a1, a2}
  Earlier = {a0}
  Users = {x1}
  Unlinkers = {u1}
  Faults = FALSE
SPECIFICATION Spec
INVARIANT UnlinkSticks
INVARIANT LateScanIsDropped
INVARIANT QuietAfterClose
SYMMETRY Sym
CHECK_DEADLOCK FALSE
