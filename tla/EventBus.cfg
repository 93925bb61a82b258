\* Three publishers, two subscribers, one of which may hang, and two closers over
\* queues of one; fair.
CONSTANTS
  e1 = e1  e2 = e2  e3 = e3  s1 = s1  s2 = s2  k1 = k1  k2 = k2
  Events = {e1, e2, e3}
  Subscribers = {s1, s2}
  Closers = {k1, k2}
  Capacity = 1
  Stuck = {s2}
SPECIFICATION FairSpec
INVARIANT NoSendOnClosed
INVARIANT DrainMeansHandled
PROPERTY WorkersLeave
PROPERTY PublishNeverBlocks
CHECK_DEADLOCK FALSE
