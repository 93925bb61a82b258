\* Two events the subscriber stores and one it ignores, queues of one, batches of two,
\* a panic or a failed INSERT at any point; fair.
CONSTANTS
  e1 = e1  e2 = e2  e3 = e3
  Events = {e1, e2, e3}
  Unknown = {e3}
  Subscribers = {"audit"}
  Closers = {"main"}
  Stuck = {}
  Capacity = 1
  BatchSize = 2
  Faults = TRUE
SPECIFICATION FairPipeline
INVARIANT DrainedIsStored
PROPERTY ImplementsTrail
PROPERTY ShutdownEnds
CHECK_DEADLOCK FALSE
