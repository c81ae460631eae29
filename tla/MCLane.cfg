\* One worker, everything due at once, and one fault.
SPECIFICATION Spec
CONSTANTS
  w1 = w1
  w2 = w2
  Worker = {w1}
  None = None
  TaskId <- MCTaskId11
  RunId <- MCRunId5
  After <- MCAtOnce
  Window <- MCAlways
  RootType <- LaneRoots
  RootDue <- Now
  RootForce = {FALSE}
  Ttl = 1
  MaxRoots = 1
  MaxFaults = 1
  MaxClock = 2
PROPERTIES
  IterationAfterDrain
