\* Two ticks at once, a lease that may run out under them, and one fault.
SPECIFICATION FairSpec
CONSTANTS
  w1 = w1
  w2 = w2
  Worker = {w1, w2}
  None = None
  TaskId <- MCTaskId
  RunId <- MCRunId5
  After <- MCAfter
  Window <- MCWindow
  RootType <- LeafRoots
  RootDue <- Now
  RootForce = {FALSE}
  Ttl = 1
  MaxRoots = 1
  MaxFaults = 1
  MaxClock = 3
INVARIANTS
  LeaseExclusive
  OwnerIsHolder
PROPERTIES
  TerminalStays
  Drained
