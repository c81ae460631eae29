\* A scheduled and a direct process, a lock that may run out under them, one fault.
SPECIFICATION Spec
CONSTANTS
  p1 = p1
  p2 = p2
  None = None
  Process = {p1, p2}
  RunId = {1, 2}
  Request <- MCRequest
  Cost <- MCCost
  MaxOrder = 2
  StartCash = 2
  Open = {1}
  Interval = 1
  LockTtl = 1
  Entries <- TickOrDirect
  MaxFaults = 1
  MaxClock = 1
INVARIANTS
  LockHeld
  DuplicateNeedsFault
  SentIsDecided
  OkRunIsComplete
SYMMETRY ProcessSymmetry
CHECK_DEADLOCK FALSE
