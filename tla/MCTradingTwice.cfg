\* The default lock and one crash.
SPECIFICATION Spec
CONSTANTS
  p1 = p1
  p2 = p2
  None = None
  Process = {p1, p2}
  RunId = {1, 2}
  Request <- MCOneCode
  Cost <- MCCost
  MaxOrder = 2
  StartCash = 2
  Open = {1}
  Interval = 1
  LockTtl = 1
  Entries <- LockedTick
  MaxFaults = 1
  MaxClock = 1
INVARIANTS
  NoDuplicateSubmit
CHECK_DEADLOCK FALSE
