\* One worker at a time, as launchd runs it: the flow of the chain with one crash or
\* exception anywhere.
SPECIFICATION Spec
CONSTANTS
  w1 = w1
  w2 = w2
  Worker = {w1}
  None = None
  TaskId <- MCTaskId11
  RunId <- MCRunId4
  After <- MCAfter
  Window <- MCWindow
  RootType <- ChainRoots
  RootDue <- Now
  RootForce = {FALSE}
  Ttl = 1
  MaxRoots = 2
  MaxFaults = 1
  MaxClock = 2
INVARIANTS
  NoLostSuccessor
  ChainAlive
  ForkNeedsRerun
  OneIteration
  PromptIsNotReport
