\* Two request threads, one of two symbols, sources that may fail, and a restart.
SPECIFICATION Spec
CONSTANTS
  r1 = r1
  r2 = r2
  None = None
  Request = {r1, r2}
  Symbol = {"600519", "AAPL"}
  Us = {"AAPL"}
  Asked <- MCAsked
  Facts <- MCFacts
  Ttl = 0
  MaxClock = 1
INVARIANTS
  SinceLastTold
PROPERTIES
  BaselineForward
SYMMETRY RequestSymmetry
