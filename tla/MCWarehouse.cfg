\* One request thread, the refresh threads and a sync process, that may fail anywhere.
SPECIFICATION Spec
CONSTANTS
  q1 = q1
  r1 = r1
  r2 = r2
  c1 = c1
  NoRow = NoRow
  NoCover = NoCover
  NoSymbol = NoSymbol
  Symbol = {"600519", "510300"}
  Etf = {"510300"}
  LastDate = 2
  Window <- MCWindow
  Request = {q1}
  Refresh = {r1, r2}
  Cli = {c1}
  MaxBusy = 2
INVARIANTS
  CoverageLanded
  CoverageExplained
  FlagHasThread
SYMMETRY ThreadSymmetry
