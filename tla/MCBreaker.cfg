\* Two request threads of the US market that fail in any order.
SPECIFICATION FairSpec
CONSTANTS
  t1 = t1
  t2 = t2
  Thread = {t1, t2}
  Source = {"Yfinance", "AkShare"}
  Kind <- USKind
  Tried <- USTried
  Supports <- USSupports
  Threshold = 2
INVARIANTS
  ClosedBelowThreshold
  HalfOpenIsProbed
PROPERTIES
  Retried
