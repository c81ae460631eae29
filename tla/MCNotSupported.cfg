\* One request at a time, with the default threshold.
SPECIFICATION Spec
CONSTANTS
  t1 = t1
  t2 = t2
  Thread = {t1}
  Source = {"Yfinance", "AkShare"}
  Kind <- USKind
  Tried <- USTried
  Supports <- USSupports
  Threshold = 3
INVARIANT
  NotSupportedIsNoFailure
