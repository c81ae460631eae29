\* Each service on a small instance; every behaviour ends with its answer.
SPECIFICATION DeskSpec
CONSTANTS
  None = None
  Scale = 100
  MinBars = 3
  ShortWindow = 1
  LongWindow = 2
  Lookback <- MCLookback
  MarketSymbols <- MCMarketSymbols
  MarketCloses = {4, 8}
  MarketDays = 5
  Windows = {1, 2}
  Ages = {5, 100}
  NewsSources = 2
  AnalyzeRequests <- MCAnalyzeRequests
  SeriesRegion <- MCSeriesRegion
  Identifiers <- MCIdentifiers
  PackCutoffs = {5, 6, 8}
  PackStart = 5
  PackEnd = 8
  t1 = t1
  t2 = t2
  t3 = t3
  Tickers = {t1, t2, t3}
  Interval = 2
  ActiveWindow = {0, 2}
  TickEnd = 2
  SyncSymbols = {"x", "y"}
  Trades <- MCTrades
  Halts <- MCHalts
  StartDay = 1
  Grace = 1
  Backtrack = 2
  LastDay = 5
  HeatSources <- MCHeatSources
  HeatPool <- MCHeatPool
  Pages <- MCPages
  Records <- MCRecords
  d1 = d1
  d2 = d2
  DocProcess = {d1, d2}
  prospectus = prospectus
  allotment = allotment
  Url = {prospectus, allotment}
  Oversized = {prospectus}
  DatedUrl = {allotment}
  Listings <- MCListings
  FieldsOf <- MCFieldsOf
  EarlyFields <- MCEarlyFields
  MaxDocuments = 2
  QuoteLists <- MCQuoteLists
  CodeOf <- MCCodeOf
  Listed = {"600000", "510300"}
  a1 = a1
  a2 = a2
  new1 = new1
  old1 = old1
  Agent = {a1, a2}
  Handoff = {new1, old1}
  Legacy = {old1}
  Role = {"kol_researcher"}
  RoleOf <- MCRoleOf
  Ttl = 1
  ClaimTtl = {0, 1}
  MaxClock = 2
  Rounds = {1, 2}
  ReviewCodes = {"x"}
  BuyAbove <- MCBuyAbove
  ReviewPrices = {1, 2, 3}
  ReviewQuotes <- MCReviewQuotes
  OrderLimit = 2
  DayLength = 1
  ReviewEnd = 1
  MinRuns = 1
  MaxRejected = 50
CHECK_DEADLOCK FALSE
INVARIANTS
  AnswersTold
  PackTold
  LookBack
  TicksApart
  SkipHidesNoBars
  FailureOnlyCosts
  DocumentsAgree
  EventsTellRow
  ReplayOrder
  VerdictInLease
PROPERTIES
  EvaluationIsFinal
  NoSteal
