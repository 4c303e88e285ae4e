CONSTANTS
  RvReviews = {1, 2}
  RvWanted = {2}
  RvRuns = {t1, t2}
  RvHand = hand
  RvNoRun = RvNoRun
  RvBudget = 2
  RvAttempts = 2
  MaxRvFaults = 1
  MaxRvRefusals = 1
  MaxRvByHand = 1
  SsIds = {s1}
  SsThreads = {t1, t2}
  SsProcesses = {t1, t2}
  NoSession = NoSession
  NoProcess = NoProcess
  SsCacheTtl = 1
  SsMaxResolve = 1
  MaxSsAdmin = 1
  AcSkus = {x}
  AcUnits = {u, v}
  AcPrices = {1, 2}
  AcFees = {0, 1}
  AcUnallocated = rest
  MaxAcRows = 2
  MaxAcLater = 1
  MaxAcSales = 2
  MaxAcAds = 1
  AcTaxes = {3}
  WbPaysAtMost = TRUE
  CbPostings = {p, q}
  CbLastDay = 4
  CbWindow = 2
  CbUndated = {q}
  NoDay = NoDay
  WtMarked = {m, y}
  WtFixed = {f}
  WtLookback = 2
  WtCorrected = 1
  WtMarkedBy = {m}
  WtBackfills = {1, 4}
  WtLastDay = 4
  WtVersions = 2
  MaxWtFaults = 1
  Levels = 3
  MaxRows = 3
  Worlds = {{}, {"overlap", "carried", "late"}}
  UsOrgs = {o1, o2}
  UsHome = o1
  UsThreads = {t1, t2}
  UsTerms = {0, 1}
  MaxUsKeys = 2
  MaxUsSeconds = 1
  MaxUsChanges = 2
  oz = oz
  wb = wb
  ym = ym
  PnAccounts = {oz, wb, ym}
  PnMarket <- MCPnMarket
  PnTaxed = {oz, wb, ym}
  PnRate = 8
  PnLast = 2
  PnFacts <- MCPnFacts
  PnWorlds <- MCPnWorlds
  PnAmounts = {101}
  PnExpenses = {e1}
  MaxPnChanges = 1
  MaxPnEdits = 3
  PnThreads = {t1, t2}
  SpSkus = {11, 12}
  SpNumeric = {11}
  SpOwn = {507}
  SpForeign = {901}
  NoWarehouse = 0
  SpBatch = 1
  MaxSpItems = 2
SPECIFICATION AllSpec
INVARIANTS AnswersTrue DaysSound ReviewsSound PnlAddsUp
PROPERTIES AwaitsSnapshot StepOnMarket WaitsForResult SessionsKept UsersKept
CHECK_DEADLOCK FALSE
SYMMETRY MCAlike
