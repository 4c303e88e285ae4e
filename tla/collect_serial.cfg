CONSTANTS
  Runs = {r1, r2}
  NoRun = NoRun
  Objects = {o1, o2}
  Styles = {"wb", "ym"}
  Horizon = 2
  Lookback <- MCLookback
  Delay <- MCDelay
  MaxFaults = 1
  LeaseMayLapse = FALSE
  FdLast = 5
  FdReaders = {"postings", "stocks", "ids", "attributes", "accruals", "paged", "orders", "report",
               "campaigns", "goods", "cards", "feedbacks", "reviews"}
  FdPage = 2
  FdCap = 4
  FdWindow = 2
  MaxFdChanges = 2
  MaxFdFaults = 1
  AdKinds = {"sku", "daily", "ym"}
  AdRuns = {a1, a2}
  AdNoRun = AdNoRun
  AdLastDay = 2
  AdLookback = 1
  AdStretch = 1
  AdLifetime = 2
  AdSkew = 1
  AdLatency = 2
  AdTimeout = 1
  AdVersions = 2
  MaxAdTicks = 2
  MaxAdFaults = 1
  RrTables = {"wb_sales", "wb_orders", "wb_stocks", "wb_funnel", "wb_report", "ozon_items",
              "ozon_stocks", "ozon_ads", "ozon_sku_ads", "ozon_accruals", "ozon_balance", "ym_orders",
              "ym_stats", "ym_stocks", "ym_offers", "ym_quotes", "ym_finance", "ym_ads", "ym_funnel"}
  RrAmounts = {1, 2}
  RrMost = 2
  MaxRrEntries = 2
  MaxRrEvents = 1
SYMMETRY MCAlike
SPECIFICATION AllSpec
INVARIANTS CollectedSound FeedsSound AdReportsSound RowsSound
PROPERTIES MarksForward
CHECK_DEADLOCK FALSE
