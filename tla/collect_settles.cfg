CONSTANTS
  Runs = {r1, r2}
  NoRun = NoRun
  Objects = {o1}
  Styles = {"wb", "ym"}
  Horizon = 1
  Lookback <- MCLookback
  Delay <- MCDelay
  MaxFaults = 1
  LeaseMayLapse = TRUE
  FdLast = 5
  FdReaders = {"postings", "stocks", "ids", "attributes", "accruals", "paged", "orders", "report",
               "campaigns", "goods", "cards", "feedbacks", "reviews"}
  FdPage = 2
  FdCap = 4
  FdWindow = 2
  MaxFdChanges = 1
  MaxFdFaults = 1
  AdKinds = {"sku", "daily", "ym"}
  AdRuns = {a1}
  AdNoRun = AdNoRun
  AdLastDay = 2
  AdLookback = 1
  AdStretch = 1
  AdLifetime = 2
  AdSkew = 1
  AdLatency = 2
  AdTimeout = 1
  AdVersions = 2
  MaxAdTicks = 1
  MaxAdFaults = 1
  RrTables = {"wb_sales"}
  RrAmounts = {1}
  RrMost = 2
  MaxRrEntries = 0
  MaxRrEvents = 0
SPECIFICATION CollectingSpec
PROPERTY CollectingSettles
CHECK_DEADLOCK FALSE
