CONSTANTS
  Exports = {e1}
  ExportWorkers = {w1, w2}
  NoExport = NoExport
  MaxExportFaults = 3
  HookSubs = {s1}
  HookWorkers = {w1, w2}
  HookIds = {"a", "b"}
  HookAttempts = 2
  MaxHookEvents = 1
  MaxHookFaults = 1
  QcReaders = {1, 2}
  QcTtl = 1
  QcBackoff = 1
  NoEntry = NoEntry
  QcHorizon = 2
  MaxQcStatements = 1
  MaxQcErrors = 1
  HcAttempts = 3
  HcThreshold = 2
  HcReset = 2
  RbLastDay = 2
  RbRecent = 1
  RbBackfill = 2
  RbKeep = 1
  MaxRbFaults = 1
  RvReviews = {2}
  RvWanted = {2}
  RvRuns = {a, b}
  RvHand = hand
  RvNoRun = RvNoRun
  RvBudget = 2
  RvAttempts = 2
  MaxRvFaults = 1
  MaxRvRefusals = 1
  MaxRvByHand = 1
  MgRunners = {1, 2}
  MgVersions = 1
  MgStatements = 2
  NoMgLock = NoMgLock
  MaxMgEdits = 0
  MaxMgFaults = 1
  Runs = {r1, r2}
  Rules = {u1}
  Supported = {u1}
  Values = {val}
  NoRun = NoRun
  NoKey = NoKey
  MaxDay = 1
  Budget = 1
  LeaseMayLapse = TRUE
  StoreMayFail = TRUE
SPECIFICATION LiveSpec
INVARIANTS ExportsSound HooksSound NoStaleHit ClientSound
PROPERTIES ExportsSettle HookSettles RebuildsKept ReviewsAnswered ServicesSettle
CHECK_DEADLOCK FALSE
