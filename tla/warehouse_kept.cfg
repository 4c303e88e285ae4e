CONSTANTS
  MgRunners = {1, 2}
  MgVersions = 2
  MgStatements = 2
  NoMgLock = NoMgLock
  MaxMgEdits = 1
  MaxMgFaults = 1
  HistKeys = {k1, k2}
  HistCards = {card, reordered}
  HistMeaning <- MCMeaning
  HistPrices = {price}
  NoSection = NoSection
  HistRuns = {r1, r2}
  HistGuardMin = 2
  HistHorizon = 1
  MaxHistCrashes = 1
  RawDays = 3
  RawVersions = 3
  MaxRawToggles = 2
  MaxRawCrashes = 1
  Runs = {r1, r2}
  NoRun = NoRun
  LeaseMayLapse = TRUE
  Objects = {o1, o2}
  Styles = {"wb"}
  Horizon = 1
  Lookback <- MCLookback
  Delay <- MCDelay
  MaxFaults = 1
  RlKinds = {"price", "bid"}
  RlRules = {o1, o2}
  RlCards = {c1}
  RlThreads = {r1, r2}
  RlValues = {1, 2}
  NoRule = NoRule
  MaxRlOps = 3
  MaxRlSeconds = 0
  InSubjects = {s1}
  InTriggerOf <- MCInTrigger
  InFacts <- MCInFacts
  InRuns = {r1, r2}
  InTasks = {o1, o2}
  NoSubject = NoSubject
  InQuietDays = 1
  MaxInDay = 3
  MaxInPatches = 2
SYMMETRY MCAlike
SPECIFICATION AllSpec
INVARIANTS HistoryComplete HistorySound RulesSound InsightsSound
PROPERTIES HistoryFaithful OnlyCopyKept SchemaKept
CHECK_DEADLOCK FALSE
