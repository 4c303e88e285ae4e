CONSTANTS
  Runs = {r1, r2, r3}
  Rules = {u1}
  Supported = {u1}
  Values = {v1}
  NoRun = NoRun
  NoKey = NoKey
  MaxDay = 2
  Budget = 1
  LeaseMayLapse = FALSE
  StoreMayFail = TRUE
SPECIFICATION Spec
SYMMETRY RunSymmetry
INVARIANTS SentOnce AuditTruthful
PROPERTIES KeepsContract
CHECK_DEADLOCK FALSE
