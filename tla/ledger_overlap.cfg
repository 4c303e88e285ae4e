CONSTANTS
  Runs = {r1, r2}
  Rules = {u1, u2}
  Supported = {u1, u2}
  Values = {v1}
  NoRun = NoRun
  NoKey = NoKey
  MaxDay = 1
  Budget = 1
  LeaseMayLapse = TRUE
  StoreMayFail = FALSE
SPECIFICATION Spec
SYMMETRY RunSymmetry
INVARIANTS LedgerSound AuditComplete
CHECK_DEADLOCK FALSE
