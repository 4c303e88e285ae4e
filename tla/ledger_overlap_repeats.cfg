CONSTANTS
  Runs = {r1, r2}
  Rules = {u1}
  Supported = {u1}
  Values = {v1}
  NoRun = NoRun
  NoKey = NoKey
  MaxDay = 1
  Budget = 1
  LeaseMayLapse = TRUE
  StoreMayFail = FALSE
SPECIFICATION Spec
INVARIANT SentOnce
CHECK_DEADLOCK FALSE
