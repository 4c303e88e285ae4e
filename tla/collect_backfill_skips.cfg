CONSTANTS
  Runs = {r1, r2}
  NoRun = NoRun
  Objects = {o1}
  Styles = {"ozon"}
  Horizon = 2
  Lookback <- MCLookback
  Delay <- MCDelay
  MaxFaults = 1
  LeaseMayLapse = FALSE
SPECIFICATION Spec
INVARIANT NothingSkipped
CHECK_DEADLOCK FALSE
