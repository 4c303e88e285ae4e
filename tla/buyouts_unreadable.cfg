CONSTANTS
  CbPostings = {p}
  CbLastDay = 3
  CbWindow = 2
  CbUndated = {}
  NoDay = NoDay
SPECIFICATION CbSpec
INVARIANT ReportReadsBuyouts
CHECK_DEADLOCK FALSE
