SPECIFICATION ViewSpec
CONSTANTS
  Runs = {r1, r2}
  Books = {b1, b2}
  b1 = b1
  b2 = b2
  Filters <- MCFilters
  Away = away
  None = none
  Slots = {s1, s2}
  MaxClicks = 4
  MaxLost = 1
  Limit = 2
  MaxLines = 4
  MaxInFlight = 2
  MaxUpsets = 2
CHECK_DEADLOCK FALSE
INVARIANT StoppingIsOfThisRun
