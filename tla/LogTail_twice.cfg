SPECIFICATION TailSpec
CONSTANTS
  Limit = 2
  MaxLines = 3
  MaxInFlight = 3
  MaxUpsets = 1
CHECK_DEADLOCK FALSE
INVARIANT NoLineTwice
