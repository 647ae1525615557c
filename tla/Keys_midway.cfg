SPECIFICATION KeySpec
CONSTANTS
  Processes = {"server", "command"}
  Server = "server"
  Legacy = TRUE
  MaxKeys = 4
  MaxUpsets = 2
CHECK_DEADLOCK FALSE
INVARIANTS
  RotationIsSafe
