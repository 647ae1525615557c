SPECIFICATION Spec
CONSTANTS
  Browsers = {ann, bob}
  Address <- MCAddress
  Passwords = {rose, thorn}
  NoPassword = "none"
  CodeFromEnv = FALSE
  SetupWindow = 2
  ClaimTtl = 1
  SessionTtl = 2
  FreeAttempts = 1
  BaseDelay = 1
  MaxDelay = 3
  ForgetAfter = 4
  ann = ann
  bob = bob
  rose = rose
  thorn = thorn
  MaxTime = 6
  MaxTokens = 3
SYMMETRY Interchangeable
CHECK_DEADLOCK FALSE
INVARIANTS
  ThrottleIsFair
  SessionsAreOfThisPassword
PROPERTIES
  ClaimIsExclusive
