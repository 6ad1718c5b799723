SPECIFICATION FairSpec
CONSTANTS
  Proc = {p1, p2}
  Server = {s1}
  Account = {alice, bob}
  NULL = NULL
  CodeTTL = 1
  FreezeDuration = 1
  BatchSize = 1
  MaxCodes = 2
  MaxTokens = 0
  MaxClock = 2
PROPERTIES
  NobodyWaitsForEver
CHECK_DEADLOCK FALSE
