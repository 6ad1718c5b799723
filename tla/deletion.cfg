SPECIFICATION Spec
CONSTANTS
  Proc = {p1, p2}
  Server = {s1, s2}
  Account = {alice}
  NULL = NULL
  CodeTTL = 1
  FreezeDuration = 1
  BatchSize = 1
  MaxCodes = 3
  MaxTokens = 1
  MaxClock = 3
SYMMETRY Symmetry
INVARIANTS
  TypeOK
  OneCodePerTransition
PROPERTIES
  ImplementsLifecycle
CHECK_DEADLOCK FALSE
