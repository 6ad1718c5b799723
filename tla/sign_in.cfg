SPECIFICATION FairSpec
CONSTANTS
  Proc = {p1, p2}
  Phone = {phone}
  NULL = NULL
  FailThreshold = 2
  MaxAttempts = 2
  MaxCodes = 2
INVARIANTS
  TypeOK
  FailuresBounded
  RegistrationIsAnnouncedOnce
PROPERTIES
  UsedCodeIsDead
  EveryRequestEnds
