SPECIFICATION FairSpec
CONSTANTS
  Proc = {p1, p2}
  Account = {alice}
  Device = {d1, d2}
  Tid = {t1, t2}
  NULL = NULL
  TTL = 1
  MaxClock = 1
PROPERTIES
  RevokedAtIsWrittenOnce
  EveryRequestEnds
