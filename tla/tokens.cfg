SPECIFICATION Spec
CONSTANTS
  Proc = {p1, p2, p3}
  Account = {alice}
  Device = {d1, d2}
  Tid = {t1, t2, t3}
  NULL = NULL
  TTL = 1
  MaxClock = 0
SYMMETRY Symmetry
INVARIANTS
  TypeOK
  OneActivePerSession
  DeviceRevokedIsTruthful
  LogoutAllRevokesWhatItSaw
PROPERTIES
  ImplementsSessions
