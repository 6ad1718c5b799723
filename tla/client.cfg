SPECIFICATION FairSpec
CONSTANTS
  Accounts = {a, b}
  Mutations = {m1}
  None = None
  MaxTokens = 2
  MaxUses = 2
  MaxCrashes = 1
INVARIANTS
  TypeOK
  TokenPresentedOnce
  StoreIsOneSession
  OwnDataUntilALateAnswer
PROPERTIES
  NothingWaitsForEver
CHECK_DEADLOCK FALSE
