SPECIFICATION Spec
CONSTANTS
  Accounts = {a, b}
  Mutations = {m1, m2}
  None = None
  MaxTokens = 2
  MaxUses = 4
  MaxCrashes = 0
INVARIANT MeCacheIsPerAccount
SYMMETRY Symmetry
CHECK_DEADLOCK FALSE
