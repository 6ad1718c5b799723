SPECIFICATION FairSpec
CONSTANTS
  t1 = t1
  t2 = t2
  Tasks = {t1, t2}
  Files <- MCFiles
  Listing <- MCListing
  Deps <- MCDeps
  Op <- MCOp
  Kind <- MCKind
  GenDirs <- MCGenDirs
  Bound <- MCBound
  ParallelTasks = {t1, t2}
  Untracked <- MCUntracked
INVARIANTS
  TypeOK
  HandoverIsClean
  
  
PROPERTIES
  EveryRunEnds
CHECK_DEADLOCK FALSE
