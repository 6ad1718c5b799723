SPECIFICATION FairSpec
CONSTANTS
  a = a
  b = b
  Tasks = {a, b}
  Order <- AOrder
  ParallelTasks = {a, b}
  Rounds <- ARounds
  MaxRuns = 2
INVARIANTS
  TypeOK
  ExitIsOrderly
  ReportIsTrue
  OneWriter
PROPERTIES
  ProgramExits
CHECK_DEADLOCK FALSE
