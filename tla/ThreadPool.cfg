SPECIFICATION FairSpec
CONSTANTS
  Workers = {w1, w2}
  Callers = {c1, c2}
  MaxTasks = 2
  MaxCalls = 2
INVARIANTS
  TypeOK
  FrameSafe
  ActiveCounts
PROPERTIES
  WaitReturns
  DestroyReturns
  AbstractSpec
