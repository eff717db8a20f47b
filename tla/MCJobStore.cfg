SPECIFICATION StoreSpec
CONSTANTS
  JobId = {j1, j2, j3}
  Key = {h1, h2}
  Posts = {FALSE}
  NoKey = nokey
  MaxJobs = 2
  Retention = 1
  MaxTime = 1
SYMMETRY IdSymmetry
CHECK_DEADLOCK FALSE
INVARIANTS
  StoreTypeOK
  IndexExact
  LifecycleConsistent
PROPERTIES
  EvictsOldestTerminal
  HistoryOnlyGrows
  ImplementsHeadLocks
