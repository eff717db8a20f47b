SPECIFICATION Spec
CONSTANTS
  JobId = {j1, j2, j3, j4}
  Key = {h1}
  Posts = {TRUE}
  NoKey = nokey
  MaxJobs = 3
  Retention = 1
  MaxTime = 1
  Worker = {w1, w2, w3}
  MaxQueueSize = 2
  Stop = stop
  NoJob = nojob
SYMMETRY QueueSymmetry
INVARIANTS
  QueueTypeOK
  NoOrphan
  NoGhost
  SingleHandler
  UnfinishedExact
  NoJobBehindStop
  StopSettles
PROPERTIES
  AcceptedNeverDropped
  StoreSpec
