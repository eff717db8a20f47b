SPECIFICATION FairSpec
CONSTANTS
  JobId = {j1, j2, j3}
  Key = {h1}
  Posts = {FALSE}
  NoKey = nokey
  MaxJobs = 3
  Retention = 0
  MaxTime = 0
  Worker = {w1, w2, w3}
  MaxQueueSize = 2
  Stop = stop
  NoJob = nojob
PROPERTIES
  StopReturns
  JobsServed
