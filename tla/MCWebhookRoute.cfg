SPECIFICATION WebSpec
CONSTANTS
  JobId = {j1, j2}
  Key = {h1, h2, h3}
  Posts = {TRUE}
  NoKey = nokey
  MaxJobs = 2
  Retention = 0
  MaxTime = 1
  Worker = {w1}
  MaxQueueSize = 1
  Stop = stop
  NoJob = nojob
  Delivery = {d1, d2}
  NoDelivery = nodelivery
  Client = {c1, c2, c3}
  MaxDeliveries = 1
  DeliveryTTL = 1
SYMMETRY WebSymmetry
INVARIANTS
  RememberedIsAdmitted
  AdmittedOnce
