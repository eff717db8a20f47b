SPECIFICATION Spec
SYMMETRY ServiceSymmetry
CONSTANTS
  Call = {c1, c2}
  Sha = {h1, h2}
  NoSha = nosha
  MaxMoves = 3
INVARIANTS
  ServiceTypeOK
  ContextConsistent
  PostedConsistent
  CurrentAfterAnalysis
  SubmitsOnce
\* Every call ends and the head may have moved as often as the bound allows.
CHECK_DEADLOCK FALSE
