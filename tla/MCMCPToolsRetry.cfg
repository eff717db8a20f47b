SPECIFICATION MCPSpec
SYMMETRY ToolSymmetry
CONSTANTS
  Call = {c1, c2}
  Sha = {h1, h2}
  NoSha = nosha
  MaxMoves = 1
  AllowWrites = TRUE
  MaxConcurrentReviews = 1
  MaxEntries = 2
  TTL = 1
  MaxTime = 1
CHECK_DEADLOCK FALSE
INVARIANTS
  SecondPostRejected
