SPECIFICATION MCPSpec
SYMMETRY ToolSymmetry
CONSTANTS
  Call = {c1, c2, c3}
  Sha = {h1, h2}
  NoSha = nosha
  MaxMoves = 3
  AllowWrites = TRUE
  MaxConcurrentReviews = 1
  MaxEntries = 2
  TTL = 1
  MaxTime = 1
INVARIANTS
  ClaimsExact
  CacheOrderly
  RepeatsExplained
  AnswerHonest
CHECK_DEADLOCK FALSE
