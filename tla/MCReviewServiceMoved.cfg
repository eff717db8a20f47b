SPECIFICATION Spec
CONSTANTS
  Call = {c1}
  Sha = {h1, h2}
  NoSha = nosha
  MaxMoves = 3
PROPERTIES
  NoReviewOfMovedHead
CHECK_DEADLOCK FALSE
