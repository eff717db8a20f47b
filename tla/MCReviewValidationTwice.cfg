SPECIFICATION Spec
CONSTANTS
  Reviews <- MCReviews
  Changes <- MCChanges
  Budgets = {4, 14}
  MinConfidence = 80
  MaxItems = 3
  MaxComments = 2
  MaxBody = 11
  LineSize <- MCLineSize
CHECK_DEADLOCK FALSE
INVARIANT
  NoDuplicates
