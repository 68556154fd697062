SPECIFICATION Spec
CONSTANTS
  t1 = t1
  t2 = t2
  f1 = f1
  h1 = h1
  h2 = h2
  Tasks = {t1, t2}
  Flags = {f1}
  Requests = {h1, h2}
  Approvers = {}
  MaxReviewRounds = 1
  MaxBatches = 2
  MaxCrashes = 0
SYMMETRY Symmetry
INVARIANTS
  DecidedBatchIsResumed
CHECK_DEADLOCK FALSE
