SPECIFICATION Spec
CONSTANTS
  t1 = t1
  t2 = t2
  f1 = f1
  h1 = h1
  h2 = h2
  h3 = h3
  Tasks = {t1, t2}
  Flags = {f1}
  Requests = {h1, h2, h3}
  Approvers = {}
  MaxReviewRounds = 1
  MaxBatches = 3
  MaxCrashes = 1
SYMMETRY Symmetry
INVARIANTS
  OneResumePerBatch
  NoRunOverOpenReviews
  DeliveredOnce
  RoundsAreCapped
CHECK_DEADLOCK FALSE
