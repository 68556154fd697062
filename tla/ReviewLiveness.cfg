SPECIFICATION FairSpec
CONSTANTS
  t1 = t1
  f1 = f1
  f2 = f2
  h1 = h1
  h2 = h2
  a1 = a1
  Tasks = {t1}
  Flags = {f1, f2}
  Requests = {h1, h2}
  Approvers = {a1}
  MaxReviewRounds = 1
  MaxBatches = 3
  MaxCrashes = 1
INVARIANTS
  TypeOK
  OpenReviewsAreAwaited
  VariantsReflectReviews
PROPERTIES
  DecideCallsEnd
CHECK_DEADLOCK FALSE
